------------------------------ MODULE ApiRoutes ------------------------------
(***************************************************************************)
(* The routes of the HTTP API.  A handler is described by what it asks for *)
(* before it calls its service, by the transactions in which the service   *)
(* changes the database, and by the public error codes its refusals are    *)
(* projected to:                                                           *)
(*   who       "public", "member" (any session) or "administrator"         *)
(*   unsafe    POST, PUT, PATCH, DELETE: the CSRF check applies            *)
(*   match     a strong If-Match version is required                       *)
(*   keyed     an Idempotency-Key is honoured                              *)
(*   loop      the handler is a coroutine: its queries keep the event loop *)
(*             of the process; the others run in threads                   *)
(*   guarded   the service locks and revalidates the actor's session       *)
(*   service   "read"; "once": one commit carries the change and its audit *)
(*             row; "quiet": one commit, no audit row; "twice": the change *)
(*             is committed before an outside call and the audit row after *)
(*             it; "login"; "logout"                                       *)
(*   rolls     a lost insert race is rolled back before it is refused      *)
(*   refusals  the codes a refusing service is answered with               *)
(* ApiAccess runs requests through these descriptions.                     *)
(***************************************************************************)

APPROVED_HTTP_ERROR_CODES ==
    {"account_unavailable", "audit_unavailable", "capacity_unavailable", "content_rejected",
     "csrf_invalid", "cursor_expired", "dependency_unavailable", "document_content_unavailable",
     "document_not_found", "document_preview_unavailable", "domain_not_query_eligible",
     "domain_operation_in_progress", "domain_required", "domain_state_conflict",
     "duplicate_source", "evidence_not_found", "evidence_unavailable", "forbidden",
     "graph_refreshing", "http_error", "idempotency_conflict", "internal_error",
     "invalid_credentials", "not_found", "operation_conflict", "range_not_satisfiable",
     "rate_limited", "session_expired", "source_not_ready", "stale_revision",
     "turn_not_cancellable", "unauthenticated", "validation_error"}

---------------------------------------------------------------------------
\* Projection of a service's codes.  Some projectors let every code through, the others
\* answer a code they do not know with dependency_unavailable.

UserDirectoryApiError(codes) == codes
RuntimeConfigApiError(codes) == codes
DomainApiError(codes) == codes
SourceApiError(codes) == codes
ConversationApiError(codes) == codes
GraphApiError(codes) == codes

Known(codes, approved) ==
    (codes \cap approved) \cup (IF codes \subseteq approved THEN {} ELSE {"dependency_unavailable"})

DocumentApiError(codes) ==
    Known(codes, {"document_not_found", "document_preview_unavailable",
                  "document_content_unavailable", "evidence_not_found", "evidence_unavailable",
                  "range_not_satisfiable", "cursor_expired", "validation_error"})

SourceIndexApiError(codes) ==
    { CASE c \in {"domain_not_found", "source_not_found"} -> "not_found"
        [] c = "domain_state_conflict" -> "domain_state_conflict"
        [] c \in {"source_state_conflict", "source_index_in_progress", "source_index_conflict"}
             -> "operation_conflict"
        [] c = "source_index_input_invalid" -> "validation_error"
        [] OTHER -> "dependency_unavailable" : c \in codes }

EvidenceApiError(codes) ==
    { CASE c = "domain_not_found" -> "not_found"
        [] c \in {"domain_state_conflict", "domain_runtime_unavailable",
                  "domain_no_eligible_sources"} -> "domain_not_query_eligible"
        [] c = "retrieval_capacity_unavailable" -> "capacity_unavailable"
        [] OTHER -> "dependency_unavailable" : c \in codes }

ComposerRefApiError(codes) ==
    { CASE c = "validation_error" -> "validation_error"
        [] c = "composer_ref_unavailable" -> "operation_conflict"
        [] OTHER -> "dependency_unavailable" : c \in codes }

ChatTurnApiError(codes) ==
    { CASE c \in {"validation_error", "domain_required", "unauthenticated",
                  "turn_not_cancellable", "cursor_expired"} -> c
        [] c \in {"domain_not_found", "not_found"} -> "not_found"
        [] c \in {"domain_state_conflict", "domain_runtime_unavailable"}
             -> "domain_not_query_eligible"
        [] c \in {"client_request_conflict", "idempotency_conflict"} -> "idempotency_conflict"
        [] c \in {"conversation_turn_in_progress", "composer_ref_unavailable"}
             -> "operation_conflict"
        [] OTHER -> "dependency_unavailable" : c \in codes }

---------------------------------------------------------------------------
\* The shapes of handlers.

Reads(who, refusals) ==
    [who |-> who, unsafe |-> FALSE, match |-> FALSE, keyed |-> FALSE, loop |-> FALSE,
     guarded |-> FALSE, service |-> {"read"}, rolls |-> FALSE, refusals |-> refusals]
Posts(who, service, refusals) ==
    [Reads(who, refusals) EXCEPT !.unsafe = TRUE, !.service = service]
Matching(route) == [route EXCEPT !.match = TRUE]
Keyed(route) == [route EXCEPT !.keyed = TRUE]
OnLoop(route) == [route EXCEPT !.loop = TRUE]
Guarded(route) == [route EXCEPT !.guarded = TRUE]
Rolling(route) == [route EXCEPT !.rolls = TRUE]

\* The codes of a page read, and of a service that resolves the profiles of a domain.
InvalidPage == {"validation_error", "cursor_expired"}
Resolution ==
    {"embedding_profile_not_found", "embedding_profile_invalid",
     "graph_extraction_profile_not_found", "graph_extraction_profile_invalid",
     "graph_extraction_profile_unsupported", "provider_not_found", "runtime_config_unavailable"}

---------------------------------------------------------------------------
\* Health and identity.

live == Reads("public", {})
ready == Reads("public", {"dependency_unavailable"})
csrf == Reads("public", {})
login == Posts("public", {"login"}, {"rate_limited", "invalid_credentials"})
me == Reads("member", {})
logout == Posts("member", {"logout"}, {})
admin_users == Reads("administrator", UserDirectoryApiError(InvalidPage))

---------------------------------------------------------------------------
\* Conversations, turns and composer references.

post_composer_refs_discover ==
    Posts("member", {"quiet"},
          ComposerRefApiError({"validation_error", "composer_ref_unavailable"}))
get_conversations == Reads("member", ConversationApiError(InvalidPage))
post_conversation ==
    Guarded(Keyed(Posts("member", {"once"},
                        ConversationApiError({"unauthenticated", "validation_error"}))))
get_conversation == Reads("member", ConversationApiError({"not_found"}))
patch_conversation ==
    Guarded(Matching(Posts("member", {"once"},
                           ConversationApiError({"unauthenticated", "not_found",
                                                 "validation_error", "stale_revision"}))))
remove_conversation ==
    Guarded(Matching(Posts("member", {"once"},
                           ConversationApiError({"unauthenticated", "not_found",
                                                 "stale_revision"}))))
post_conversation_turn_stream ==
    Guarded(Posts("member", {"quiet"},
                  ChatTurnApiError({"validation_error", "domain_required", "domain_not_found",
                                    "domain_state_conflict", "domain_runtime_unavailable",
                                    "client_request_conflict", "conversation_turn_in_progress",
                                    "composer_ref_unavailable", "synthesis_profile_not_ready",
                                    "unauthenticated"})))
get_conversation_turn_events ==
    Reads("member", ChatTurnApiError({"not_found", "cursor_expired"}))
post_conversation_turn_cancel ==
    Guarded(Posts("member", {"quiet"},
                  ChatTurnApiError({"not_found", "turn_not_cancellable", "unauthenticated"})))

---------------------------------------------------------------------------
\* Runtime settings.

admin_runtime_settings == Reads("administrator", {})
admin_rotate_provider_credential ==
    Matching(Posts("administrator", {"once"},
                   RuntimeConfigApiError({"validation_error", "provider_not_found",
                                          "provider_credentials_unsupported",
                                          "stale_revision"})))
admin_create_model_profile ==
    Keyed(Posts("administrator", {"once"},
                RuntimeConfigApiError({"invalid_profile_kind", "invalid_model_provider",
                                       "vector_dimensions_required", "validation_error",
                                       "vector_dimensions_not_allowed", "provider_not_found",
                                       "model_profile_not_in_catalog"})))
admin_update_model_profile ==
    Matching(Posts("administrator", {"once"},
                   RuntimeConfigApiError({"model_profile_not_found", "stale_revision",
                                          "model_profile_in_use", "vector_dimensions_required",
                                          "vector_dimensions_not_allowed",
                                          "model_profile_not_in_catalog"})))
admin_delete_model_profile ==
    Posts("administrator", {"once"},
          RuntimeConfigApiError({"model_profile_not_found", "model_profile_in_use"}))
admin_update_runtime_settings ==
    Matching(Posts("administrator", {"once"},
                   RuntimeConfigApiError({"empty_runtime_settings_patch", "stale_revision",
                                          "active_synthesis_required", "provider_not_ready",
                                          "model_profile_not_found", "provider_not_found",
                                          "invalid_active_synthesis_profile",
                                          "invalid_parser_kind"})))

---------------------------------------------------------------------------
\* Domains.

admin_create_domain ==
    Rolling(Keyed(Posts("administrator", {"twice"},
                        DomainApiError({"validation_error", "operation_conflict",
                                        "dependency_unavailable"} \cup Resolution))))
admin_list_domains == Reads("administrator", DomainApiError(InvalidPage))
admin_get_domain == Reads("administrator", DomainApiError({"not_found"}))
admin_get_domain_status == Reads("administrator", DomainApiError({"not_found"}))
Lifecycle ==
    {"not_found", "domain_operation_in_progress", "domain_state_conflict",
     "dependency_unavailable"}
admin_start_domain ==
    Rolling(Keyed(Posts("administrator", {"twice"}, DomainApiError(Lifecycle \cup Resolution))))
admin_stop_domain ==
    Rolling(Keyed(Posts("administrator", {"twice"}, DomainApiError(Lifecycle))))
admin_delete_domain ==
    Rolling(Matching(Keyed(Posts("administrator", {"once"},
                                 DomainApiError({"not_found", "stale_revision",
                                                 "domain_operation_in_progress",
                                                 "domain_state_conflict"})))))
admin_domain_operations ==
    Reads("administrator", DomainApiError({"not_found"} \cup InvalidPage))

---------------------------------------------------------------------------
\* Sources.

Sourced == {"domain_not_found", "source_not_found"}
admin_upload_source ==
    OnLoop(Rolling(Keyed(Posts("administrator", {"once"},
                               SourceApiError({"content_rejected", "domain_not_found",
                                               "domain_state_conflict", "duplicate_source",
                                               "dependency_unavailable"})))))
admin_list_sources == Reads("administrator", SourceApiError({"domain_not_found"} \cup InvalidPage))
admin_get_source == Reads("administrator", SourceApiError(Sourced))
admin_get_source_outline == Reads("administrator", SourceApiError(Sourced))
admin_source_operations == Reads("administrator", SourceApiError(Sourced \cup InvalidPage))
admin_retry_source_index ==
    Keyed(Posts("administrator", {"once", "twice"},
                SourceIndexApiError({"domain_not_found", "source_not_found",
                                     "domain_state_conflict", "source_state_conflict",
                                     "source_index_in_progress", "source_index_unavailable",
                                     "source_index_timeout", "source_index_delete_failed"})))
admin_cancel_source_index ==
    Posts("administrator", {"twice"},
          SourceIndexApiError({"domain_not_found", "source_not_found", "domain_state_conflict",
                               "source_state_conflict", "source_index_delete_failed"}))
admin_retry_source ==
    Rolling(Keyed(Posts("administrator", {"once"},
                        SourceApiError(Sourced \cup {"domain_state_conflict",
                                                     "source_state_conflict",
                                                     "operation_conflict"}))))
admin_cancel_source ==
    Matching(Posts("administrator", {"once"},
                   SourceApiError(Sourced \cup {"source_state_conflict", "stale_revision"})))
admin_delete_source ==
    Rolling(Matching(Keyed(Posts("administrator", {"once"},
                                 SourceApiError(Sourced \cup {"stale_revision",
                                                              "operation_conflict"})))))

---------------------------------------------------------------------------
\* Evidence, graph and document reads.

retrieve_domain_evidence ==
    Posts("member", {"read"},
          EvidenceApiError({"domain_not_found", "domain_state_conflict",
                            "domain_runtime_unavailable", "domain_no_eligible_sources",
                            "retrieval_capacity_unavailable",
                            "retrieval_dependency_unavailable"}))
Graphed == {"not_found", "domain_not_query_eligible", "graph_refreshing", "rate_limited",
            "capacity_unavailable", "dependency_unavailable", "validation_error"}
get_domain_graph == Reads("member", GraphApiError(Graphed))
get_domain_graph_labels == Reads("member", GraphApiError(Graphed))
list_available_domains == Reads("member", {})
list_member_documents == Reads("member", DocumentApiError(InvalidPage))
get_member_document == Reads("member", DocumentApiError({"document_not_found"}))
get_member_document_content ==
    Reads("member", DocumentApiError({"document_not_found", "document_preview_unavailable",
                                      "document_content_unavailable",
                                      "range_not_satisfiable"}))
get_member_evidence_location ==
    Reads("member", DocumentApiError({"evidence_not_found", "evidence_unavailable",
                                      "document_preview_unavailable"}))
=============================================================================
