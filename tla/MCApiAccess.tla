---------------------------- MODULE MCApiAccess ----------------------------
\* Instances of ApiAccess.
EXTENDS ApiAccess

\* One code stands for a route's refusals: the instance tells them not apart.
Narrowed(route) ==
    [route EXCEPT !.refusals = IF @ = {} THEN {} ELSE {CHOOSE code \in @ : TRUE}]

\* Every shape of handler: a guarded change in one commit, an operation in two, a lost insert
\* race, a coroutine, a read, a login, a logout.
Writes ==
    [post_conversation |-> Narrowed(post_conversation),
     admin_start_domain |-> Narrowed(admin_start_domain),
     admin_upload_source |-> Narrowed(admin_upload_source),
     me |-> me, login |-> login, logout |-> Narrowed(logout)]

\* The one handler that is a coroutine.
Uploads == [admin_upload_source |-> Narrowed(admin_upload_source)]

\* Every route of the API.
Every ==
    [live |-> live, ready |-> ready, csrf |-> csrf, login |-> login, me |-> me,
     logout |-> logout, admin_users |-> admin_users,
     post_composer_refs_discover |-> post_composer_refs_discover,
     get_conversations |-> get_conversations, post_conversation |-> post_conversation,
     get_conversation |-> get_conversation, patch_conversation |-> patch_conversation,
     remove_conversation |-> remove_conversation,
     post_conversation_turn_stream |-> post_conversation_turn_stream,
     get_conversation_turn_events |-> get_conversation_turn_events,
     post_conversation_turn_cancel |-> post_conversation_turn_cancel,
     admin_runtime_settings |-> admin_runtime_settings,
     admin_rotate_provider_credential |-> admin_rotate_provider_credential,
     admin_create_model_profile |-> admin_create_model_profile,
     admin_update_model_profile |-> admin_update_model_profile,
     admin_delete_model_profile |-> admin_delete_model_profile,
     admin_update_runtime_settings |-> admin_update_runtime_settings,
     admin_create_domain |-> admin_create_domain, admin_list_domains |-> admin_list_domains,
     admin_get_domain |-> admin_get_domain, admin_get_domain_status |-> admin_get_domain_status,
     admin_start_domain |-> admin_start_domain, admin_stop_domain |-> admin_stop_domain,
     admin_delete_domain |-> admin_delete_domain,
     admin_domain_operations |-> admin_domain_operations,
     admin_upload_source |-> admin_upload_source, admin_list_sources |-> admin_list_sources,
     admin_get_source |-> admin_get_source, admin_get_source_outline |-> admin_get_source_outline,
     admin_source_operations |-> admin_source_operations,
     admin_retry_source_index |-> admin_retry_source_index,
     admin_cancel_source_index |-> admin_cancel_source_index,
     admin_retry_source |-> admin_retry_source, admin_cancel_source |-> admin_cancel_source,
     admin_delete_source |-> admin_delete_source,
     retrieve_domain_evidence |-> retrieve_domain_evidence, get_domain_graph |-> get_domain_graph,
     get_domain_graph_labels |-> get_domain_graph_labels,
     list_available_domains |-> list_available_domains,
     list_member_documents |-> list_member_documents, get_member_document |-> get_member_document,
     get_member_document_content |-> get_member_document_content,
     get_member_evidence_location |-> get_member_evidence_location]
=============================================================================
