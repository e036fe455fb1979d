---------------------------- MODULE MCCPrograms ----------------------------
(* The programs that share documents, run together, and the others alone.  *)
EXTENDS CPrograms

Together ==
  {{<<"counter", 1>>, <<"expiration", 1>>},
   {<<"updating", 1>>, <<"counter", 1>>},
   {<<"durability", 1>>, <<"updating", 1>>},
   {<<"durability", 1>>, <<"flush", 1>>},
   {<<"subdoc_retrieving", 1>>, <<"subdoc_updating", 1>>},
   {<<"subdoc_retrieving", 1>>, <<"flush", 1>>},
   {<<"bulk_get", 1>>, <<"bulk_store", 1>>},
   {<<"query_consistency", 1>>, <<"query_atplus", 2>>, <<"n1ql_create_primary_index", 1>>},
   {<<"query_criteria", 1>>, <<"query_placeholders", 1>>, <<"query_create_index", 1>>},
   {<<"query_consistency", 1>>, <<"query_atplus", 1>>},
   {<<"retrieving", 1>>, <<"cloud", 1>>},
   {<<"create_remove_bucket", 1>>, <<"create_remove_bucket", 2>>},
   {<<"connecting", 1>>, <<"fts_basic", 1>>}}
=============================================================================
