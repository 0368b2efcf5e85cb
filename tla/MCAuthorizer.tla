---------------------------- MODULE MCAuthorizer ----------------------------
(***************************************************************************)
(* Small instances of Authorizer.                                          *)
(***************************************************************************)
EXTENDS Authorizer

Check(verb, ns) ==
  [Verb |-> verb, GroupResource |-> "cmtests", Namespace |-> ns]

\* A namespaced check before and after the cluster-wide one, and a repeated
\* check; two namespaces.
OneVerb ==
  {<<Check("get", "dev"), Check("get", AllNamespaces), Check("get", "dev")>>,
   <<Check("get", "dev"), Check("get", "prod")>>}

TwoTargets ==
  {<<[GroupResource |-> "cmtests", Namespace |-> "dev"],
     [GroupResource |-> "cmtests", Namespace |-> AllNamespaces]>>}

=============================================================================
