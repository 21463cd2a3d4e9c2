----------------------------- MODULE MCAclRules -----------------------------
(***************************************************************************)
(* What aclCleanTable checks after it has cleaned the whole table.         *)
(***************************************************************************)
EXTENDS AclRules

\* Once the table is clean no rule and no entry is counted: the last lines of
\* aclCleanTable for index 128 call anything else "something error".  A call of
\* setAclRule without a field is still counted, so this does not hold.
NothingCountedAfterClean ==
  [][CleanAll => acl'.numRules = 0 /\ acl'.numEntries = 0]_aclVars

=============================================================================
