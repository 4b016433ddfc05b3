---------------------------- MODULE MCFileStore -----------------------------
(***************************************************************************)
(* Small instances of FileStore, and of the repository service that uses   *)
(* it.  The two are looked at one at a time: a behaviour is about some of  *)
(* the tables, or, if it is about none, about the service.                 *)
(***************************************************************************)
EXTENDS FileStore

CONSTANTS Handlers, RepositoryIds, NoRepository

VARIABLES repo, used, stage, kind, on, copy, answer, logged, outdated

serviceVars == <<repo, used, stage, kind, on, copy, answer, logged, outdated>>

Service == INSTANCE Repositories

\* Two spellings of one name, and another one.
MCNames == {<<"edge", "lower">>, <<"edge", "upper">>, <<"core", "lower">>}

MCInit == Init /\ Service!RepositoriesInit

MCNext ==
    \/ tables # {} /\ Next /\ UNCHANGED serviceVars
    \/ tables = {} /\ Service!RepositoriesNext /\ UNCHANGED vars

MCSpec == MCInit /\ [][MCNext]_<<vars, serviceVars>>

\* Only a request to enable, or a check with an old copy, undoes a disabling, and
\* nothing undoes a deletion.
OldChecksUndoOnlyDisabling == Service!OldChecksUndoOnlyDisabling
=============================================================================
