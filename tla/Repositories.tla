---------------------------- MODULE Repositories ----------------------------
(***************************************************************************)
(* The chart repository service of internal/platform/repositories.go:      *)
(* requests that create, check, enable, disable and delete repository      *)
(* records, running concurrently.                                          *)
(*                                                                         *)
(* Every request reads the whole record, changes its copy and writes the   *)
(* copy back; nothing compares the record with the one that was read.  A   *)
(* store call is one step and may fail without an effect, and so may the   *)
(* audit.  Names, URLs and credentials never change after the creation and *)
(* are left out; so are the views, which only copy fields.                 *)
(***************************************************************************)
EXTENDS Integers, FiniteSets

CONSTANTS
    Handlers,       \* the requests of a behaviour
    RepositoryIds,
    NoRepository

VARIABLES
    repo,       \* repo[k]: the stored record of repository k
    used,       \* the IDs that have been given to a repository
    stage,      \* stage[h]: the next step of request h
    kind,       \* kind[h]: what request h is to do
    on,         \* on[h]: the repository it is to do it to
    copy,       \* copy[h]: its copy of the record
    answer,     \* answer[h]: what it was answered
    logged,     \* the requests whose change is in the audit log
    outdated    \* history: the requests whose copy is no longer what is stored

repositoryVars == <<repo, used, stage, kind, on, copy, answer, logged, outdated>>

Kinds == {"create", "test", "enable", "disable", "delete"}

RepositoriesInit ==
    /\ repo = [k \in RepositoryIds |-> NoRepository]
    /\ used = {}
    /\ stage = [h \in Handlers |-> "none"]
    /\ kind = [h \in Handlers |-> "none"]
    /\ on = [h \in Handlers |-> CHOOSE k \in RepositoryIds : TRUE]
    /\ copy = [h \in Handlers |-> NoRepository]
    /\ answer = [h \in Handlers |-> "none"]
    /\ logged = {}
    /\ outdated = {}

-----------------------------------------------------------------------------
GoTo(h, s) == stage' = [stage EXCEPT ![h] = s]

Answer(h, what) ==
    /\ GoTo(h, "done")
    /\ answer' = [answer EXCEPT ![h] = what]
    /\ copy' = [copy EXCEPT ![h] = NoRepository]

\* A commit of the store that changes the record of k.
Store(k, r) ==
    /\ repo' = [repo EXCEPT ![k] = r]
    /\ outdated' = outdated \cup {h \in Handlers : on[h] = k /\ copy[h] # NoRepository
                                                  /\ stage[h] # "insert"}

\* A request arrives.  CreateRepository takes a new random ID; input that it
\* refuses is a failing Insert.
Begin(h, what, k) ==
    /\ stage[h] = "none"
    /\ what = "create" <=> k \notin used
    /\ kind' = [kind EXCEPT ![h] = what]
    /\ on' = [on EXCEPT ![h] = k]
    /\ used' = used \cup {k}
    /\ GoTo(h, IF what = "create" THEN "insert" ELSE "get")
    /\ UNCHANGED <<repo, copy, answer, logged, outdated>>

\* CreateRepository stores the record; its audit follows, and then the check.
Insert(h) ==
    /\ stage[h] = "insert"
    /\ Store(on[h], [enabled |-> TRUE, status |-> "pending"])
    /\ GoTo(h, "log")
    /\ UNCHANGED <<used, kind, on, copy, answer, logged>>

SetEnabled(r, what) ==
    IF what = "enable" THEN [enabled |-> TRUE, status |-> "pending"]
                       ELSE [enabled |-> FALSE, status |-> "disabled"]

AfterGet(h) ==
    CASE kind[h] \in {"test", "create"} -> "check"
      [] kind[h] = "delete" -> "log"
      [] OTHER -> "write"

\* GetRepository.  A check of a disabled repository is refused.
Get(h) ==
    LET r == repo[on[h]]
        refused == r = NoRepository \/ (kind[h] \in {"test", "create"} /\ ~r.enabled)
    IN  /\ stage[h] = "get"
        /\ IF refused
           THEN Answer(h, IF kind[h] = "create" THEN "ok" ELSE "error")
           ELSE /\ copy' = [copy EXCEPT ![h] =
                      IF kind[h] \in {"enable", "disable"} THEN SetEnabled(r, kind[h]) ELSE r]
                /\ GoTo(h, AfterGet(h))
                /\ UNCHANGED answer
        /\ outdated' = outdated \ {h}
        /\ UNCHANGED <<repo, used, kind, on, logged>>

\* The repository answers with a usable index, or it does not.
Check(h) ==
    /\ stage[h] = "check"
    /\ \E status \in {"connected", "unreachable"} :
          copy' = [copy EXCEPT ![h].status = status]
    /\ GoTo(h, "write")
    /\ UNCHANGED <<repo, used, kind, on, answer, logged, outdated>>

WriteAnyway(h) ==
    /\ stage[h] = "write"
    /\ Store(on[h], copy[h])
    /\ GoTo(h, "log")
    /\ UNCHANGED <<used, kind, on, copy, answer, logged>>

Write(h) ==
    /\ stage[h] = "write"
    /\ IF repo[on[h]] = NoRepository
       THEN Answer(h, IF kind[h] = "create" THEN "ok" ELSE "error") /\ UNCHANGED <<repo, outdated>>
       ELSE Store(on[h], copy[h]) /\ GoTo(h, "log") /\ UNCHANGED <<copy, answer>>
    /\ UNCHANGED <<used, kind, on, logged>>

\* The audit event.  A deletion is audited before it is done; a creation goes on
\* to the check of the new repository.
AfterLog(h) ==
    CASE kind[h] = "create" /\ copy[h] = NoRepository -> "get"
      [] kind[h] = "delete" -> "remove"
      [] OTHER -> "done"

Log(h) ==
    /\ stage[h] = "log"
    /\ logged' = logged \cup {h}
    /\ IF AfterLog(h) = "done"
       THEN Answer(h, IF kind[h] = "test" /\ copy[h].status = "unreachable"
                      THEN "unreachable" ELSE "ok")
       ELSE GoTo(h, AfterLog(h)) /\ UNCHANGED <<copy, answer>>
    /\ UNCHANGED <<repo, used, kind, on, outdated>>

\* DeleteRepository; the record may be gone already.
Remove(h) ==
    /\ stage[h] = "remove"
    /\ IF repo[on[h]] = NoRepository
       THEN Answer(h, "error") /\ UNCHANGED <<repo, outdated>>
       ELSE Store(on[h], NoRepository) /\ Answer(h, "ok")
    /\ UNCHANGED <<used, kind, on, logged>>

\* A store call or the audit fails: the store could not write, the context is
\* done, the name is taken.  CreateRepository ignores errors of its check.
CallFails(h) ==
    /\ stage[h] \in {"get", "write", "insert", "log", "remove"}
    /\ Answer(h, IF kind[h] = "create" /\ h \in logged THEN "ok" ELSE "error")
    /\ UNCHANGED <<repo, used, kind, on, logged, outdated>>

RepositoriesNext ==
    \E h \in Handlers :
        \/ \E what \in Kinds, k \in RepositoryIds : Begin(h, what, k)
        \/ Insert(h) \/ Get(h) \/ Check(h) \/ Write(h) \/ Log(h) \/ Remove(h) \/ CallFails(h)

RepositoriesSpec == RepositoriesInit /\ [][RepositoriesNext]_repositoryVars

-----------------------------------------------------------------------------
\* Properties.  WriteAnyway above is the bug they are tried on.

\* A disabled repository is enabled again by a request to enable it, or by a check
\* that had read the record before it was disabled and writes its copy back: no
\* other step undoes SetRepositoryEnabled(false).  A deleted repository does not come
\* back at all, although checks of it may write their result afterwards.
OldChecksUndoOnlyDisabling ==
    [][\A k \in RepositoryIds :
          /\ repo[k] # NoRepository /\ ~repo[k].enabled /\ repo'[k] # NoRepository /\ repo'[k].enabled =>
                \E h \in Handlers :
                    /\ on[h] = k /\ stage[h] = "write" /\ stage'[h] # "write"
                    /\ kind[h] = "enable" \/ (kind[h] \in {"test", "create"} /\ h \in outdated)
          /\ (\E h \in Handlers : on[h] = k /\ kind[h] = "delete" /\ answer[h] = "ok") =>
                repo'[k] = repo[k]
      ]_repositoryVars

=============================================================================
