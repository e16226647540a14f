----------------------------- MODULE Onboarding -----------------------------
(***************************************************************************)
(* A repository comes under governance: an import opens a pull request on  *)
(* it, the fleet registry records it, and the operator's fleet sync keeps  *)
(* a GoldenPathRepo object for every entry.                                *)
(*                                                                         *)
(* The registry is an SQL table with a JSONL mirror, which is all that the *)
(* operator reads.  Both are logs of which only the last event of each URL *)
(* counts, so each is kept as that fold.                                   *)
(*                                                                         *)
(* repo_import.py, fleet.py, fleetsync/registry.go, sync.go, runnable.go.  *)
(***************************************************************************)
EXTENDS Naturals, FiniteSets

CONSTANTS
  Users,       \* requests and CLI calls that may be under way at once
  Repos,       \* URLs as normalize_repo_url leaves them, numbered as they sort
  Importable,  \* the repositories that are not governed at first
  Pins,        \* blueprint and standard versions that people register
  ImportPin,   \* ...and the one that an import registers
  NameOf,      \* ResourceName of a URL; spellings of one repository share it
  Foreign,     \* names that somebody else's object may have
  None,
  MaxWrites,   \* bound on registry events
  MaxFaults    \* bound on failed calls, crashes and lost mounts

ASSUME OnboardingAssumption ==
  /\ Repos \subseteq Nat /\ IsFiniteSet(Repos) /\ Importable \subseteq Repos
  /\ None \notin Pins \cup Users \cup {ImportPin}
  /\ MaxWrites \in Nat /\ MaxFaults \in Nat
  /\ DOMAIN NameOf = Repos /\ Foreign \subseteq {NameOf[r] : r \in Repos}

VARIABLES
  governed,  \* the base branch of a repository has repave.yaml
  branch,    \* whose commits the remote import branch has
  request,   \* an import pull request is open
  user,      \* what each user is doing
  registry,  \* last event of each URL in fleet_events
  mirror,    \* ...and in the JSONL file
  mounted,   \* the operator sees the file
  behind,    \* history: URLs whose mirror line was lost or overtaken
  objects,   \* GoldenPathRepos at the API server
  cache,     \* ...and as the operator last heard of them
  pass,      \* the sync pass under way
  writes, faults

github == <<governed, branch, request>>
books  == <<registry, mirror, behind, writes>>
fleet  == <<objects, cache, pass>>
vars   == <<github, user, books, mounted, fleet, faults>>

Names  == {NameOf[r] : r \in Repos}
Fault  == faults < MaxFaults /\ faults' = faults + 1

-----------------------------------------------------------------------------
(* What a user does.  late is history: the clone is older than the merge   *)
(* of another import.                                                      *)

Free == [at |-> "free"]

Doing(at, r, event) == [at |-> at, repo |-> r, event |-> event, late |-> FALSE]

At(u, step)   == user[u].at = step
Goes(u, step) == user' = [user EXCEPT ![u].at = step]
Ends(u)       == user' = [user EXCEPT ![u] = Free]

(* Mutant: a governed repository is planned as well.                       *)
PlanAnything(u, r) ==
  /\ At(u, "free")
  /\ user' = [user EXCEPT ![u] = Doing("planned", r, ImportPin)]
  /\ UNCHANGED <<github, books, mounted, fleet, faults>>

(* materialize_import_target, build_import_plan: a governed clone raises. *)
PlanImport(u, r) ==
  /\ At(u, "free") /\ ~governed[r]
  /\ user' = [user EXCEPT ![u] = Doing("planned", r, ImportPin)]
  /\ UNCHANGED <<github, books, mounted, fleet, faults>>

(* preflight_import: a pull request from this branch that is open raises. *)
Preflight(u) ==
  /\ At(u, "planned")
  /\ IF request[user[u].repo] THEN Ends(u) ELSE Goes(u, "checked")
  /\ UNCHANGED <<github, books, mounted, fleet, faults>>

(* Mutant: the push is forced.                                             *)
PushForced(u) ==
  /\ At(u, "checked")
  /\ branch' = [branch EXCEPT ![user[u].repo] = u] /\ Goes(u, "pushed")
  /\ UNCHANGED <<governed, request, books, mounted, fleet, faults>>

(* apply_import and push_import_branch.  The commits of two imports differ *)
(* and git refuses to replace one with the other.                          *)
PushImport(u) ==
  LET r == user[u].repo IN
  /\ At(u, "checked")
  /\ IF branch[r] = None THEN branch' = [branch EXCEPT ![r] = u] /\ Goes(u, "pushed")
                         ELSE Ends(u) /\ UNCHANGED branch
  /\ UNCHANGED <<governed, request, books, mounted, fleet, faults>>

(* create_github_pull_request: refused without the branch, or when it has  *)
(* one already.                                                            *)
OpenRequest(u) ==
  LET r == user[u].repo IN
  /\ At(u, "pushed")
  /\ IF branch[r] # None /\ ~request[r]
     THEN request' = [request EXCEPT ![r] = TRUE] /\ Goes(u, "commit")
     ELSE Ends(u) /\ UNCHANGED request
  /\ UNCHANGED <<governed, branch, books, mounted, fleet, faults>>

(* A call fails or the process dies, the labels of an open pull request    *)
(* included: nothing is undone and nothing is recorded.                    *)
ImportFails(u) ==
  /\ user[u].at \in {"planned", "checked", "pushed", "commit"} /\ Fault
  /\ Ends(u)
  /\ UNCHANGED <<github, books, mounted, fleet>>

-----------------------------------------------------------------------------
(* fleet.py *)

Pending(u, r) == At(u, "mirror") /\ user[u].repo = r

(* The SQL half of append_fleet_event.  From here the mirror is behind     *)
(* only until its line is written, unless another line is under way.       *)
Commit(u, r, event) ==
  /\ writes < MaxWrites /\ writes' = writes + 1
  /\ registry' = [registry EXCEPT ![r] = event]
  /\ behind' = IF \E v \in Users \ {u} : Pending(v, r) THEN behind \cup {r} ELSE behind \ {r}
  /\ user' = [user EXCEPT ![u] = Doing("mirror", r, event)]

(* register_repo, from a form, an API call, a publish or the CLI. *)
Register(u, r, pin) ==
  /\ At(u, "free")
  /\ Commit(u, r, pin)
  /\ UNCHANGED <<github, mirror, mounted, fleet, faults>>

(* record_import *)
RecordImport(u) ==
  /\ At(u, "commit")
  /\ Commit(u, user[u].repo, user[u].event)
  /\ UNCHANGED <<github, mirror, mounted, fleet, faults>>

(* unregister_repo: what is read is not looked at again. *)
AskUnregister(u, r) ==
  /\ At(u, "free") /\ registry[r] # None /\ writes < MaxWrites
  /\ user' = [user EXCEPT ![u] = Doing("unregister", r, None)]
  /\ UNCHANGED <<github, books, mounted, fleet, faults>>

Unregister(u) ==
  /\ At(u, "unregister")
  /\ Commit(u, user[u].repo, None)
  /\ UNCHANGED <<github, mirror, mounted, fleet, faults>>

(* Mutant: an unregistration is not mirrored.                              *)
MirrorRegistrations(u) ==
  /\ At(u, "mirror")
  /\ mirror' = IF user[u].event = None THEN mirror ELSE [mirror EXCEPT ![user[u].repo] = user[u].event]
  /\ Ends(u)
  /\ UNCHANGED <<github, registry, behind, writes, mounted, fleet, faults>>

(* append_jsonl_line *)
Mirror(u) ==
  /\ At(u, "mirror")
  /\ mirror' = [mirror EXCEPT ![user[u].repo] = user[u].event]
  /\ Ends(u)
  /\ UNCHANGED <<github, registry, behind, writes, mounted, fleet, faults>>

(* The line cannot be written, or the process dies: the row stays. *)
MirrorFails(u) ==
  /\ At(u, "mirror") /\ Fault
  /\ behind' = behind \cup {user[u].repo}
  /\ Ends(u)
  /\ UNCHANGED <<github, registry, mirror, writes, mounted, fleet>>

-----------------------------------------------------------------------------
(* People on GitHub *)

Removed(r) == branch' = branch \/ branch' = [branch EXCEPT ![r] = None]

Merge(r) ==
  /\ request[r] /\ request' = [request EXCEPT ![r] = FALSE]
  /\ governed' = [governed EXCEPT ![r] = TRUE]
  /\ Removed(r)
  /\ user' = [u \in Users |-> IF user[u].at \in {"planned", "checked", "pushed"} /\ user[u].repo = r
                              THEN [user[u] EXCEPT !.late = TRUE] ELSE user[u]]
  /\ UNCHANGED <<books, mounted, fleet, faults>>

(* Deleting the branch closes its pull request. *)
Close(r) ==
  /\ request[r] \/ branch[r] # None
  /\ request' = [request EXCEPT ![r] = FALSE]
  /\ Removed(r)
  /\ UNCHANGED <<governed, user, books, mounted, fleet, faults>>

-----------------------------------------------------------------------------
(* fleetsync: one pass after another, in the pod that leads. *)

Entry(r, pin) == [repo |-> r, pin |-> pin, managed |-> TRUE]

(* Of the URLs with one name the last in order is kept. *)
Wanted(entries) ==
  LET on(n) == {r \in Repos : NameOf[r] = n /\ entries[r] # None} IN
  [n \in {NameOf[r] : r \in {q \in Repos : entries[q] # None}} |->
     LET r == CHOOSE r \in on(n) : \A q \in on(n) : q <= r IN Entry(r, entries[r])]

Someone == [repo |-> None, pin |-> None, managed |-> FALSE]

NoPass == [at |-> "none"]

(* ReadRegistry: a missing file is an empty registry. *)
ReadRegistry ==
  /\ pass.at = "none"
  /\ pass' = [at |-> "read", want |-> Wanted(IF mounted THEN mirror ELSE [r \in Repos |-> None])]
  /\ UNCHANGED <<github, user, books, mounted, objects, cache, faults>>

Managed(list) == {n \in Names : list[n] # None /\ list[n].managed}

(* The list comes from the cache; only managed objects are looked at. *)
ListObjects ==
  /\ pass.at = "read"
  /\ pass' = [at |-> "apply", want |-> pass.want, todo |-> DOMAIN pass.want,
              have |-> [n \in Managed(cache) |-> cache[n]]]
  /\ UNCHANGED <<github, user, books, mounted, objects, cache, faults>>

(* A merge patch: what differs from the copy in the list. *)
Patched(object, have, want) ==
  [object EXCEPT !.repo = IF have.repo # want.repo THEN want.repo ELSE @,
                 !.pin  = IF have.pin # want.pin THEN want.pin ELSE @]

Done(n) == pass' = [pass EXCEPT !.todo = @ \ {n}]

(* The name may be taken, by an object that is not managed or one that the *)
(* list lacks: the pass ends there, and nothing is pruned.                 *)
Create(n) ==
  /\ pass.at = "apply" /\ n \in pass.todo \ DOMAIN pass.have
  /\ IF objects[n] = None THEN objects' = [objects EXCEPT ![n] = pass.want[n]] /\ Done(n)
                          ELSE pass' = NoPass /\ UNCHANGED objects
  /\ UNCHANGED <<github, user, books, mounted, cache, faults>>

(* Mutant: an entry that changed is left as it was.                        *)
Leave(n) ==
  /\ pass.at = "apply" /\ n \in pass.todo \cap DOMAIN pass.have
  /\ Done(n)
  /\ UNCHANGED <<github, user, books, mounted, objects, cache, faults>>

(* Nothing is sent for an object that looks right. *)
Update(n) ==
  /\ pass.at = "apply" /\ n \in pass.todo \cap DOMAIN pass.have
  /\ IF pass.have[n] = pass.want[n] THEN Done(n) /\ UNCHANGED objects
     ELSE IF objects[n] = None THEN pass' = NoPass /\ UNCHANGED objects
     ELSE objects' = [objects EXCEPT ![n] = Patched(@, pass.have[n], pass.want[n])] /\ Done(n)
  /\ UNCHANGED <<github, user, books, mounted, cache, faults>>

Orphans == DOMAIN pass.have \ DOMAIN pass.want

(* An object is deleted by its name; one that is gone ends the pass. *)
Prune(n) ==
  /\ pass.at = "apply" /\ pass.todo = {} /\ n \in Orphans
  /\ pass' = IF objects[n] = None THEN NoPass
             ELSE [pass EXCEPT !.have = [m \in DOMAIN pass.have \ {n} |-> pass.have[m]]]
  /\ objects' = [objects EXCEPT ![n] = None]
  /\ UNCHANGED <<github, user, books, mounted, cache, faults>>

EndPass ==
  /\ pass.at = "apply" /\ pass.todo = {} /\ Orphans = {}
  /\ pass' = NoPass
  /\ UNCHANGED <<github, user, books, mounted, objects, cache, faults>>

(* A call fails, or another pod takes over, which lists anew. *)
PassFails ==
  /\ pass.at # "none" /\ Fault
  /\ pass' = NoPass /\ cache' \in {cache, objects}
  /\ UNCHANGED <<github, user, books, mounted, objects>>

Deliver(n) ==
  /\ cache[n] # objects[n]
  /\ cache' = [cache EXCEPT ![n] = objects[n]]
  /\ UNCHANGED <<github, user, books, mounted, objects, pass, faults>>

(* kubectl delete *)
DeleteByHand(n) ==
  /\ Fault /\ objects[n] # None
  /\ objects' = [objects EXCEPT ![n] = None]
  /\ UNCHANGED <<github, user, books, mounted, cache, pass>>

(* The volume of the registry is not there, or there again. *)
Unmount == Fault /\ mounted /\ mounted' = FALSE /\ UNCHANGED <<github, user, books, fleet>>
Mount   == ~mounted /\ mounted' = TRUE /\ UNCHANGED <<github, user, books, fleet, faults>>

-----------------------------------------------------------------------------
Init ==
  /\ governed = [r \in Repos |-> r \notin Importable]
  /\ branch = [r \in Repos |-> None] /\ request = [r \in Repos |-> FALSE]
  /\ user = [u \in Users |-> Free]
  /\ registry = [r \in Repos |-> None] /\ mirror = registry
  /\ mounted = TRUE /\ behind = {} /\ writes = 0 /\ faults = 0
  /\ \E taken \in SUBSET Foreign : objects = [n \in Names |-> IF n \in taken THEN Someone ELSE None]
  /\ cache = objects /\ pass = NoPass

UserStep(u) ==
  \/ Preflight(u) \/ PushImport(u) \/ OpenRequest(u)
  \/ RecordImport(u) \/ Unregister(u) \/ Mirror(u)

SyncStep ==
  \/ ReadRegistry \/ ListObjects \/ EndPass
  \/ \E n \in Names : Create(n) \/ Update(n) \/ Prune(n)

Next ==
  \/ \E u \in Users : \/ UserStep(u) \/ ImportFails(u) \/ MirrorFails(u)
                      \/ \E r \in Repos : \/ PlanImport(u, r) \/ AskUnregister(u, r)
                                          \/ \E pin \in Pins : Register(u, r, pin)
  \/ \E r \in Repos : Merge(r) \/ Close(r)
  \/ SyncStep \/ PassFails \/ Unmount \/ Mount
  \/ \E n \in Names : Deliver(n) \/ DeleteByHand(n)

Spec == Init /\ [][Next]_vars

(* Calls return, the ticker ticks, watches deliver and volumes come back.  *)
Fairness ==
  /\ \A u \in Users : WF_vars(UserStep(u))
  /\ WF_vars(SyncStep) /\ WF_vars(Mount)
  /\ \A n \in Names : WF_vars(Deliver(n))

FairSpec == Spec /\ Fairness

-----------------------------------------------------------------------------
(* Properties *)

(* The commits of an open import pull request are never replaced by those  *)
(* of another import of the same repository.                               *)
ReviewedCommitsStay ==
  [][\A r \in Repos : request[r] /\ request'[r] => branch'[r] = branch[r]]_github

(* A governed repository gets an import pull request only from a clone     *)
(* that is older than the merge that made it governed.                     *)
OnlyLateImports ==
  [][\A r \in Repos : ~request[r] /\ request'[r] /\ governed[r] =>
       \E u \in Users : At(u, "pushed") /\ user[u].repo = r /\ user[u].late]_github

(* The operator's copy of an entry is the registry's, unless its line is   *)
(* still to be written, was lost, or overtook another.                     *)
MirrorAgrees ==
  \A r \in Repos \ behind : mirror[r] = registry[r] \/ \E u \in Users : Pending(u, r)

(* A name that is wanted and that somebody else's object has. *)
Taken == \E n \in DOMAIN Wanted(mirror) : objects[n] # None /\ ~objects[n].managed

(* The objects of the fleet become those of the mirror and stay so, however *)
(* stale a list was, unless a name is taken.                                *)
SyncSettles ==
  <>[](Taken \/ /\ Managed(objects) = DOMAIN Wanted(mirror)
                /\ \A n \in Managed(objects) : objects[n] = Wanted(mirror)[n])
=============================================================================
