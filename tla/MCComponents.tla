---------------------------- MODULE MCComponents ----------------------------
(***************************************************************************)
(* Small instances of the components that do not act on one another: a     *)
(* behaviour picks one of them and runs it alone.                          *)
(***************************************************************************)
EXTENDS AgentHarness, EventStream, FileMutationQueue, RpcClient, SettingsManager, AuthStorage, MemoryStore,
        Compaction, SessionManager, TLC

CONSTANTS
  c1, c2, c3, c4, fresh, old, link,     \* mutations and paths
  r1, r2, r3,                           \* requests
  p1, p2, shared, own, local,           \* processes and their settings
  i1, i2, k1, k2, k3,                   \* processes and their calls of getApiKey
  f1, f2,                               \* session files
  add, report, note, fold, user, repo   \* calls of the memory tools and targets

\* c4 goes through a link to the file of c3; the file of c1 and c2 is yet to be created.
MCPathOf == (c1 :> fresh) @@ (c2 :> fresh) @@ (c3 :> old) @@ (c4 :> link)
MCReal   == (fresh :> fresh) @@ (old :> old) @@ (link :> old)

MCScopeOf == (shared :> "global") @@ (own :> "global") @@ (local :> "project")

MCHomeOf == (k1 :> i1) @@ (k2 :> i1) @@ (k3 :> i2)

MCKindOf   == (add :> "add") @@ (report :> "report") @@ (note :> "add") @@ (fold :> "compact")
MCTargetOf == (add :> repo) @@ (report :> repo) @@ (note :> user) @@ (fold :> repo)
MCLimitOf  == (repo :> 1) @@ (user :> 1)

MCMaxOfType ==
  [user |-> 2, assistant |-> 1, label |-> 1, unlabel |-> 1, compaction |-> 1, branch_summary |-> 1]

CONSTANT Parts  \* those that are run

VARIABLE part

partsVars == <<part, vars, streamVars, mutationVars, rpcVars, settingsVars, authVars, memoryVars, trailVars,
              sessionVars>>

PartsInit ==
  /\ part \in Parts
  /\ Init /\ StreamInit /\ MutationInit /\ RpcInit /\ SettingsInit /\ AuthInit /\ MemoryInit /\ TrailInit
  /\ SessionInit /\ sessionFile = f1

Only(name) ==
  /\ part = name /\ UNCHANGED part
  /\ name # "harness"  => UNCHANGED vars
  /\ name # "stream"   => UNCHANGED streamVars
  /\ name # "mutation" => UNCHANGED mutationVars
  /\ name # "rpc"      => UNCHANGED rpcVars
  /\ name # "settings" => UNCHANGED settingsVars
  /\ name # "auth"     => UNCHANGED authVars
  /\ name # "memory"   => UNCHANGED memoryVars
  /\ name # "trail"    => UNCHANGED trailVars
  /\ name # "sessions" => UNCHANGED sessionVars

\* A login with another provider is not combined with a crash, a failed load, a logout, a login with the
\* provider itself or a lost answer, nor a crash with a lock taken from a call; a moved leaf or a failed
\* write is not combined with a label taken back or the summary of a branch.  One entry is recorded while a
\* summary is generated, and there is room for the compaction.
LoginAlone ==
  logins > 0 => /\ crashes = 0 /\ issued = 1 + Cardinality(spent) /\ loadError = {}
                /\ stored.token # 0 /\ \A i \in Instances : data[i].token # 0
OneMishap == LoginAlone /\ (disturbed = {} \/ crashes = 0)
ShortDetour == detours > 0 => \A e \in ToSet(fileEntries) : e.type \notin {"unlabel", "branch_summary"}

OneMeanwhile == \A e \in planned : Len(trail) <= e.at + 1 /\ Len(trail) < MaxPath

PartsNext ==
  \/ Only("harness") /\ Next
  \/ Only("stream") /\ StreamNext
  \/ Only("mutation") /\ MutationNext
  \/ Only("rpc") /\ RpcNext
  \/ Only("settings") /\ SettingsNext
  \/ Only("auth") /\ AuthNext /\ OneMishap'
  \/ Only("memory") /\ MemoryNext
  \/ Only("trail") /\ TrailNext /\ OneMeanwhile'
  \/ Only("sessions") /\ SessionNext /\ ShortDetour'

PartsSpec == PartsInit /\ [][PartsNext]_partsVars

\* The fairness of the component that runs.  Of the others only the producer could take a step.
PartsFairSpec ==
  /\ PartsSpec /\ Fairness /\ MutationFairness /\ RpcFairness
  /\ WF_partsVars(Only("stream") /\ StreamProgress)
=============================================================================
