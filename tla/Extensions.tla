----------------------------- MODULE Extensions ------------------------------
(***************************************************************************)
(* System extensions: the four actions of extctl.SystemManager, which share*)
(* the lock "sysext/global", its State, a union of two sources that fail   *)
(* independently, and the maintenance manager's one-minute cache of that   *)
(* union, from which the reboot reasons of merged but disabled extensions  *)
(* are taken.  State holds no lock of the actions.                         *)
(*                                                                         *)
(* The cache is filled and read under one mutex, so one reader stands for  *)
(* all.  Time is kept as ages, which stop counting at Window.  updex and   *)
(* systemd-sysext are outside; what they do is taken from how the manager  *)
(* calls them.  Outside is anybody else who uses them.                     *)
(***************************************************************************)
EXTENDS Naturals, Sequences, FiniteSets

CONSTANTS ExtensionNames,
          Directories,        \* the names defined in each definition directory
          ExtensionRequests,
          CacheTTL,           \* of the cache
          MaxDelay,           \* bound on the length of a collection
          Unlocked

ASSUME ExtensionsAssumption ==
  /\ Directories \in Seq(SUBSET ExtensionNames)
  /\ CacheTTL \in Nat \ {0} /\ MaxDelay \in Nat
  /\ Unlocked \notin ExtensionRequests

VARIABLES have,                        \* the tools that were probed at the start
          enabled, installed, merged,  \* sets of names
          locked, order,               \* locks; of a request: pc, op, force, disturbed
          kept,                        \* the cache of the maintenance manager: full, state
          reader,                      \* pc, the sources read so far, delay, answer
          cacheAge, failAge, changeAge \* ticks since stored, since a source failed, since a name changed

extensionsVars == <<have, enabled, installed, merged, locked, order, kept, reader,
                    cacheAge, failAge, changeAge>>

Managed == UNION {Directories[d] : d \in DOMAIN Directories}

Orders ==
  [kind : {"enable", "disable"}, name : ExtensionNames, dir : {0}]
    \cup [kind : {"refresh"}, name : {""}, dir : {0}]
    \cup [kind : {"update"}, name : {""}, dir : {1}]

\* Mutant: enable and disable lock the resource they are audited under.
lockKeyOfFeature(op) ==
  IF op.kind \in {"enable", "disable"} THEN "sysext/feature" ELSE "sysext/global"

\* The lock key of the registrations: LockResource, or the Resource of the jobs.
lockKey(op) == "sysext/global"

LockKeys == {"sysext/global", "sysext/feature"}

Global == INSTANCE ExclusiveLock WITH
            Callers <- ExtensionRequests, Resources <- LockKeys, NoOwner <- Unlocked, owner <- locked

Window == CacheTTL + MaxDelay

Older(age) == IF age < Window THEN age + 1 ELSE age

-----------------------------------------------------------------------------
(* The inventory *)

Nobody == [full |-> FALSE, updex |-> "absent", sysext |-> "absent", extensions |-> <<>>]

\* State: what each source that answered says of the names it knows.
State(updex, en, sysext, ins, mer) ==
  LET fromUpdex == IF updex = "ok" THEN Managed ELSE {}
      fromSysext == IF sysext = "ok" THEN ins \cup mer ELSE {}
  IN  [full |-> TRUE, updex |-> updex, sysext |-> sysext,
       extensions |-> [n \in fromUpdex \cup fromSysext |->
                         [managed |-> n \in fromUpdex,
                          enabled |-> n \in fromUpdex \cap en,
                          installed |-> n \in fromSysext \cap ins,
                          merged |-> n \in fromSysext \cap mer]]]

mergedButDisabledReasons(state) ==
  IF state.updex # "ok" \/ state.sysext # "ok" THEN {}
  ELSE {n \in DOMAIN state.extensions :
          LET e == state.extensions[n] IN e.managed /\ e.merged /\ ~e.enabled}

-----------------------------------------------------------------------------
NoOrder == [pc |-> "idle", op |-> [kind |-> "none", name |-> "", dir |-> 0],
         force |-> FALSE, disturbed |-> FALSE]

Unread == [pc |-> "idle", delay |-> 0, updex |-> "absent", enabled |-> {},
           sysext |-> "absent", installed |-> {}, answer |-> Nobody]

ExtensionsInit ==
  /\ have \in SUBSET {"updex", "sysext"}
  /\ enabled \in SUBSET Managed
  /\ installed = enabled /\ merged \in {{}, installed}
  /\ Global!Init
  /\ order = [r \in ExtensionRequests |-> NoOrder]
  /\ kept = Nobody
  /\ reader = Unread
  /\ cacheAge = 0 /\ failAge = Window /\ changeAge = [n \in ExtensionNames |-> Window]

\* The tools leave the host with these sets.
Host(en, ins, mer) ==
  /\ enabled' = en /\ installed' = ins /\ merged' = mer
  /\ changeAge' = [n \in ExtensionNames |->
       IF (n \in en) = (n \in enabled) /\ (n \in mer) = (n \in merged) THEN changeAge[n] ELSE 0]

hostVars == <<enabled, installed, merged, changeAge>>
readerVars == <<kept, reader, cacheAge, failAge>>

-----------------------------------------------------------------------------
(* The actions *)

\* An action needs the tools it was registered for, and its lock.
OrderBegins(r, op) ==
  /\ order[r].pc = "idle"
  /\ op.kind \in {"enable", "disable"} => have = {"updex", "sysext"}
  /\ op.kind = "refresh" => "sysext" \in have
  /\ op.kind = "update" => "updex" \in have
  /\ Global!Take(r, lockKey(op))
  /\ order' = [order EXCEPT ![r] =
       [NoOrder EXCEPT !.op = op, !.pc = IF op.name \in ExtensionNames THEN "look" ELSE "act"]]
  /\ UNCHANGED <<have, hostVars, readerVars>>

End(r) ==
  /\ Global!Give(r, lockKey(order[r].op))
  /\ order' = [order EXCEPT ![r] = NoOrder]

\* managedExtensionFor: a command fails, or updex has no such definition.
ListFails(r) ==
  /\ order[r].pc = "look"
  /\ End(r)
  /\ UNCHANGED <<have, hostVars, readerVars>>

\* list: the merged set is the last thing it reads.
Look(r) ==
  /\ order[r].pc = "look"
  /\ order[r].op.name \in Managed
  /\ order' = [order EXCEPT ![r].pc = "act",
                        ![r].force = order[r].op.kind = "disable" /\ order[r].op.name \in merged]
  /\ UNCHANGED <<have, hostVars, locked, readerVars>>

\* The command fails: an update stops there, with the directories before it done.
ActFails(r) ==
  /\ order[r].pc = "act"
  /\ End(r)
  /\ UNCHANGED <<have, hostVars, readerVars>>

\* updex removes a merged image only if told to, and it stays merged.
Disable(r) ==
  LET n == order[r].op.name
  IN  /\ order[r].pc = "act" /\ order[r].op.kind = "disable"
      /\ order[r].force \/ n \notin merged
      /\ Host(enabled \ {n}, installed \ {n}, merged)
      /\ End(r)
      /\ UNCHANGED <<have, readerVars>>

Enable(r) ==
  LET n == order[r].op.name
  IN  /\ order[r].pc = "act" /\ order[r].op.kind = "enable"
      /\ Host(enabled \cup {n}, installed \cup {n}, merged)
      /\ End(r)
      /\ UNCHANGED <<have, readerVars>>

Refresh(r) ==
  /\ order[r].pc = "act" /\ order[r].op.kind = "refresh"
  /\ Host(enabled, installed, installed)
  /\ End(r)
  /\ UNCHANGED <<have, readerVars>>

\* One directory of Update; the command of the last one ends it, and where no
\* directory has definitions there is no command.
Update(r) ==
  LET d == order[r].op.dir
  IN  /\ order[r].pc = "act" /\ order[r].op.kind = "update"
      /\ Host(enabled,
              IF d > Len(Directories) THEN installed
              ELSE installed \cup (enabled \cap Directories[d]), merged)
      /\ IF d >= Len(Directories)
         THEN End(r)
         ELSE order' = [order EXCEPT ![r].op.dir = d + 1] /\ UNCHANGED locked
      /\ UNCHANGED <<have, readerVars>>

\* Somebody else enables, disables, installs, removes, merges or unmerges n.
OthersChange(n) ==
  /\ \/ n \in Managed /\ Host((enabled \cup {n}) \ (enabled \cap {n}), installed, merged)
     \/ Host(enabled, (installed \cup {n}) \ (installed \cap {n}), merged)
     \/ Host(enabled, installed, (merged \cup {n}) \ (merged \cap {n}))
  /\ order' = [r \in ExtensionRequests |-> [order[r] EXCEPT !.disturbed = order[r].pc = "act"]]
  /\ UNCHANGED <<have, locked, readerVars>>

-----------------------------------------------------------------------------
(* extensionState *)

readerKeeps == <<have, hostVars, locked, order>>

Answers(state) == reader' = [Unread EXCEPT !.pc = "answered", !.answer = state]

\* The state of a collection is kept and returned, whatever its sources said.
Finish(sysext, mer) ==
  LET state == State(reader.updex, reader.enabled, sysext, reader.installed, mer)
  IN  /\ kept' = state /\ cacheAge' = 0
      /\ Answers(state)

CacheHit ==
  /\ reader.pc = "idle"
  /\ kept.full /\ cacheAge < CacheTTL
  /\ Answers(kept)
  /\ UNCHANGED <<readerKeeps, kept, cacheAge, failAge>>

Collect ==
  /\ reader.pc = "idle"
  /\ kept.full => cacheAge >= CacheTTL
  /\ reader' = [Unread EXCEPT !.pc = IF "updex" \in have THEN "features" ELSE "list"]
  /\ UNCHANGED <<readerKeeps, kept, cacheAge, failAge>>

\* updexInventory, first part: the definitions of every directory.
Features ==
  /\ reader.pc = "features"
  /\ reader' = [reader EXCEPT !.pc = "check", !.enabled = enabled]
  /\ UNCHANGED <<readerKeeps, kept, cacheAge, failAge>>

\* updexInventory, second part: Check.
Check ==
  /\ reader.pc = "check"
  /\ reader' = [reader EXCEPT !.pc = "list", !.updex = "ok"]
  /\ UNCHANGED <<readerKeeps, kept, cacheAge, failAge>>

UpdexFails ==
  /\ reader.pc \in {"features", "check"}
  /\ reader' = [reader EXCEPT !.pc = "list", !.updex = "failed", !.enabled = {}]
  /\ failAge' = 0
  /\ UNCHANGED <<readerKeeps, kept, cacheAge>>

SysextAbsent ==
  /\ reader.pc = "list" /\ "sysext" \notin have
  /\ Finish("absent", {})
  /\ UNCHANGED <<readerKeeps, failAge>>

\* sysextInventory: installed, then merged.
List ==
  /\ reader.pc = "list" /\ "sysext" \in have
  /\ reader' = [reader EXCEPT !.pc = "status", !.installed = installed]
  /\ UNCHANGED <<readerKeeps, kept, cacheAge, failAge>>

Status ==
  /\ reader.pc = "status"
  /\ Finish("ok", merged)
  /\ UNCHANGED <<readerKeeps, failAge>>

SysextFails ==
  /\ reader.pc \in {"list", "status"} /\ "sysext" \in have
  /\ Finish("failed", {})
  /\ failAge' = 0
  /\ UNCHANGED readerKeeps

Returned ==
  /\ reader.pc = "answered"
  /\ reader' = Unread
  /\ UNCHANGED <<readerKeeps, kept, cacheAge, failAge>>

\* Time passes, except between an answer and its use.
TimeGoes ==
  /\ reader.pc # "answered"
  /\ reader.pc # "idle" => reader.delay < MaxDelay
  /\ reader' = IF reader.pc = "idle" THEN reader ELSE [reader EXCEPT !.delay = @ + 1]
  /\ cacheAge' = Older(cacheAge) /\ failAge' = Older(failAge)
  /\ changeAge' = [n \in ExtensionNames |-> Older(changeAge[n])]
  /\ UNCHANGED <<have, enabled, installed, merged, locked, order, kept>>

ActionNext ==
  \/ \E r \in ExtensionRequests : (\E op \in Orders : OrderBegins(r, op)) \/ ListFails(r) \/ Look(r) \/ ActFails(r)
  \/ \E r \in ExtensionRequests : Disable(r) \/ Enable(r) \/ Refresh(r) \/ Update(r)
  \/ \E n \in ExtensionNames : OthersChange(n)

ReaderNext ==
  \/ CacheHit \/ Collect \/ Features \/ Check \/ UpdexFails
  \/ SysextAbsent \/ List \/ Status \/ SysextFails \/ Returned
  \/ TimeGoes

ExtensionsNext == ActionNext \/ ReaderNext

ExtensionsSpec == ExtensionsInit /\ [][ExtensionsNext]_extensionsVars

-----------------------------------------------------------------------------
(* disable passes --force exactly when the extension is merged at the moment *)
(* updex runs, unless somebody outside interfered since it was looked up:    *)
(* no other action of the broker can (they share "sysext/global"), so updex  *)
(* neither refuses nor removes an active image unasked.                      *)
ForceMatchesMerged ==
  \A r \in ExtensionRequests :
    order[r].pc = "act" /\ order[r].op.kind = "disable" /\ ~order[r].disturbed
      => (order[r].force <=> order[r].op.name \in merged)

(* The reboot reasons agree with the host about every extension that has not *)
(* changed since a minute and a collection ago: a reported one is managed,   *)
(* merged and disabled, whatever failed, and such a one is reported, unless  *)
(* a tool failed within that time (a failure is kept for a minute) or is not *)
(* on the host.                                                              *)
ReasonsFollowHost ==
  LET Steady == {n \in ExtensionNames : changeAge[n] = Window}
      Due == (Managed \cap merged) \ enabled
      reasons == mergedButDisabledReasons(reader.answer)
  IN  reader.pc = "answered" =>
        /\ reasons \cap Steady \subseteq Due
        /\ failAge = Window /\ have = {"updex", "sysext"} => Due \cap Steady \subseteq reasons

(* What is done to extensions, and what is said about them, agrees with    *)
(* the host: ForceMatchesMerged and ReasonsFollowHost.                     *)
ExtensionsAgree == ForceMatchesMerged /\ ReasonsFollowHost
==============================================================================
