------------------------------ MODULE AutoUpdate -------------------------------
(***************************************************************************)
(* The report on automatic updates.  Four reads of systemd properties, each  *)
(* of which may fail on its own, say what a timer and its service do; the    *)
(* policy of bootc follows from the absence of drop-ins, that of rpm-ostree   *)
(* from a scan of its configuration file.  Units may be edited meanwhile.     *)
(*                                                                          *)
(* A line of the file is a group header, an assignment to the key, or of no  *)
(* interest: a comment, a blank line, another key.                          *)
(***************************************************************************)
EXTENDS Naturals, Sequences, SequencesExt

CONSTANTS Values,   \* that a file may give the key
          MaxLines  \* bound on the length of the file

VARIABLES have,    \* the updaters that were probed at the start
          client,  \* there was a connection to systemd at the start
          file,    \* the lines of rpm-ostreed.conf, or Unreadable
          dropIns, \* per unit, whether it has drop-ins
          clean,   \* the units that had no drop-ins at some moment of the last report
          pc,
          pair,    \* per unit, what was read of it: its drop-ins or "unknown"
          status   \* the report

autoUpdateVars == <<have, client, file, dropIns, clean, pc, pair, status>>

AutoUpdateAssumption == MaxLines \in Nat

Units == {"timer", "service"}

Unreadable == <<"unreadable">>

Unread == [u \in Units |-> "unknown"]

NoStatus == [bootc |-> "unconfigured", rpmOStree |-> "unconfigured"]

Clean(units) == {u \in Units : units[u] = "no"}

Lines == {<<"group", g>> : g \in {"Daemon", "other"}}
           \cup {<<"key", v>> : v \in Values} \cup {<<"other", "">>}

-----------------------------------------------------------------------------
rpmOStreeDaemonConfigValue(config) ==
    FoldLeft(LAMBDA scan, line :
               CASE line[1] = "group" ->
                      [scan EXCEPT !.inDaemonGroup = line[2] = "Daemon"]
                 [] line[1] = "key" /\ scan.inDaemonGroup ->
                      [scan EXCEPT !.value = line[2], !.found = TRUE]
                 [] OTHER -> scan,
             [inDaemonGroup |-> FALSE, value |-> "", found |-> FALSE], config)

Normalized(value) ==
    CASE value \in {"none", "off"} -> "none"
      [] value = "check" -> "check"
      [] value \in {"stage", "ex-stage"} -> "stage"
      [] value = "apply" -> "apply"
      [] OTHER -> "custom/unknown"

ParseRPMOStreeAutomaticUpdatePolicy(config) ==
    LET scan == rpmOStreeDaemonConfigValue(config)
    IN  IF scan.found THEN Normalized(scan.value) ELSE "custom/unknown"

\* A file that cannot be read is an empty one.
rpmOStreeConfig == IF file = Unreadable THEN <<>> ELSE file

NormalizeBootcAutoUpdatePolicy(service, timer) ==
    IF service \/ timer THEN "custom/unknown" ELSE "apply"

bootcAutoUpdate ==
    IF "unknown" \in Range(pair) THEN "custom/unknown"
    ELSE NormalizeBootcAutoUpdatePolicy(pair["service"] = "some", pair["timer"] = "some")

-----------------------------------------------------------------------------
Init ==
    /\ have \in SUBSET {"bootc", "rpm-ostree"}
    /\ client \in BOOLEAN
    /\ file \in SeqOf(Lines, MaxLines) \cup {Unreadable}
    /\ dropIns \in [Units -> {"some", "no"}]
    /\ clean = {} /\ pc = "idle"
    /\ pair = Unread /\ status = NoStatus

Edit ==
    /\ \E u \in Units, d \in {"some", "no"} : dropIns' = [dropIns EXCEPT ![u] = d]
    /\ clean' = IF pc = "idle" THEN clean ELSE clean \cup Clean(dropIns')
    /\ UNCHANGED <<have, client, file, pc, pair, status>>

Status ==
    /\ pc = "idle"
    /\ pc' = IF client THEN "timer" ELSE "report"
    /\ pair' = Unread /\ clean' = Clean(dropIns)
    /\ UNCHANGED <<have, client, file, dropIns, status>>

\* The common properties of the timer, then of the service.  The two reads of
\* the type's properties do not bear on the policy.
readUnitPair ==
    /\ pc \in Units
    /\ \/ pair' = [pair EXCEPT ![pc] = dropIns[pc]]
       \/ UNCHANGED pair
    /\ pc' = IF pc = "timer" THEN "service" ELSE "report"
    /\ UNCHANGED <<have, client, file, dropIns, clean, status>>

Report ==
    /\ pc = "report"
    /\ status' =
         [bootc |-> IF "bootc" \in have THEN bootcAutoUpdate ELSE "unconfigured",
          rpmOStree |-> IF "rpm-ostree" \in have
                        THEN ParseRPMOStreeAutomaticUpdatePolicy(rpmOStreeConfig)
                        ELSE "unconfigured"]
    /\ pc' = "idle"
    /\ UNCHANGED <<have, client, file, dropIns, clean, pair>>

Next == Edit \/ Status \/ readUnitPair \/ Report

Spec == Init /\ [][Next]_autoUpdateVars

-----------------------------------------------------------------------------
(* Properties                                                               *)

\* The value that rpm-ostree's own loader takes: of the last assignment whose
\* group is Daemon.
InEffect(config) ==
    LET Group(i) == {g \in 1..(i - 1) : config[g][1] = "group"}
        Counts(i) == /\ config[i][1] = "key"
                     /\ \E g \in Group(i) : /\ config[g][2] = "Daemon"
                                            /\ \A h \in Group(i) : h <= g
    IN  {config[i][2] : i \in {i \in DOMAIN config :
           Counts(i) /\ \A j \in DOMAIN config : Counts(j) => j <= i}}

\* A policy is named only on evidence.  For rpm-ostree it is the one its daemon
\* would load from the file, and unknown if the file names none.  For bootc,
\* "apply" means that each unit was without drop-ins at some moment of the report:
\* a read that failed is no evidence.
PolicyIsEvidenced ==
    LET evidence == InEffect(rpmOStreeConfig) IN
    pc = "idle" =>
        /\ status.rpmOStree \in {"unconfigured"} \cup
             IF evidence = {} THEN {"custom/unknown"} ELSE {Normalized(v) : v \in evidence}
        /\ status.bootc = "apply" => clean = Units

==============================================================================
