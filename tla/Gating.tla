------------------------------- MODULE Gating --------------------------------
(***************************************************************************)
(* The start of the broker (probes, connection to systemd, registrations,  *)
(* socket), and a web process that opens its pages by the set the broker   *)
(* advertises: run and its callees in cmd/pilothoused, capability.Probe,   *)
(* and the handlers of Pages.                                              *)
(*                                                                         *)
(* The goroutine of connectSystemdWithCloser goes on beside run; `dial` is *)
(* its place.  A request keeps the set it loaded first and the broker      *)
(* process that advertised it.                                             *)
(***************************************************************************)
EXTENDS Pages

CONSTANTS Probeable, \* per start of the broker: what its host may have
          Dev        \* --dev

(* The broker is started at least once.                                    *)
ASSUME GatingAssumption == Len(Probeable) \in Nat \ {0} /\ DOMAIN Probeable = 1..Len(Probeable)

VARIABLES boot,     \* the broker process
          probed,   \* how many probes have answered
          stage,    \* where run is
          caps,     \* what the probes have found
          dial,     \* the connecting goroutine: none, dialing, dialed
          conn,     \* the connection it made
          canceled, \* connectionCtx
          client,   \* run has the connection, and the managers that need it
          sock,     \* what is at the socket's path
          adv,      \* the set the web process has cached
          advBy,    \* the process that advertised it
          req,      \* a page being made
          answer    \* this broker's last answer to a page

gatingVars == <<boot, probed, stage, caps, dial, conn, canceled, client, sock, adv, advBy, req, answer>>

startVars == <<boot, probed, caps, dial, conn, canceled, client, sock>>

pageVars == <<adv, advBy, req, answer>>

none == [result |-> "none"]

GatingInit ==
  /\ boot = 1 /\ probed = 0 /\ stage = "probe" /\ caps = {}
  /\ dial = "none" /\ conn = "none" /\ canceled = FALSE /\ client = FALSE
  /\ sock \in {"absent", "stale", "foreign"}
  /\ adv = {} /\ advBy = 0 /\ req = none /\ answer = none

------------------------------------------------------------------------------
(* Probe: the probes in their order, each adding what it finds.            *)

(* What the nth probe can find.                                            *)
Found(n) ==
  {found \in UNION {
     CASE n = 1 -> {probeSystemd(x, y, f) :
                      f \in {UNION {autoupdatePairs[id] : id \in s} :
                               s \in SUBSET DOMAIN autoupdatePairs}}
       [] n = 2 -> {ProbeJournald(x)}
       [] n = 3 -> {ProbeUpdex(x, y)}
       [] n = 4 -> {ProbeSysext(x)}
       [] n = 5 -> {ProbeBootc(x, y)}
       [] n = 6 -> {ProbeRPMOStree(x, y)}
       [] n = 7 -> {ProbePodman(x, y)}
       [] n = 8 -> {ProbeDocker(x, y)}
       [] n = 9 -> {ProbeIncus(x, y)}
       [] n = 10 -> {ProbeK3s(x, y, v) : v \in BOOLEAN} : x \in BOOLEAN, y \in BOOLEAN} :
   found \subseteq Probeable[boot]}

Probe ==
  /\ stage = "probe"
  /\ \E found \in Found(probed + 1) : caps' = caps \cup found
  /\ probed' = probed + 1
  /\ stage' = IF probed' = 10 THEN "connect" ELSE "probe"
  /\ UNCHANGED <<boot, dial, conn, canceled, client, sock, pageVars>>

------------------------------------------------------------------------------
(* connectSystemdWithCloser.                                               *)

SkipConnect ==
  /\ stage = "connect" /\ "systemd" \notin caps
  /\ stage' = "listen"
  /\ UNCHANGED <<startVars, pageVars>>

StartDial ==
  /\ stage = "connect" /\ "systemd" \in caps
  /\ stage' = "waiting" /\ dial' = "dialing"
  /\ UNCHANGED <<boot, probed, caps, conn, canceled, client, sock, pageVars>>

(* connect returns, with a connection or without, in time or not.          *)
Dialed ==
  /\ dial = "dialing"
  /\ dial' = "dialed"
  /\ conn' \in {"none", "open"}
  /\ UNCHANGED <<boot, probed, stage, caps, canceled, client, sock, pageVars>>

HandOver ==
  /\ stage = "waiting" /\ dial = "dialed"
  /\ dial' = "none"
  /\ client' = (conn = "open")
  /\ canceled' = (conn # "open")
  /\ stage' = "listen"
  /\ UNCHANGED <<boot, probed, caps, conn, sock, pageVars>>

(* Mutant: the timeout is only looked at when the dial has returned.       *)
NoConnectTimeout ==
  /\ stage = "waiting" /\ dial = "dialed"
  /\ canceled' = TRUE
  /\ stage' = "listen"
  /\ UNCHANGED <<boot, probed, caps, dial, conn, client, sock, pageVars>>

TimeoutConnect ==
  /\ stage = "waiting"
  /\ canceled' = TRUE
  /\ stage' = "listen"
  /\ UNCHANGED <<boot, probed, caps, dial, conn, client, sock, pageVars>>

(* Mutant: the goroutine gives up without looking at its result.           *)
LeaveLate ==
  /\ dial = "dialed" /\ canceled
  /\ dial' = "none"
  /\ UNCHANGED <<boot, probed, stage, caps, conn, canceled, client, sock, pageVars>>

CloseLate ==
  /\ dial = "dialed" /\ canceled
  /\ dial' = "none"
  /\ conn' = "none"
  /\ UNCHANGED <<boot, probed, stage, caps, canceled, client, sock, pageVars>>

------------------------------------------------------------------------------
(* The process is gone, and with it its goroutine and its connection, and  *)
(* its sessions, without which a page under way is refused.                *)
Down(left) ==
  /\ stage' = "down"
  /\ dial' = "none" /\ conn' = "none" /\ client' = FALSE /\ canceled' = FALSE
  /\ sock' = left
  /\ caps' = {} /\ req' = none /\ answer' = none
  /\ UNCHANGED <<boot, probed, adv, advBy>>

(* The registrations, which keep no state beyond the set and the client,   *)
(* and listenUnix: a stale socket is replaced, another file is not.        *)
listenUnix ==
  /\ stage = "listen" /\ sock # "foreign"
  /\ stage' = "serve" /\ sock' = "ours"
  /\ UNCHANGED <<boot, probed, caps, dial, conn, canceled, client, pageVars>>

(* The path is taken, or the socket cannot be given to its group.          *)
ListenFails ==
  /\ stage = "listen"
  /\ Down(IF sock = "foreign" THEN "foreign" ELSE "absent")

(* Serve returns, and the deferred calls run.                              *)
Stop ==
  /\ stage = "serve"
  /\ Down("absent")

Crash ==
  /\ stage # "down"
  /\ Down(IF sock = "ours" THEN "stale" ELSE sock)

Restart ==
  /\ stage = "down" /\ boot < Len(Probeable)
  /\ boot' = boot + 1 /\ stage' = "probe" /\ probed' = 0
  /\ UNCHANGED <<caps, dial, conn, canceled, client, sock, pageVars>>

------------------------------------------------------------------------------
(* The web process caches the set, at a login or after an outage.          *)
Fetch ==
  /\ stage = "serve" /\ advBy # boot
  /\ adv' = caps /\ advBy' = boot
  /\ UNCHANGED <<startVars, stage, req, answer>>

(* A request passes the gate of its route, and the route's own check.      *)
Enter(route, admin) ==
  /\ stage = "serve" /\ req = none
  /\ route.path = "fleet" => Dev
  /\ Gate(route, adv)
  /\ route.admin => admin
  /\ req' = [result |-> "page", route |-> route, admin |-> admin, loaded |-> adv, by |-> advBy]
  /\ answer' = none
  /\ UNCHANGED <<startVars, stage, adv, advBy>>

(* What Query, Execute and the streams answer: the order of their checks.  *)
BrokerAnswer(call, admin) ==
  LET ops == {o \in Registered(caps, client) : o.id = call.id}
      op == CHOOSE o \in ops : TRUE
  IN CASE ops = {} -> "unknown"
       [] ops # {} /\ op.admin /\ ~admin -> "unauthorized"
       [] ops # {} /\ (op.admin => admin) /\ op.params # call.params -> "parameters"
       [] ops # {} /\ (op.admin => admin) /\ op.params = call.params /\
            op.confirm /\ op.resource # call.confirmed -> "unconfirmed"
       [] OTHER -> "accepted"

(* The page makes one of its calls.                                        *)
Make ==
  /\ stage = "serve" /\ req # none
  /\ \E call \in Calls(req.route, req.loaded, adv) :
       answer' = [result |-> BrokerAnswer(call, req.admin),
                  admin |-> req.admin,
                  write |-> \E r \in Registered(caps, client) : r.id = call.id /\ r.resource # <<>>,
                  managers |-> client \/ "systemd" \notin caps,
                  fresh |-> req.by = boot /\ advBy = boot]
  /\ req' = none
  /\ UNCHANGED <<startVars, stage, adv, advBy>>

(* The page makes no call, or none that reaches the broker.                *)
Leave ==
  /\ req # none
  /\ req' = none
  /\ UNCHANGED <<startVars, stage, adv, advBy, answer>>

GatingNext ==
  \/ Probe
  \/ SkipConnect \/ StartDial \/ Dialed \/ HandOver \/ TimeoutConnect \/ CloseLate
  \/ listenUnix \/ ListenFails \/ Stop \/ Crash \/ Restart
  \/ Fetch \/ Make \/ Leave
  \/ \E route \in Routes, admin \in BOOLEAN : Enter(route, admin)

GatingSpec == GatingInit /\ [][GatingNext]_gatingVars

(* Code goes on, and the wait for the connection is bounded by five        *)
(* seconds; nobody owes an answer of systemd.                              *)
Advance ==
  \/ Probe
  \/ SkipConnect \/ StartDial \/ HandOver \/ TimeoutConnect
  \/ listenUnix \/ ListenFails

StartFairness == WF_gatingVars(Advance) /\ WF_gatingVars(CloseLate)

GatingFairSpec == GatingSpec /\ StartFairness

------------------------------------------------------------------------------
GatingTypeOK ==
  /\ boot \in DOMAIN Probeable /\ advBy \in 0..boot
  /\ probed \in 0..10 /\ stage \in {"probe", "connect", "waiting", "listen", "serve", "down"}
  /\ dial \in {"none", "dialing", "dialed"} /\ conn \in {"none", "open"}
  /\ {canceled, client} \subseteq BOOLEAN
  /\ sock \in {"absent", "stale", "foreign", "ours"}

(* A connection is in the hands of run or of the goroutine that made it,   *)
(* also when it comes after the time-out (connectSystemdWithCloser).       *)
NoStrayConnection == conn = "open" => client \/ dial = "dialed"

(* A goroutine that run no longer waits for has been told so.              *)
NoAbandonedDial == dial # "none" /\ stage # "waiting" => canceled

(* The broker serves on a socket of its own and never takes the place of   *)
(* another file; a stopped one leaves no socket, a crashed one is no       *)
(* obstacle to the next (listenUnix, run).                                 *)
SocketIsOurs == (stage = "serve") = (sock = "ours")

(* Types, the connection to systemd and the socket.                        *)
StartInv == GatingTypeOK /\ NoStrayConnection /\ NoAbandonedDial /\ SocketIsOurs

(* The managers of run follow the set, as the comments at the register     *)
(* functions have it.                                                      *)
ManagersFollowCaps == stage = "serve" /\ "systemd" \in caps => client

(* A page that is open by the running broker's set makes no call that the  *)
(* broker would not know, or takes for malformed or unconfirmed; only the  *)
(* admin check may refuse it, and only an action.  Excepted is a broker    *)
(* without the connection its set promises.                                *)
CallsAreAnswered ==
  answer # none /\ answer.fresh /\ answer.managers =>
    \/ answer.result = "accepted"
    \/ answer.result = "unauthorized" /\ answer.write /\ ~answer.admin

(* The navigation shows a module exactly when its page is open; each       *)
(* operation the broker registers is called from some open page, save the  *)
(* query for the set itself.                                               *)
NavigationMatchesPages ==
  stage = "serve" /\ advBy = boot /\ req = none /\ answer = none /\ ManagersFollowCaps =>
    LET open == {route \in Routes : Gate(route, adv) /\ (route.path = "fleet" => Dev)}
        called == UNION {{c.id : c \in Calls(route, adv, adv)} : route \in open}
    IN /\ {o.id : o \in Registered(caps, client)} \ {"capabilities.list"} = called
       /\ Range(availableManifests(Dev, adv)) = {r.path : r \in open} \cap DOMAIN Manifest

(* Both: pages and operations match, whatever the set and the connection.  *)
PagesMatchOperations == CallsAreAnswered /\ NavigationMatchesPages

(* A start ends, with a broker that serves or with an error, whether or    *)
(* not systemd ever answers; and a late connection is not kept.            *)
StartEnds ==
  /\ stage \in {"probe", "connect", "waiting", "listen"} ~> stage \in {"serve", "down"}
  /\ dial = "dialed" ~> dial = "none"
==============================================================================
