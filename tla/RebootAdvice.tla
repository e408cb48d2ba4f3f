---------------------------- MODULE RebootAdvice -----------------------------
(***************************************************************************)
(* The maintenance manager's State (internal/modules/maintenance/          *)
(* manager.go): reboot reasons gathered one after the other from the       *)
(* marker file, the staged host image and the job history, while the host  *)
(* goes on.  The reasons of extensions are in Extensions.  A job counts if *)
(* it finished after the boot, whose time is the wall clock less the       *)
(* uptime: the clock may be set.                                           *)
(***************************************************************************)
EXTENDS Integers, FiniteSets

CONSTANTS AdviceRecords, AdviceJobs, AdviceTime

VARIABLES history, last, awake, running, given, today,  \* of JobStore
          due,         \* jobs of this boot that installed what a reboot activates
          up,          \* the host's uptime
          marker,      \* /run/reboot-required exists
          staged,      \* a host image is staged
          setBack,     \* the clock was once set back
          setForward,  \* the clock was set forward since the boot
          asked,       \* of a State call: pc, reasons, imageFailed, since (the uptime
                       \* that was read, then the boot time)
          stood, seen  \* reasons that held all through the call, and at some time in it

adviceVars == <<history, last, awake, running, given, today, due, up, marker, staged,
                setBack, setForward, asked, stood, seen>>

ASSUME AdviceAssumption ==
  AdviceRecords \in Nat \ {0} /\ AdviceJobs \in Nat /\ AdviceTime \in Nat \ {0}

J == INSTANCE JobStore WITH
       jobs <- history, sequence <- last, open <- awake, live <- running, stuck <- given,
       wallClock <- today, installed <- due # {},
       MaxRecords <- AdviceRecords, MaxID <- AdviceJobs, MaxBoot <- AdviceTime

StoreStays == UNCHANGED <<history, last, awake, running, given, due>>
HostStays == UNCHANGED <<today, up, marker, staged, setBack, setForward>>

NoQuestion == [pc |-> "idle", reasons |-> {}, since |-> 0, imageFailed |-> FALSE]

\* What a reboot would activate now.
Holding ==
  (IF marker THEN {"marker"} ELSE {}) \cup (IF staged THEN {"staged"} ELSE {})
    \cup (IF due \cap DOMAIN history # {} THEN {"job"} ELSE {})

AdviceInit ==
  /\ due = {} /\ J!JobInit
  /\ up = 1
  /\ marker = FALSE /\ staged = FALSE
  /\ setBack = FALSE /\ setForward = FALSE
  /\ asked = NoQuestion
  /\ stood = {} /\ seen = {}

-----------------------------------------------------------------------------
(* The host and the job of an extension update *)

QueueJob == due' = due /\ J!Enqueue /\ UNCHANGED <<up, marker, staged, setBack, setForward, asked>>

StartJob(id) ==
  due' = due /\ J!Start(id) /\ UNCHANGED <<up, marker, staged, setBack, setForward, asked>>

\* runBackground: only a success asks for a reboot.
CompleteJob(id, status) ==
  /\ up > 0
  /\ due' = IF status = "succeeded" THEN due \cup {id} ELSE due
  /\ J!Complete(id, status, status = "succeeded")
  /\ UNCHANGED <<up, marker, staged, setBack, setForward, asked>>

BrokerStops ==
  /\ due' = due /\ J!Stop
  /\ asked' = NoQuestion
  /\ UNCHANGED <<up, marker, staged, setBack, setForward>>

BrokerStarts == due' = due /\ J!Open /\ UNCHANGED <<up, marker, staged, setBack, setForward, asked>>

\* Reboot asks systemd for it, and so may anybody else.
Reboot ==
  /\ due' = {} /\ J!HostReboot
  /\ up' = 0
  /\ marker' = FALSE /\ staged' = FALSE
  /\ setForward' = FALSE
  /\ asked' = NoQuestion
  /\ UNCHANGED setBack

TimePasses ==
  /\ today < AdviceTime
  /\ today' = today + 1 /\ up' = up + 1
  /\ StoreStays /\ UNCHANGED <<marker, staged, setBack, setForward, asked>>

SetClock(t) ==
  /\ t # today /\ ~setBack /\ ~setForward
  /\ today' = t
  /\ setBack' = (setBack \/ t < today)
  /\ setForward' = (setForward \/ t > today)
  /\ StoreStays /\ UNCHANGED <<up, marker, staged, asked>>

\* The operating system's own updates.
Mark ==
  /\ \/ marker' = TRUE /\ staged' = staged
     \/ marker' = marker /\ staged' = ~staged
  /\ StoreStays /\ UNCHANGED <<today, up, setBack, setForward, asked>>

-----------------------------------------------------------------------------
(* State *)

ReadsOn(pc, reasons) == asked' = [asked EXCEPT !.pc = pc, !.reasons = @ \cup reasons]

\* A query reaches a broker that runs.
Ask ==
  /\ asked.pc = "idle" /\ awake
  /\ ReadsOn("jobs", {})
  /\ StoreStays /\ HostStays

\* jobs.List: its records are only shown.
ListJobs ==
  /\ asked.pc = "jobs"
  /\ ReadsOn("marker", {})
  /\ StoreStays /\ HostStays

StatMarker ==
  /\ asked.pc = "marker"
  /\ ReadsOn("image", IF marker THEN {"marker"} ELSE {})
  /\ StoreStays /\ HostStays

\* hostImageState.
ReadImage ==
  /\ asked.pc = "image"
  /\ ReadsOn("uptime", IF staged THEN {"staged"} ELSE {})
  /\ StoreStays /\ HostStays

ImageFails ==
  /\ asked.pc = "image"
  /\ asked' = [asked EXCEPT !.pc = "uptime", !.imageFailed = TRUE]
  /\ StoreStays /\ HostStays

\* Mutant: any job of the history counts.
bootedAtUnknown == 0

bootedAt == today - asked.since

\* /proc/uptime first, then the clock.
ReadUptime ==
  /\ asked.pc = "uptime"
  /\ asked' = [asked EXCEPT !.pc = "clock", !.since = up]
  /\ StoreStays /\ HostStays

ReadClock ==
  /\ asked.pc = "clock"
  /\ asked' = [asked EXCEPT !.pc = "history", !.since = bootedAt]
  /\ StoreStays /\ HostStays

AskHistory ==
  /\ asked.pc = "history"
  /\ ReadsOn("answered", IF J!RebootRequiredSince(asked.since) THEN {"job"} ELSE {})
  /\ StoreStays /\ HostStays

\* A read that State cannot do without fails, or the answer is used.
AnswerUsed ==
  /\ asked.pc \in {"jobs", "marker", "uptime", "history", "answered"}
  /\ asked' = NoQuestion
  /\ StoreStays /\ HostStays

Remember ==
  IF asked'.pc = "idle" THEN stood' = {} /\ seen' = {}
  ELSE IF asked.pc = "idle" THEN stood' = Holding' /\ seen' = Holding'
  ELSE stood' = stood \cap Holding' /\ seen' = seen \cup Holding'

HostStep ==
  \/ QueueJob \/ BrokerStops \/ BrokerStarts \/ Reboot \/ TimePasses \/ Mark
  \/ \E id \in running : StartJob(id) \/ \E status \in {"succeeded", "failed"} : CompleteJob(id, status)
  \/ \E t \in 1..AdviceTime : SetClock(t)

StateStep ==
  \/ Ask \/ ListJobs \/ StatMarker \/ ReadImage \/ ImageFails \/ ReadUptime \/ ReadClock
  \/ AskHistory \/ AnswerUsed

AdviceNext == (HostStep \/ StateStep) /\ Remember

AdviceSpec == AdviceInit /\ [][AdviceNext]_adviceVars

-----------------------------------------------------------------------------
(* An answer of State names no reason that did not hold at some moment of    *)
(* the call, and leaves out none that held throughout, however the host's    *)
(* steps fall between the reads.  Excepted are a staged image that could not *)
(* be read, and the reason of a job after the wall clock was set.  Back: an  *)
(* old job may count again, and a job that finished after the boot time was  *)
(* read may not count when it is all that retention left of those that did.  *)
(* Forward: a job of this boot may not count; nor may one that finished no   *)
(* later after the boot than the time between the reads of uptime and clock. *)
AdviceIsSound ==
  asked.pc = "answered" =>
    /\ asked.reasons \ (IF setBack THEN {"job"} ELSE {}) \subseteq seen
    /\ stood \ ((IF asked.imageFailed THEN {"staged"} ELSE {})
                  \cup (IF setForward \/ today - up < asked.since THEN {"job"} ELSE {}))
         \subseteq asked.reasons
==============================================================================
