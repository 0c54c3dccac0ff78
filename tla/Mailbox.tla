-------------------------------- MODULE Mailbox -------------------------------
(***************************************************************************)
(* The mailbox benchmark (benches/mbox): the main thread writes a token to *)
(* the inbound mailbox of an SPE and receives the token plus one from an   *)
(* event queue, with a timeout, Iterations times.  The SPE runs on its own *)
(* until its group is terminated.                                          *)
(***************************************************************************)
EXTENDS Integers, Sequences

CONSTANTS
  Iterations,   \* MBOX_ITERATIONS_PER_BATCH
  Tokens        \* 2^24: a token is masked with 0xFFFFFF

ASSUME MailboxAssumption == Iterations \in Nat \ {0} /\ Tokens \in Nat \ {0, 1}

VARIABLES
  mbox,         \* where mbox_benchmark_run is, "idle" outside of it
  made,         \* event_connected, queue_created, group_created, group_started
  objects,      \* kernel objects that exist: "group", "queue", "port"
  spe,          \* the SPE thread: what it does, its token, its answers
  inMbox,       \* the inbound mailbox
  events,       \* the event queue
  val,          \* val
  completed,    \* completed
  g_disabled    \* g_disabled

mailbox == <<mbox, made, objects, spe, inMbox, events, val, completed,
             g_disabled>>

NoThread == [does |-> "none", v |-> 0, n |-> 0]

MailboxInit ==
  /\ mbox = "idle" /\ made = {} /\ objects = {}
  /\ spe = NoThread
  /\ inMbox = <<>> /\ events = <<>>
  /\ val = 0 /\ completed = 0
  /\ g_disabled = FALSE

(* What the SPE answers.                                                   *)
Answer(v) == (v + 1) % Tokens

-----------------------------------------------------------------------------
(* The calls before the rounds, in order; failed is the first that fails.  *)
SetupCalls == <<"image", "group", "thread", "queue", "port", "start">>

Before(failed) ==
  {SetupCalls[k] : k \in {j \in DOMAIN SetupCalls :
     \A l \in 1 .. j : SetupCalls[l] # failed}}

Setup(failed) ==
  /\ mbox = "idle" /\ ~g_disabled
  /\ LET done == Before(failed) IN
       /\ made' = IF failed \in {"image", "group"} THEN {}
                  ELSE done \cap {"group", "queue", "port", "start"}
       /\ objects' = done \cap {"group", "queue", "port"}
       /\ spe' = IF failed = "none" THEN [does |-> "read", v |-> 0, n |-> 0] ELSE NoThread
       /\ mbox' = CASE failed = "none" -> "send"
                    [] failed \in {"image", "group"} -> "idle"
                    [] OTHER -> "disconnect"
       /\ g_disabled' = (failed # "none")
  /\ inMbox' = <<>> /\ events' = <<>>
  /\ val' = 0 /\ completed' = 0

(* sys_spu_thread_write_spu_mb.                                            *)
Send ==
  /\ mbox = "send"
  /\ \/ inMbox' = Append(inMbox, val) /\ mbox' = "receive" /\ UNCHANGED g_disabled
     \/ g_disabled' = TRUE /\ mbox' = "disconnect" /\ UNCHANGED inMbox
  /\ UNCHANGED <<made, objects, spe, events, val, completed>>

(* sys_event_queue_receive returns an event.                               *)
Receive ==
  /\ mbox = "receive" /\ events # <<>>
  /\ val' = Head(events) % Tokens
  /\ events' = Tail(events)
  /\ completed' = completed + 1
  /\ mbox' = IF completed' = Iterations THEN "disconnect" ELSE "send"
  /\ UNCHANGED <<made, objects, spe, inMbox, g_disabled>>

(* Mutant of Timeout: the question is asked again.                         *)
Timeout_Retry ==
  /\ mbox = "receive" /\ events = <<>>
  /\ mbox' = "send"
  /\ UNCHANGED <<made, objects, spe, inMbox, events, val, completed, g_disabled>>

(* Mutant of Timeout: the receive has no time limit.                       *)
Timeout_Unlimited == FALSE

(* No event within MBOX_RECV_TIMEOUT_US, or the call fails.                *)
Timeout ==
  /\ mbox = "receive" /\ events = <<>>
  /\ g_disabled' = TRUE
  /\ mbox' = "disconnect"
  /\ UNCHANGED <<made, objects, spe, inMbox, events, val, completed>>

-----------------------------------------------------------------------------
(* The cleanup label, one kernel call a step: the SPE may answer between   *)
(* any two of them.                                                        *)
Disconnect ==
  /\ mbox = "disconnect"
  /\ objects' = objects \ (made \cap {"port"})
  /\ mbox' = "destroyQueue"
  /\ UNCHANGED <<made, spe, inMbox, events, val, completed, g_disabled>>

DestroyQueue ==
  /\ mbox = "destroyQueue"
  /\ objects' = objects \ (made \cap {"queue"})
  /\ events' = <<>>
  /\ mbox' = "terminate"
  /\ UNCHANGED <<made, spe, inMbox, val, completed, g_disabled>>

(* sys_spu_thread_group_terminate and _join, for a started group.          *)
Terminate ==
  /\ mbox = "terminate"
  /\ IF "start" \in made THEN spe' = NoThread /\ inMbox' = <<>> ELSE UNCHANGED <<spe, inMbox>>
  /\ mbox' = "destroyGroup"
  /\ UNCHANGED <<made, objects, events, val, completed, g_disabled>>

(* The kernel keeps a group whose thread runs; the locals are gone.        *)
DestroyGroup ==
  /\ mbox = "destroyGroup"
  /\ objects' = IF spe.does = "none" THEN objects \ (made \cap {"group"}) ELSE objects
  /\ mbox' = "idle"
  /\ made' = {} /\ val' = 0 /\ completed' = 0
  /\ UNCHANGED <<spe, inMbox, events, g_disabled>>

-----------------------------------------------------------------------------
(* The SPE: a blocking read of the mailbox ...                             *)
SpeRead ==
  /\ spe.does = "read" /\ inMbox # <<>>
  /\ spe' = [spe EXCEPT !.does = "answer", !.v = Head(inMbox)]
  /\ inMbox' = Tail(inMbox)
  /\ UNCHANGED <<mbox, made, objects, events, val, completed, g_disabled>>

(* ... and an event, lost when the port is no longer connected.            *)
SpeAnswer ==
  /\ spe.does = "answer"
  /\ events' = IF {"port", "queue"} \subseteq objects
                 THEN Append(events, Answer(spe.v)) ELSE events
  /\ spe' = [does |-> IF spe.n + 1 = Iterations THEN "returned" ELSE "read",
             v |-> 0, n |-> spe.n + 1]
  /\ UNCHANGED <<mbox, made, objects, inMbox, val, completed, g_disabled>>

Ppu ==
  \/ Send \/ Receive \/ Timeout
  \/ Disconnect \/ DestroyQueue \/ Terminate \/ DestroyGroup

Spe == SpeRead \/ SpeAnswer

(* A disabled benchmark returns at once.                                   *)
Idle == mbox = "idle" /\ UNCHANGED mailbox

MailboxNext ==
  \/ \E failed \in {"none"} \cup {SetupCalls[k] : k \in DOMAIN SetupCalls} : Setup(failed)
  \/ Ppu \/ Spe \/ Idle

MailboxSpec == MailboxInit /\ [][MailboxNext]_mailbox

-----------------------------------------------------------------------------
(* Type invariant.                                                         *)
MailboxTypeOK ==
  /\ mbox \in {"idle", "send", "receive", "disconnect", "destroyQueue", "terminate",
               "destroyGroup"}
  /\ made \subseteq {"group", "queue", "port", "start"}
  /\ objects \subseteq {"group", "queue", "port"}
  /\ spe \in [does : {"none", "read", "answer", "returned"},
              v : 0 .. Tokens - 1, n : 0 .. Iterations]
  /\ inMbox \in Seq(0 .. Tokens - 1) /\ events \in Seq(0 .. Tokens - 1)
  /\ val \in 0 .. Tokens - 1
  /\ completed \in 0 .. Iterations
  /\ g_disabled \in BOOLEAN

(* While rounds are made, exactly one token is on its way, it is the one   *)
(* that belongs to this round, and the SPE has answered as often as the    *)
(* main thread has received, or once more: no answer of an earlier round   *)
(* or batch is ever taken for the present one.  (The mask of 24 bits never *)
(* bites: a batch has 4096 rounds.)                                        *)
TokensMatch ==
  /\ mbox = "send" =>
       val = completed % Tokens /\ inMbox = <<>> /\ events = <<>> /\ spe.does # "answer"
  /\ mbox = "receive" =>
       \/ inMbox = <<completed % Tokens>> /\ events = <<>> /\ spe.does = "read"
       \/ inMbox = <<>> /\ events = <<>> /\ spe.does = "answer" /\ spe.v = completed % Tokens
       \/ inMbox = <<>> /\ events = <<Answer(completed % Tokens)>> /\ spe.does # "answer"

(* A batch leaves no kernel object and no thread behind.                   *)
MailboxClean == mbox = "idle" => objects = {} /\ spe = NoThread
=============================================================================
