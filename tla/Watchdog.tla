------------------------------ MODULE Watchdog ------------------------------
(***************************************************************************)
(* The watchdog: a process started by a timer, or by hand beside it, runs  *)
(* the nine checks, leaves out the alerts that alerts.json says were       *)
(* posted within the day, records the others there and posts them to       *)
(* Telegram (scheduler.py, alert_state.py, telegram.py); and the command   *)
(* /turn-into-task makes a card in Kaneo of a posted alert                 *)
(* (turn_into_task.py, kaneo.py).  What the checks see is WatchdogChecks.  *)
(*                                                                         *)
(* Each operation on alerts.json is one step, for it holds the flock; the  *)
(* flock is not held from one operation to the next.                       *)
(***************************************************************************)
EXTENDS WatchdogChecks

CONSTANTS
    Run,         \* the processes that may be at work at a time
    Timer,       \* the one the timer starts; the operator starts the others
    Ttl,         \* _TTL_SECONDS
    BatchOver,   \* _BATCH_THRESHOLD
    Faults,      \* which faults may happen
    Configs,     \* the configurations, as [disabled, acknowledged]
    MaxFaults,   \* bound: faults of the runs
    MaxChanges,  \* bound: changes of the host
    MaxByHand,   \* bound: runs by hand
    MaxCommands  \* bound: commands of the operator

\* A check is still queued when the executor is shut down, which is right after
\* the last is submitted; a check raises, or takes longer than 30 seconds;
\* Telegram refuses or does not answer; a run dies, by an exception or with its
\* process; alerts.json cannot be read, this once; Kaneo's search fails; its
\* answer is lost.
Fault == {"cancel", "slow", "telegram", "crash", "read", "search", "lost-ack"}

ASSUME WatchdogAssumption ==
    /\ IsFiniteSet(Run) /\ Timer \in Run /\ Ttl \in Nat \ {0} /\ BatchOver \in Nat
    /\ Faults \subseteq Fault
    /\ \A c \in Configs : c.disabled \subseteq Check /\ c.acknowledged \in BOOLEAN
    /\ MaxFaults \in Nat /\ MaxChanges \in Nat
    /\ MaxByHand \in Nat /\ MaxCommands \in Nat

VARIABLES
    config,   \* the configuration of every run
    host,     \* which of the readings of each check the host shows
    store,    \* alerts.json: the age of each alert on record; Nil before it is there
    runs,     \* the runs at work
    posted,   \* in the chat: the time since the last post of each alert
    command,  \* the handling of /turn-into-task
    cards,    \* in Kaneo: how many cards there are for each alert
    lost,     \* history: the alerts whose record was lost and not made again
    faults, changes, byHand, commands

vars == <<config, host, store, runs, posted, command, cards, lost, faults, changes, byHand,
          commands>>
bot == <<command, cards, commands>>
run == <<config, host, runs, posted, faults, changes, byHand>>

-----------------------------------------------------------------------------
\* Every alert a reading can lead to.
VerdictsOf(c) == {Verdict(c, Readings[c][i]) : i \in DOMAIN Readings[c]}
Alerts == (UNION {VerdictsOf(c) : c \in Check}) \ {Nil}

\* The alerts whose id is the same each time.
Stable == {a \in Alerts : a.key # Uuid}

\* Nil is no store.
ASSUME NilAssumption == \A S \in SUBSET Stable : Nil \notin [S -> 0 .. Ttl]

\* A run also remembers, as history, what was recorded while it was at work and
\* what it took for new because it could not read the file.
NoRun == [pc |-> "idle", found |-> {}, todo |-> {}, since |-> {}, unread |-> {}]
NoCommand == [pc |-> "idle", alert |-> Nil, blind |-> FALSE]

\* Faulty: an entry counts however old it is.
FreshOnceRecorded(a) == store # Nil /\ a \in DOMAIN store
\* _entry_is_fresh.
Fresh(a) == store # Nil /\ a \in DOMAIN store /\ store[a] < Ttl

OnRecord == {a \in Stable : Fresh(a)}

\* A uuid4 is on record as well, but no run and no retry ever asks for it again.
Recordable(a) == {a} \cap Stable

\* _read_raw of a run.  Read or not, the caller is not told: a file that cannot
\* be read counts as empty.
ReadOrNot(read) ==
    IF read THEN UNCHANGED faults
    ELSE "read" \in Faults /\ faults < MaxFaults /\ faults' = faults + 1

-----------------------------------------------------------------------------
(***************************************************************************)
(* A run: Scheduler.__init__ and tick.                                     *)
(***************************************************************************)

At(r, pc) == runs[r].pc = pc

\* The process starts and looks for alerts.json.
Start(r) ==
    /\ At(r, "idle")
    /\ IF r = Timer THEN UNCHANGED byHand ELSE byHand < MaxByHand /\ byHand' = byHand + 1
    /\ runs' = [runs EXCEPT ![r].pc = IF store = Nil THEN "create" ELSE "check"]
    /\ UNCHANGED <<config, host, store, posted, bot, lost, faults, changes>>

\* It was not there: the run, or the bot, takes the lock and writes an empty
\* one, whatever there is by now.
Created ==
    /\ store' = <<>>
    /\ lost' = lost \cup OnRecord

CreateStore(r) ==
    /\ At(r, "create")
    /\ Created
    /\ runs' = [runs EXCEPT ![r].pc = "check"]
    /\ UNCHANGED <<config, host, posted, bot, faults, changes, byHand>>

\* What a check makes of the host as it is.
VerdictNow(c) == Verdict(c, Readings[c][host[c]])

Critical == {"failed_attestation"}

\* _run_check: what the configuration leaves running.  A critical check is
\* disabled only with the consequences acknowledged.
Enabled == Check \ IF config.acknowledged THEN config.disabled ELSE config.disabled \ Critical

\* _run_all_checks: the alerts of the checks that ran.  To lose one that has
\* nothing to report changes nothing.
Checks(r, skipped) ==
    LET found == {VerdictNow(c) : c \in Enabled \ skipped} \ {Nil}
    IN  /\ At(r, "check")
        /\ runs' = [runs EXCEPT ![r].pc = "look", ![r].found = {}, ![r].todo = found]
        /\ IF skipped = {} THEN UNCHANGED faults
           ELSE /\ \A c \in skipped : c \in Enabled /\ VerdictNow(c) # Nil
                /\ Faults \cap {"cancel", "slow"} # {} /\ faults < MaxFaults /\ faults' = faults + 1
    /\ UNCHANGED <<config, host, store, posted, bot, lost, changes, byHand>>

\* Faulty: the alert is posted first, so that no post is lost.
NextPhaseHasty(pc) ==
    CASE pc = "look" -> "send" [] pc = "send" -> "mark" [] pc = "mark" -> "idle"
\* tick: look the alerts up, record the new ones, post them.
NextPhase(pc) ==
    CASE pc = "look" -> "mark" [] pc = "mark" -> "send" [] pc = "send" -> "idle"

\* All of a phase is done; nothing new ends the tick.
Proceed(r) ==
    /\ runs[r].pc \in {"look", "mark", "send"} /\ runs[r].todo = {}
    /\ LET next == IF runs[r].found = {} THEN "idle" ELSE NextPhase(runs[r].pc)
       IN  runs' = [runs EXCEPT ![r] =
                       IF next = "idle" THEN NoRun
                       ELSE [@ EXCEPT !.pc = next, !.todo = runs[r].found]]
    /\ UNCHANGED <<config, host, store, posted, bot, lost, faults, changes, byHand>>

\* Faulty: an alert is new until it is in the chat, so that a lost post is
\* posted again.
LookUpInChat(r, a, read) ==
    /\ At(r, "look") /\ read
    /\ runs' = [runs EXCEPT ![r].todo = @ \ {a},
                            ![r].found = IF a \in Stable /\ posted[a] # Nil THEN @
                                         ELSE @ \cup {a}]
    /\ UNCHANGED <<config, host, store, posted, bot, lost, faults, changes, byHand>>

\* is_seen, of one alert.
LookUp(r, a, read) ==
    /\ At(r, "look") /\ ReadOrNot(read)
    /\ runs' = [runs EXCEPT ![r].todo = @ \ {a},
                            ![r].found = IF read /\ Fresh(a) THEN @ ELSE @ \cup {a},
                            ![r].unread = IF read THEN @ ELSE @ \cup Recordable(a)]
    /\ UNCHANGED <<config, host, store, posted, bot, lost, changes, byHand>>

\* mark_seen, of one alert: expired entries are dropped, and so are all the
\* others if they could not be read.
Mark(r, a, read) ==
    LET own == Recordable(a)
        kept == IF read THEN OnRecord ELSE {}
    IN
    /\ At(r, "mark") /\ ReadOrNot(read)
    /\ store' = [b \in kept \cup own |-> IF b \in own THEN 0 ELSE store[b]]
    /\ lost' = (lost \cup (OnRecord \ kept)) \ own
    /\ runs' = [q \in Run |->
                   IF q = r THEN [runs[r] EXCEPT !.todo = @ \ {a}]
                   ELSE IF runs[q].pc \in {"idle", "create"} THEN runs[q]
                   ELSE [runs[q] EXCEPT !.since = @ \cup own]]
    /\ UNCHANGED <<config, host, posted, bot, changes, byHand>>

\* _dispatch: one message for each alert, or one digest of all.  What comes of
\* a message is not looked at.
Send(r, batch, arrives) ==
    /\ At(r, "send") /\ runs[r].todo # {}
    /\ IF Cardinality(runs[r].found) > BatchOver
       THEN batch = runs[r].todo
       ELSE batch \subseteq runs[r].todo /\ Cardinality(batch) = 1
    /\ runs' = [runs EXCEPT ![r].todo = @ \ batch]
    /\ posted' = IF arrives THEN [a \in Stable |-> IF a \in batch THEN 0 ELSE posted[a]]
                 ELSE posted
    /\ IF arrives THEN UNCHANGED faults
       ELSE /\ "telegram" \in Faults /\ faults < MaxFaults /\ faults' = faults + 1
    /\ UNCHANGED <<config, host, store, bot, lost, changes, byHand>>

\* The run dies: of an answer that is no JSON, of a write that fails, which
\* nothing catches, or killed.
Dies(r) ==
    /\ "crash" \in Faults /\ faults < MaxFaults /\ faults' = faults + 1
    /\ ~At(r, "idle")
    /\ runs' = [runs EXCEPT ![r] = NoRun]
    /\ UNCHANGED <<config, host, store, posted, bot, lost, changes, byHand>>

-----------------------------------------------------------------------------
(***************************************************************************)
(* The command /turn-into-task, of an authorised operator.  The gateway    *)
(* handles one message at a time.                                          *)
(***************************************************************************)

Handler(pc) == command.pc = pc

\* The operator names an alert on record, or none that is; the store is
\* constructed for the command.
Ask(a) ==
    /\ Handler("idle") /\ commands < MaxCommands
    /\ a = Nil \/ (store # Nil /\ a \in DOMAIN store)
    /\ commands' = commands + 1
    /\ command' = [NoCommand EXCEPT !.pc = IF store = Nil THEN "create" ELSE "look",
                                    !.alert = a]
    /\ UNCHANGED <<run, store, cards, lost>>

AskCreates ==
    /\ Handler("create")
    /\ Created
    /\ command' = [command EXCEPT !.pc = "look"]
    /\ UNCHANGED <<run, cards, commands>>

\* Faulty: whatever alert the operator names.
AskTrustsOperator(read) ==
    /\ Handler("look") /\ read
    /\ command' = [command EXCEPT !.pc = "search"]
    /\ UNCHANGED <<run, store, cards, commands, lost>>

\* An unknown or expired alert is refused, and so is any while the file cannot be
\* read.  The class is looked up next, and is "unknown" if the entry has expired
\* in between or cannot be read: the card is made all the same.
AskLooksUp(read) ==
    /\ Handler("look") /\ (~read => "read" \in Faults)
    /\ command' = IF read /\ Fresh(command.alert) THEN [command EXCEPT !.pc = "search"] ELSE NoCommand
    /\ UNCHANGED <<run, store, cards, commands, lost>>

\* Faulty: what the search brings is not looked through.
AskSearchesInVain(fails) ==
    /\ Handler("search") /\ ~fails
    /\ command' = [command EXCEPT !.pc = "post"]
    /\ UNCHANGED <<run, store, cards, commands, lost>>

\* _existing_card: the id is looked for in the cards, where it is not if the
\* sanitizer cut it out.  A search that fails finds nothing.
AskSearches(fails) ==
    LET blind == fails \/ ~Legible(command.alert) IN
    /\ Handler("search") /\ (fails => "search" \in Faults)
    /\ command' = IF cards[command.alert] > 0 /\ ~blind THEN NoCommand
                  ELSE [command EXCEPT !.pc = "post", !.blind = blind]
    /\ UNCHANGED <<run, store, cards, commands, lost>>

\* The card is posted; Kaneo may not get it, or its answer may be lost, which
\* look the same to the operator.
AskPosts(made) ==
    /\ Handler("post") /\ (~made => "lost-ack" \in Faults)
    /\ cards' = [cards EXCEPT ![command.alert] = IF made THEN @ + 1 ELSE @]
    /\ command' = NoCommand
    /\ UNCHANGED <<run, store, commands, lost>>

-----------------------------------------------------------------------------
\* A reading changes.  Nothing but a run that checks takes notice.
Change(c, i) ==
    /\ changes < MaxChanges /\ changes' = changes + 1
    /\ \E r \in Run : At(r, "check")
    /\ i \in DOMAIN Readings[c] /\ i # host[c]
    /\ host' = [host EXCEPT ![c] = i]
    /\ UNCHANGED <<config, store, runs, posted, bot, lost, faults, byHand>>

Older(age) == IF age = Nil \/ age + 1 >= Ttl THEN Nil ELSE age + 1

\* Time passes.  A run lasts minutes, and an entry a day: no run spans a Tick.
Tick ==
    /\ runs = [r \in Run |-> NoRun]
    /\ store' = IF store = Nil THEN Nil
                ELSE [a \in DOMAIN store |-> IF store[a] = Ttl THEN Ttl ELSE store[a] + 1]
    /\ posted' = [a \in Stable |-> Older(posted[a])]
    /\ UNCHANGED <<config, host, runs, bot, lost, faults, changes, byHand>>

Healthy == [c \in Check |-> 1]
\* No release has been tagged as good yet.
NewlyInstalled == [Healthy EXCEPT !["stale_lkg"] = 3]

Init ==
    /\ config \in Configs
    /\ host \in {Healthy, NewlyInstalled}
    /\ store \in {Nil, <<>>}
    /\ runs = [r \in Run |-> NoRun]
    /\ posted = [a \in Stable |-> Nil]
    /\ command = NoCommand /\ cards = [a \in Stable |-> 0]
    /\ lost = {}
    /\ faults = 0 /\ changes = 0 /\ byHand = 0 /\ commands = 0

RunStep(r) ==
    \/ CreateStore(r)
    \/ \E skipped \in {{}} \cup {{c} : c \in Check} : Checks(r, skipped)
    \/ Proceed(r)
    \/ \E a \in runs[r].todo, read \in BOOLEAN : LookUp(r, a, read) \/ Mark(r, a, read)
    \/ \E batch \in SUBSET runs[r].todo, arrives \in BOOLEAN : Send(r, batch, arrives)

CommandStep ==
    \/ AskCreates
    \/ \E read \in BOOLEAN : AskLooksUp(read)
    \/ \E fails \in BOOLEAN : AskSearches(fails)
    \/ \E made \in BOOLEAN : AskPosts(made)

Next ==
    \/ \E r \in Run : Start(r) \/ RunStep(r) \/ Dies(r)
    \/ \E a \in Stable \cup {Nil} : Ask(a)
    \/ CommandStep
    \/ \E c \in Check : \E i \in DOMAIN Readings[c] : Change(c, i)
    \/ Tick

Spec == Init /\ [][Next]_vars

\* The timer starts a run every five minutes, runs end, and time passes.
Fairness ==
    /\ WF_vars(Start(Timer)) /\ SF_vars(Tick)
    /\ \A r \in Run : WF_vars(RunStep(r))

FairSpec == Spec /\ Fairness

-----------------------------------------------------------------------------
(***************************************************************************)
(* Properties.                                                             *)
(***************************************************************************)

\* Every variable holds what the code can put there.
TypeOK ==
    /\ config \in Configs
    /\ \A c \in Check : host[c] \in DOMAIN Readings[c]
    /\ store # Nil => /\ DOMAIN store \subseteq Stable
                      /\ \A a \in DOMAIN store : store[a] \in 0 .. Ttl
    /\ runs \in [Run -> [pc : {"idle", "create", "check", "look", "mark", "send"},
                         found : SUBSET Alerts, todo : SUBSET Alerts, since : SUBSET Stable,
                         unread : SUBSET Stable]]
    /\ posted \in [Stable -> 0 .. Ttl - 1 \cup {Nil}]
    /\ command \in [pc : {"idle", "create", "look", "search", "post"}, alert : Stable \cup {Nil},
                   blind : BOOLEAN]
    /\ command.pc \in {"search", "post"} => command.alert # Nil
    /\ cards \in [Stable -> 0 .. MaxCommands] /\ lost \subseteq Stable
    /\ faults \in 0 .. MaxFaults /\ changes \in 0 .. MaxChanges
    /\ byHand \in 0 .. MaxByHand /\ commands \in 0 .. MaxCommands

\* A service that answers badly and one that does not answer are one outage.
SameOutage(a, b) == a = b \/ (a.check = b.check /\ a.check \in {"solana_rpc", "turbo_balance"})

\* An outage on record is recorded again, to be posted again, within the day
\* only by a run that could not know: it was under way when the outage was
\* recorded, as a run by hand and the timer's may be, or could not read the file
\* when it asked.  No other run posts it again.
RepeatedOnlyUnseen ==
    [][\A r \in Run, a, b \in Stable :
          /\ At(r, "mark") /\ a \in runs[r].todo /\ a \notin runs'[r].todo
          /\ SameOutage(a, b) /\ Fresh(b)
          => runs'[r] = NoRun \/ \E c \in runs[r].since \cup runs[r].unread : SameOutage(a, c)]_vars

\* What the chat was told within the day is on record, so that no crash makes
\* the next run post it again, unless that record was lost: to a first start,
\* which writes an empty file over it, or to a run that recorded another alert
\* and could not read the file.
PostedIsRecorded ==
    \A a \in Stable : posted[a] # Nil => Fresh(a) \/ a \in lost

\* Commands for one alert make one card, although a command whose answer is
\* lost is given again: there is a second only if the first could not be found,
\* because Kaneo could not be searched or the card does not show the id.
OneCardPerAlert ==
    [][\A a \in Stable : cards[a] > 0 /\ cards'[a] > cards[a] => command.blind]_vars

\* What a check that may not be silent would report.
Bad(a) ==
    /\ VerdictNow(a.check) = a
    /\ a.check \notin config.disabled \/ (a.check \in Critical /\ ~config.acknowledged)

\* An outage that lasts is posted again and again, once in a while at least: a
\* post that was lost, to Telegram, to a crash or to a check cut short, is made
\* good when its record expires.
OutageReported == \A a \in Stable : []<>(~Bad(a) \/ posted[a] # Nil)
=============================================================================
