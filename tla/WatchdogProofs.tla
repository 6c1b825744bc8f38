--------------------------- MODULE WatchdogProofs ---------------------------
(***************************************************************************)
(* Proofs about Watchdog: its safety properties hold for any runs by hand, *)
(* times, faults, configurations and commands.                             *)
(***************************************************************************)
EXTENDS Watchdog, TLAPS

RunType == [pc : {"idle", "create", "check", "look", "mark", "send"},
            found : SUBSET Alerts, todo : SUBSET Alerts, since : SUBSET Stable,
            unread : SUBSET Stable]
CommandType == [pc : {"idle", "create", "look", "search", "post"}, alert : Stable \cup {Nil},
                blind : BOOLEAN]

\* The host has a reading for each check; the store is not there, or has ages.
HostType == \E f \in [Check -> Nat] : host = f /\ \A c \in Check : f[c] \in DOMAIN Readings[c]
StoreType == store = Nil \/ \E S \in SUBSET Stable : store \in [S -> 0 .. Ttl]

\* The other types, and the cards: each is of a command that is over.
Types ==
    /\ config \in Configs
    /\ runs \in [Run -> RunType] /\ posted \in [Stable -> 0 .. Ttl - 1 \cup {Nil}]
    /\ command \in CommandType
    /\ command.pc \in {"search", "post"} => command.alert # Nil
    /\ lost \subseteq Stable
    /\ faults \in 0 .. MaxFaults /\ changes \in 0 .. MaxChanges
    /\ byHand \in 0 .. MaxByHand /\ commands \in 0 .. MaxCommands

Cards ==
    /\ cards \in [Stable -> Nat]
    /\ \A a \in Stable : cards[a] <= commands
    /\ command.pc # "idle" => \A a \in Stable : cards[a] < commands
    /\ (command.pc = "post" /\ ~command.blind) => cards[command.alert] = 0

\* An alert was recorded since time last passed.
JustRecorded(a) == store # Nil /\ a \in DOMAIN store /\ store[a] = 0

\* What a run has been through with, and what it is about to post, is on record,
\* and so is what the chat was told, no later; unless its record was lost.
Recorded ==
    /\ \A r \in Run : At(r, "mark") =>
           \A a \in runs[r].found \cap Stable : a \in runs[r].todo \cup lost \/ JustRecorded(a)
    /\ \A r \in Run : At(r, "send") =>
           \A a \in runs[r].todo \cap Stable : a \in lost \/ JustRecorded(a)
    /\ \A a \in Stable : posted[a] # Nil =>
           a \in lost \/ (store # Nil /\ a \in DOMAIN store /\ store[a] <= posted[a])

\* What a run could not know of when it asked.
Unseen(q) == q.since \cup q.unread

\* What a run takes for new is so still, or it could not know better.
New ==
    /\ \A r \in Run : At(r, "look") =>
           \A a \in runs[r].found \cap Stable : Fresh(a) => a \in Unseen(runs[r])
    /\ \A r \in Run : At(r, "mark") =>
           \A a \in runs[r].todo \cap Stable : Fresh(a) => a \in Unseen(runs[r])

\* A run past its start has a store.
There == \A r \in Run : runs[r].pc \in {"check", "look", "mark", "send"} => store # Nil

Inv == HostType /\ StoreType /\ There /\ Types /\ Cards /\ Recorded /\ New

-----------------------------------------------------------------------------
(***************************************************************************)
(* What the checks report.                                                 *)
(***************************************************************************)

\* Each check has readings, numbered from 1.
LEMMA ReadingsThere ==
    /\ \A c \in Check : 1 \in DOMAIN Readings[c] /\ DOMAIN Readings[c] \subseteq Nat
    /\ 3 \in DOMAIN Readings["stale_lkg"]
    /\ \A i \in DOMAIN Readings["failed_attestation"] :
           Readings["failed_attestation"][i].reply \in {"none", "odd", "texts"}
<1>1. 3 \in DOMAIN Readings["stale_lkg"]
  BY DEF Readings
<1>2. ASSUME NEW c \in Check
      PROVE  1 \in DOMAIN Readings[c] /\ DOMAIN Readings[c] \subseteq Nat
  <2>1. CASE c = "orphaned_worktrees"
    BY <2>1 DEF Readings
  <2>2. CASE c = "hung_tmux"
    BY <2>2 DEF Readings
  <2>3. CASE c = "solana_rpc"
    BY <2>3 DEF Readings
  <2>4. CASE c = "turbo_balance"
    BY <2>4 DEF Readings
  <2>5. CASE c = "disk_pressure"
    BY <2>5 DEF Readings
  <2>6. CASE c = "master_drift"
    BY <2>6 DEF Readings
  <2>7. CASE c = "stale_prs"
    BY <2>7 DEF Readings
  <2>8. CASE c = "failed_attestation"
    BY <2>8 DEF Readings
  <2>9. CASE c = "stale_lkg"
    BY <2>9 DEF Readings
  <2> QED BY <2>1, <2>2, <2>3, <2>4, <2>5, <2>6, <2>7, <2>8, <2>9 DEF Check
<1>3. \A i \in DOMAIN Readings["failed_attestation"] :
          Readings["failed_attestation"][i].reply \in {"none", "odd", "texts"}
  BY DEF Readings, Reply
<1> QED BY <1>1, <1>2, <1>3

\* An alert is of its check, and two of the checks have one alert each.
LEMMA VerdictOfCheck ==
    ASSUME NEW c \in Check, NEW x, Verdict(c, x) # Nil,
           c = "failed_attestation" => x.reply \in {"none", "odd", "texts"}
    PROVE  /\ Verdict(c, x).check = c
           /\ c = "solana_rpc" => Verdict(c, x) = Alert("solana_rpc", {"rpc"}, "critical")
           /\ c = "turbo_balance" => Verdict(c, x) = Alert("turbo_balance", {"wallet"}, "warning")
<1>1. CASE c = "orphaned_worktrees"
  <2>1. Verdict(c, x) = OrphanedWorktrees(x)
    BY <1>1 DEF Verdict
  <2> QED BY <1>1, <2>1 DEF OrphanedWorktrees, Alert
<1>2. CASE c = "hung_tmux"
  <2>1. Verdict(c, x) = HungTmux(x)
    BY <1>2 DEF Verdict
  <2> QED BY <1>2, <2>1 DEF HungTmux, Alert
<1>3. CASE c = "solana_rpc"
  <2>1. Verdict(c, x) = SolanaRpc(x)
    BY <1>3 DEF Verdict
  <2> QED BY <1>3, <2>1 DEF SolanaRpc, Alert
<1>4. CASE c = "turbo_balance"
  <2>1. Verdict(c, x) = TurboBalance(x)
    BY <1>4 DEF Verdict
  <2> QED BY <1>4, <2>1 DEF TurboBalance, Alert
<1>5. CASE c = "disk_pressure"
  <2>1. Verdict(c, x) = DiskPressure(x)
    BY <1>5 DEF Verdict
  <2>2. DiskPressure(x) # Nil => DiskPressure(x).check = "disk_pressure"
    BY DEF DiskPressure, Alert
  <2> QED BY <1>5, <2>1, <2>2
<1>6. CASE c = "master_drift"
  <2>1. Verdict(c, x) = MasterDrift(x)
    BY <1>6 DEF Verdict
  <2> QED BY <1>6, <2>1 DEF MasterDrift, Alert
<1>7. CASE c = "stale_prs"
  <2>1. Verdict(c, x) = StalePrs(x)
    BY <1>7 DEF Verdict
  <2> QED BY <1>7, <2>1 DEF StalePrs, Alert
<1>8. CASE c = "failed_attestation"
  <2>1. Verdict(c, x) = FailedAttestation(x)
    BY <1>8 DEF Verdict
  <2>2. FailedAttestation(x) # Nil => FailedAttestation(x).check = "failed_attestation"
    BY <1>8 DEF FailedAttestation, Alert
  <2> QED BY <1>8, <2>1, <2>2
<1>9. CASE c = "stale_lkg"
  <2>1. Verdict(c, x) = StaleLkg(x)
    BY <1>9 DEF Verdict
  <2> QED BY <1>9, <2>1 DEF StaleLkg, Alert
<1> QED BY <1>1, <1>2, <1>3, <1>4, <1>5, <1>6, <1>7, <1>8, <1>9 DEF Check

\* So a service that answers badly and one that does not are one alert.
LEMMA OneOutage ==
    ASSUME NEW a \in Stable, NEW b \in Stable, SameOutage(a, b)
    PROVE  a = b
<1>1. ASSUME NEW e \in Alerts
      PROVE  /\ e.check = "solana_rpc" => e = Alert("solana_rpc", {"rpc"}, "critical")
             /\ e.check = "turbo_balance" => e = Alert("turbo_balance", {"wallet"}, "warning")
  <2>1. PICK c \in Check : \E i \in DOMAIN Readings[c] : e = Verdict(c, Readings[c][i])
    BY DEF Alerts, VerdictsOf
  <2>2. PICK i \in DOMAIN Readings[c] : e = Verdict(c, Readings[c][i])
    BY <2>1
  <2>3. e # Nil
    BY DEF Alerts
  <2> QED BY <2>2, <2>3, VerdictOfCheck, ReadingsThere
<1> QED BY <1>1 DEF SameOutage, Stable

\* No alert is Nil.
LEMMA NilIsNone == Nil \notin Alerts /\ Nil \notin Stable /\ Stable \subseteq Alerts
BY DEF Alerts, Stable

\* What a check reports of the host is an alert, or nothing.
LEMMA VerdictNowIsAlert ==
    ASSUME HostType, NEW c \in Check
    PROVE  VerdictNow(c) \in Alerts \cup {Nil}
<1>1. host[c] \in DOMAIN Readings[c]
  BY DEF HostType
<1>2. VerdictNow(c) \in VerdictsOf(c)
  BY <1>1 DEF VerdictNow, VerdictsOf
<1> QED BY <1>2 DEF Alerts

-----------------------------------------------------------------------------
(***************************************************************************)
(* The store.                                                              *)
(***************************************************************************)

\* What was just recorded has not expired.
LEMMA JustIsFresh == ASSUME NEW a, JustRecorded(a) PROVE Fresh(a)
BY WatchdogAssumption DEF JustRecorded, Fresh

\* A store made anew has no entry, and is a store; what was on record is lost.
LEMMA CreatedStore ==
    ASSUME Inv, Created
    PROVE  /\ StoreType' /\ lost' \subseteq Stable
           /\ store' # Nil /\ \A a : a \notin DOMAIN store'
           /\ lost \subseteq lost' /\ \A a \in Stable : Fresh(a) => a \in lost'
<1>1. <<>> \in [{} -> 0 .. Ttl] /\ {} \in SUBSET Stable
  OBVIOUS
<1>2. store' = <<>> /\ lost' = lost \cup OnRecord
  BY DEF Created
<1>3. <<>> # Nil
  BY <1>1, NilAssumption
<1>4. \A a : a \notin DOMAIN <<>>
  OBVIOUS
<1>5. StoreType'
  BY <1>1, <1>2 DEF StoreType
<1>6. OnRecord \subseteq Stable /\ \A a \in Stable : Fresh(a) => a \in OnRecord
  BY DEF OnRecord
<1> QED BY <1>2, <1>3, <1>4, <1>5, <1>6 DEF Inv, Types

\* The store is made anew while runs are at work and a command may be handled.
LEMMA CreatedKeeps ==
    ASSUME Inv, Created, runs' \in [Run -> RunType], UNCHANGED posted,
           \A r \in Run : /\ runs'[r].pc \in {"look", "mark", "send"} => runs'[r] = runs[r]
    PROVE  Recorded' /\ New'
<1>1. /\ lost \subseteq lost' /\ \A a \in Stable : Fresh(a) => a \in lost'
      /\ \A a : a \notin DOMAIN store'
  BY CreatedStore
<1>2. \A a \in Stable : JustRecorded(a) => a \in lost'
  BY <1>1, JustIsFresh
<1>3. Recorded'
  <2>1. ASSUME NEW r \in Run, At(r, "mark")', NEW a \in runs'[r].found \cap Stable
        PROVE  a \in runs'[r].todo \cup lost'
    BY <1>1, <1>2, <2>1 DEF Inv, Recorded, At
  <2>2. ASSUME NEW r \in Run, At(r, "send")', NEW a \in runs'[r].todo \cap Stable
        PROVE  a \in lost'
    BY <1>1, <1>2, <2>2 DEF Inv, Recorded, At
  <2>3. ASSUME NEW a \in Stable, posted'[a] # Nil
        PROVE  a \in lost'
    <3>1. a \in lost \/ (store # Nil /\ a \in DOMAIN store /\ store[a] <= posted[a])
      BY <2>3 DEF Inv, Recorded
    <3>2. posted[a] \in 0 .. Ttl - 1 /\ Ttl \in Nat
      BY <2>3, WatchdogAssumption DEF Inv, Types
    <3>3. CASE a \notin lost
      <4>1. store[a] \in 0 .. Ttl
        BY <3>1, <3>3 DEF Inv, StoreType
      <4>2. Fresh(a)
        BY <3>1, <3>2, <3>3, <4>1 DEF Fresh
      <4> QED BY <1>1, <4>2
    <3> QED BY <1>1, <3>3
  <2> QED BY <2>1, <2>2, <2>3 DEF Recorded
<1>4. New'
  <2>1. \A a : ~Fresh(a)'
    BY <1>1 DEF Fresh
  <2> QED BY <2>1 DEF New
<1> QED BY <1>3, <1>4

-----------------------------------------------------------------------------
(***************************************************************************)
(* The steps of a run.                                                     *)
(***************************************************************************)

\* A run goes on and nothing is recorded or posted: what the invariant says of
\* the runs is left to be shown of that one.
LEMMA RunGoesOn ==
    ASSUME Inv, NEW r \in Run, NEW new \in RunType, runs' = [runs EXCEPT ![r] = new],
           UNCHANGED <<config, host, store, posted, bot, cards, lost>>,
           faults' \in 0 .. MaxFaults, byHand' \in 0 .. MaxByHand, changes' = changes,
           new.pc \in {"check", "look", "mark", "send"} => store # Nil,
           new.pc = "look" => \A a \in new.found \cap Stable : Fresh(a) => a \in Unseen(new),
           new.pc = "mark" => \A a \in new.todo \cap Stable : Fresh(a) => a \in Unseen(new),
           new.pc = "mark" =>
               \A a \in new.found \cap Stable : a \in new.todo \cup lost \/ JustRecorded(a),
           new.pc = "send" => \A a \in new.todo \cap Stable : a \in lost \/ JustRecorded(a)
    PROVE  Inv'
<1> USE DEF Inv, bot
<1>1. /\ runs' \in [Run -> RunType] /\ runs'[r] = new
      /\ \A q \in Run \ {r} : runs'[q] = runs[q]
  BY DEF Types
<1>2. HostType' /\ StoreType' /\ There'
  BY <1>1 DEF HostType, StoreType, There
<1>3. Types'
  BY <1>1 DEF Types
<1>4. Cards'
  BY DEF Cards
<1>5. Recorded'
  BY <1>1 DEF Recorded, JustRecorded, At
<1>6. New'
  BY <1>1 DEF New, Unseen, Fresh, At
<1> QED BY <1>2, <1>3, <1>4, <1>5, <1>6

\* A run that is over.
LEMMA NoRunIsOne == NoRun \in RunType /\ NoRun.pc = "idle"
BY DEF NoRun, RunType

\* The process starts: its checks come before anything it may report.
LEMMA StartStep == ASSUME Inv, NEW r \in Run, Start(r) PROVE Inv'
<1> DEFINE pc == IF store = Nil THEN "create" ELSE "check"
           new == [runs[r] EXCEPT !.pc = pc]
<1>1. runs[r] \in RunType /\ pc \in {"create", "check"}
  BY DEF Inv, Types
<1> HIDE DEF pc
<1>2. new \in RunType /\ new.pc = pc
  BY <1>1 DEF RunType
<1>3. runs' = [runs EXCEPT ![r] = new]
  BY DEF Start, pc
<1>4. byHand' \in 0 .. MaxByHand
  BY WatchdogAssumption DEF Start, Inv, Types
<1>5. UNCHANGED <<config, host, store, posted, bot, cards, lost, faults, changes>>
  BY DEF Start, bot
<1>6. faults' \in 0 .. MaxFaults
  BY <1>5 DEF Inv, Types
<1>7. pc = "check" => store # Nil
  BY DEF pc
<1> HIDE DEF new
<1> QED BY <1>1, <1>2, <1>3, <1>4, <1>5, <1>6, <1>7, RunGoesOn

\* The run makes the store anew.
LEMMA CreateStep == ASSUME Inv, NEW r \in Run, CreateStore(r) PROVE Inv'
<1> USE DEF Inv
<1> DEFINE new == [runs[r] EXCEPT !.pc = "check"]
<1>1. runs[r] \in RunType
  BY DEF Types
<1>2. new \in RunType /\ new.pc = "check"
  BY <1>1 DEF RunType
<1>3. Created /\ runs' = [runs EXCEPT ![r] = new]
      /\ UNCHANGED <<config, host, posted, command, cards, commands, faults, changes, byHand>>
  BY DEF CreateStore, bot
<1> HIDE DEF new
<1>4. /\ runs' \in [Run -> RunType] /\ runs'[r] = new
      /\ \A q \in Run \ {r} : runs'[q] = runs[q]
  BY <1>2, <1>3 DEF Types
<1>5. \A q \in Run : runs'[q].pc \in {"look", "mark", "send"} => runs'[q] = runs[q]
  BY <1>2, <1>4
<1>6. StoreType' /\ lost' \subseteq Stable
  BY <1>3, CreatedStore
<1>7. Recorded' /\ New'
  BY <1>3, <1>4, <1>5, CreatedKeeps
<1>8. HostType' /\ There' /\ Types' /\ Cards'
  BY <1>3, <1>4, <1>6, CreatedStore DEF HostType, There, Types, Cards
<1> QED BY <1>6, <1>7, <1>8

\* The checks find alerts, and none of them is taken for new yet.
LEMMA ChecksStep ==
    ASSUME Inv, NEW r \in Run, NEW skipped, Checks(r, skipped)
    PROVE  Inv'
<1> DEFINE found == {VerdictNow(c) : c \in Enabled \ skipped} \ {Nil}
           new == [runs[r] EXCEPT !.pc = "look", !.found = {}, !.todo = found]
<1>1. found \subseteq Alerts
  BY VerdictNowIsAlert DEF Inv, Enabled
<1>2. runs[r] \in RunType
  BY DEF Inv, Types
<1>3. runs' = [runs EXCEPT ![r] = new]
  BY <1>2 DEF Checks, RunType, Inv, Types
<1> HIDE DEF found
<1>4. new \in RunType /\ new.pc = "look" /\ new.found = {}
  BY <1>1, <1>2 DEF RunType
<1>5. faults' \in 0 .. MaxFaults
  BY WatchdogAssumption DEF Checks, Inv, Types
<1>6. UNCHANGED <<config, host, store, posted, bot, cards, lost, changes, byHand>>
  BY DEF Checks, bot
<1>7. byHand' \in 0 .. MaxByHand
  BY <1>6 DEF Inv, Types
<1>8. store # Nil
  BY DEF Checks, At, Inv, There
<1> HIDE DEF new
<1> QED BY <1>3, <1>4, <1>5, <1>6, <1>7, <1>8, RunGoesOn

\* A phase is over: what was found new is to be recorded, what was recorded is to
\* be posted.
LEMMA ProceedStep == ASSUME Inv, NEW r \in Run, Proceed(r) PROVE Inv'
<1> USE DEF Inv
<1>1. runs[r] \in RunType /\ runs[r].todo = {} /\ runs[r].pc \in {"look", "mark", "send"}
  BY DEF Types, Proceed
<1>8. store # Nil
  BY <1>1 DEF There
<1>2. UNCHANGED <<config, host, store, posted, bot, cards, lost, faults, changes, byHand>>
  BY DEF Proceed, bot
<1>3. faults' \in 0 .. MaxFaults /\ byHand' \in 0 .. MaxByHand
  BY <1>2 DEF Types
<1> DEFINE next == IF runs[r].found = {} THEN "idle" ELSE NextPhase(runs[r].pc)
           new == [runs[r] EXCEPT !.pc = next, !.todo = runs[r].found]
<1>4. runs' = [runs EXCEPT ![r] = IF next = "idle" THEN NoRun ELSE new]
  BY Zenon DEF Proceed
<1>5. /\ next \in {"idle", "mark", "send"}
      /\ next = "mark" => runs[r].pc = "look"
      /\ next = "send" => runs[r].pc = "mark"
  BY <1>1 DEF NextPhase
<1> HIDE DEF next
<1>6. CASE next = "idle"
  <2>1. runs' = [runs EXCEPT ![r] = NoRun]
    BY <1>4, <1>6
  <2> QED BY <1>2, <1>3, <2>1, NoRunIsOne, RunGoesOn
<1>7. CASE next # "idle"
  <2>1. /\ new \in RunType /\ new.pc = next /\ new.found = runs[r].found
        /\ new.todo = runs[r].found /\ Unseen(new) = Unseen(runs[r])
    BY <1>1, <1>5 DEF RunType, Unseen
  <2>2. runs' = [runs EXCEPT ![r] = new]
    BY <1>4, <1>7
  <2> HIDE DEF new
  <2>3. next = "mark" => \A a \in new.todo \cap Stable : Fresh(a) => a \in Unseen(new)
    BY <1>5, <2>1 DEF New, At
  <2>4. next = "send" => \A a \in new.todo \cap Stable : a \in lost \/ JustRecorded(a)
    BY <1>1, <1>5, <2>1 DEF Recorded, At
  <2> QED BY <1>2, <1>3, <1>5, <1>8, <2>1, <2>2, <2>3, <2>4, RunGoesOn
<1> QED BY <1>6, <1>7

\* The file is read or not: a bounded number of times not.
LEMMA ReadOrNotStep ==
    ASSUME Inv, NEW read \in BOOLEAN, ReadOrNot(read)
    PROVE  faults' \in 0 .. MaxFaults
BY WatchdogAssumption DEF ReadOrNot, Inv, Types

\* An alert is looked up: it is taken for new only if it is not on record, or
\* the record could not be read.
LEMMA LookUpStep ==
    ASSUME Inv, NEW r \in Run, NEW a \in runs[r].todo, NEW read \in BOOLEAN, LookUp(r, a, read)
    PROVE  Inv'
<1> USE DEF Inv
<1> DEFINE found == IF read /\ Fresh(a) THEN runs[r].found ELSE runs[r].found \cup {a}
           unread == IF read THEN runs[r].unread ELSE runs[r].unread \cup Recordable(a)
           new == [runs[r] EXCEPT !.todo = @ \ {a}, !.found = found, !.unread = unread]
<1>1. runs[r] \in RunType /\ runs[r].pc = "look"
  BY DEF Types, LookUp, At
<1>2. a \in Alerts
  BY <1>1 DEF RunType
<1>3. found \subseteq Alerts /\ unread \subseteq Stable
  BY <1>1, <1>2 DEF RunType, Recordable
<1>4. runs' = [runs EXCEPT ![r] = new]
      /\ UNCHANGED <<config, host, store, posted, bot, cards, lost, changes, byHand>>
  BY <1>1 DEF LookUp, bot, Types, RunType
<1>5. \A b \in found \cap Stable : Fresh(b) => b \in runs[r].since \cup unread
  BY <1>1 DEF New, At, Unseen, Recordable
<1> HIDE DEF found, unread
<1>6. /\ new \in RunType /\ new.pc = "look"
      /\ new.found = found /\ Unseen(new) = runs[r].since \cup unread
  BY <1>1, <1>3 DEF RunType, Unseen
<1>7. faults' \in 0 .. MaxFaults /\ byHand' \in 0 .. MaxByHand
  BY <1>4, ReadOrNotStep DEF Types, LookUp
<1>8. store # Nil
  BY <1>1 DEF There
<1> HIDE DEF new
<1> QED BY <1>4, <1>5, <1>6, <1>7, <1>8, RunGoesOn

\* A message is sent: all that is in it has just been recorded.
LEMMA SendStep ==
    ASSUME Inv, NEW r \in Run, NEW batch \in SUBSET runs[r].todo, NEW arrives \in BOOLEAN,
           Send(r, batch, arrives)
    PROVE  Inv'
<1> USE DEF Inv
<1> DEFINE new == [runs[r] EXCEPT !.todo = @ \ batch]
<1>1. runs[r] \in RunType /\ runs[r].pc = "send" /\ Ttl \in Nat \ {0}
  BY WatchdogAssumption DEF Types, Send, At
<1>2. new \in RunType /\ new.pc = "send" /\ new.todo = runs[r].todo \ batch
  BY <1>1 DEF RunType
<1>3. /\ runs' = [runs EXCEPT ![r] = new]
      /\ UNCHANGED <<config, host, store, bot, lost, changes, byHand>>
  BY DEF Send
<1> HIDE DEF new
<1>4. /\ runs' \in [Run -> RunType] /\ runs'[r] = new
      /\ \A q \in Run \ {r} : runs'[q] = runs[q]
  BY <1>2, <1>3 DEF Types
<1>5. /\ posted' \in [Stable -> 0 .. Ttl - 1 \cup {Nil}]
      /\ \A a \in Stable : posted'[a] = posted[a] \/ (a \in batch /\ posted'[a] = 0)
  BY <1>1 DEF Send, Types
<1>6. faults' \in 0 .. MaxFaults
  BY WatchdogAssumption DEF Send, Types
<1>7. HostType' /\ StoreType' /\ There' /\ Types' /\ Cards'
  BY <1>1, <1>2, <1>3, <1>4, <1>5, <1>6 DEF HostType, StoreType, There, Types, Cards, bot
<1>8. Recorded'
  <2>1. \A a \in batch \cap Stable : a \in lost \/ JustRecorded(a)
    BY <1>1 DEF Recorded, At
  <2>2. \A a \in Stable : posted'[a] # Nil =>
            a \in lost \/ (store # Nil /\ a \in DOMAIN store /\ store[a] <= posted'[a])
    BY <1>5, <2>1 DEF Recorded, JustRecorded
  <2> QED BY <1>1, <1>2, <1>3, <1>4, <2>2 DEF Recorded, JustRecorded, At
<1>10. Unseen(new) = Unseen(runs[r])
  BY <1>1 DEF Unseen, new, RunType
<1>9. New'
  BY <1>1, <1>2, <1>3, <1>4, <1>10 DEF New, Fresh, At
<1> QED BY <1>7, <1>8, <1>9

\* A run that dies takes only its own work with it.
LEMMA DiesStep == ASSUME Inv, NEW r \in Run, Dies(r) PROVE Inv'
<1>1. faults' \in 0 .. MaxFaults /\ byHand' \in 0 .. MaxByHand
  BY WatchdogAssumption DEF Dies, Inv, Types
<1> QED BY <1>1, NoRunIsOne, RunGoesOn DEF Dies, bot

\* An alert is recorded: it is new to every other run at work, which is told so
\* by since; of the others, what had not expired is kept or lost.
LEMMA MarkStep ==
    ASSUME Inv, NEW r \in Run, NEW a \in runs[r].todo, NEW read \in BOOLEAN, Mark(r, a, read)
    PROVE  Inv'
<1> USE DEF Inv
<1> DEFINE own == Recordable(a)
           kept == IF read THEN OnRecord ELSE {}
           S == kept \cup own
<1>1. runs[r] \in RunType /\ runs[r].pc = "mark" /\ Ttl \in Nat \ {0}
  BY WatchdogAssumption DEF Types, Mark, At
<1>2. UNCHANGED <<config, host, posted, bot, changes, byHand>>
  BY DEF Mark
<1>3. /\ store' = [b \in S |-> IF b \in own THEN 0 ELSE store[b]]
      /\ lost' = (lost \cup (OnRecord \ kept)) \ own
      /\ runs' = [q \in Run |->
                     IF q = r THEN [runs[r] EXCEPT !.todo = @ \ {a}]
                     ELSE IF runs[q].pc \in {"idle", "create"} THEN runs[q]
                     ELSE [runs[q] EXCEPT !.since = @ \cup own]]
  BY Zenon DEF Mark
<1>4. store # Nil /\ \A b \in DOMAIN store : store[b] \in 0 .. Ttl
  BY <1>1 DEF There, StoreType
<1>5. /\ own \subseteq Stable /\ own = {a} \cap Stable
      /\ kept \subseteq OnRecord /\ OnRecord \subseteq Stable
      /\ \A b : b \in OnRecord <=> b \in Stable /\ Fresh(b)
  BY DEF Recordable, OnRecord
<1> HIDE DEF own, kept
<1>6. \A b \in kept : b \in DOMAIN store /\ store[b] < Ttl /\ store[b] \in 0 .. Ttl
  BY <1>4, <1>5 DEF Fresh
<1>7. store' \in [S -> 0 .. Ttl] /\ S \subseteq Stable
  BY <1>1, <1>3, <1>5, <1>6
<1>8. store' # Nil
  BY <1>7, NilAssumption
<1>9. lost' \subseteq Stable
  BY <1>3, <1>5 DEF Types
<1>10. \A q \in Run :
         /\ runs'[q].pc = runs[q].pc /\ runs'[q].found = runs[q].found
         /\ runs'[q] \in RunType
         /\ q # r => runs'[q].todo = runs[q].todo
         /\ (q # r /\ runs[q].pc \notin {"idle", "create"}) =>
                Unseen(runs'[q]) = Unseen(runs[q]) \cup own
         /\ q = r => /\ runs'[q].todo = runs[q].todo \ {a}
                     /\ Unseen(runs'[q]) = Unseen(runs[q])
  <2> TAKE q \in Run
  <2>0. runs[q] \in RunType
    BY DEF Types
  <2>1. CASE q = r
    BY <1>1, <1>3, <2>1 DEF RunType, Unseen
  <2>2. CASE q # r /\ runs[q].pc \in {"idle", "create"}
    BY <1>3, <2>0, <2>2
  <2>3. CASE q # r /\ runs[q].pc \notin {"idle", "create"}
    BY <1>3, <1>5, <2>0, <2>3 DEF RunType, Unseen
  <2> QED BY <2>1, <2>2, <2>3
<1>11. runs' \in [Run -> RunType]
  <2>1. runs' = [q \in Run |-> runs'[q]]
    BY <1>3
  <2> QED BY <1>10, <2>1
<1>12. faults' \in 0 .. MaxFaults
  BY ReadOrNotStep DEF Mark
<1>13. /\ DOMAIN store' = S
       /\ \A b \in own : store'[b] = 0
       /\ \A b \in S \ own : store'[b] = store[b]
  BY <1>3
<1>14. HostType' /\ StoreType' /\ There' /\ Types' /\ Cards'
  BY <1>2, <1>7, <1>8, <1>9, <1>11, <1>12 DEF HostType, StoreType, There, Types, Cards, bot
<1>15. /\ \A b \in own : JustRecorded(b)'
       /\ \A b \in Stable : b \in lost \/ Fresh(b) => b \in lost' \cup S
       /\ \A b \in Stable : b \in lost => b \in lost' \/ JustRecorded(b)'
       /\ \A b \in Stable : JustRecorded(b) => b \in lost' \/ JustRecorded(b)'
       /\ \A b : (b \notin own /\ Fresh(b)') => Fresh(b)
  <2>1. \A b \in own : JustRecorded(b)'
    BY <1>8, <1>13 DEF JustRecorded
  <2>2. \A b \in Stable : b \in lost \/ Fresh(b) => b \in lost' \cup S
    BY <1>3, <1>5
  <2>3. \A b \in Stable : b \in lost => b \in lost' \/ JustRecorded(b)'
    BY <1>3, <2>1
  <2>4. ASSUME NEW b \in Stable, JustRecorded(b), b \notin lost'
        PROVE  JustRecorded(b)'
    <3>1. b \in S
      BY <2>2, <2>4, JustIsFresh
    <3> QED BY <1>8, <1>13, <2>1, <2>4, <3>1 DEF JustRecorded
  <2>5. ASSUME NEW b, b \notin own, Fresh(b)'
        PROVE  Fresh(b)
    <3>1. b \in kept
      BY <1>13, <2>5 DEF Fresh
    <3> QED BY <1>5, <3>1
  <2> QED BY <2>1, <2>2, <2>3, <2>4, <2>5
<1>16. Recorded'
  <2>1. ASSUME NEW q \in Run, At(q, "mark")', NEW b \in runs'[q].found \cap Stable
        PROVE  b \in runs'[q].todo \cup lost' \/ JustRecorded(b)'
    <3>1. b \in runs[q].todo \cup lost \/ JustRecorded(b)
      BY <1>10, <2>1 DEF Recorded, At
    <3>2. CASE b \in lost \/ JustRecorded(b)
      BY <1>15, <3>2
    <3>3. CASE b \in runs[q].todo /\ b \notin runs'[q].todo
      <4>1. b \in own
        BY <1>5, <1>10, <3>3
      <4> QED BY <1>15, <4>1
    <3> QED BY <3>1, <3>2, <3>3
  <2>2. ASSUME NEW q \in Run, At(q, "send")', NEW b \in runs'[q].todo \cap Stable
        PROVE  b \in lost' \/ JustRecorded(b)'
    <3>1. At(q, "send") /\ q # r /\ b \in runs[q].todo
      BY <1>1, <1>10, <2>2 DEF At
    <3> QED BY <1>15, <2>2, <3>1 DEF Recorded
  <2>3. ASSUME NEW b \in Stable, posted'[b] # Nil, b \notin lost'
        PROVE  b \in DOMAIN store' /\ store'[b] <= posted'[b]
    <3>1. posted[b] # Nil /\ posted[b] \in 0 .. Ttl - 1 /\ posted'[b] = posted[b]
      BY <1>2, <2>3 DEF Types
    <3>2. CASE b \in own
      BY <1>1, <1>13, <3>1, <3>2
    <3>3. CASE b \notin own
      <4>1. b \notin lost
        BY <1>3, <2>3, <3>3
      <4>2. b \in DOMAIN store /\ store[b] \in 0 .. Ttl /\ store[b] <= posted[b]
        BY <1>4, <3>1, <4>1 DEF Recorded
      <4>3. b \in S
        BY <1>1, <1>4, <1>15, <2>3, <3>1, <4>2 DEF Fresh
      <4> QED BY <1>13, <3>1, <3>3, <4>2, <4>3
    <3> QED BY <3>2, <3>3
  <2> QED BY <1>8, <2>1, <2>2, <2>3 DEF Recorded
<1>17. New'
  <2>1. ASSUME NEW q \in Run, At(q, "look")', NEW b \in runs'[q].found \cap Stable, Fresh(b)'
        PROVE  b \in Unseen(runs'[q])
    <3>1. At(q, "look") /\ q # r /\ b \in runs[q].found
      BY <1>1, <1>10, <2>1 DEF At
    <3>2. Unseen(runs'[q]) = Unseen(runs[q]) \cup own
      BY <1>10, <3>1 DEF At
    <3> QED BY <1>15, <2>1, <3>1, <3>2 DEF New
  <2>2. ASSUME NEW q \in Run, At(q, "mark")', NEW b \in runs'[q].todo \cap Stable, Fresh(b)'
        PROVE  b \in Unseen(runs'[q])
    <3>1. At(q, "mark") /\ b \in runs[q].todo /\ (q = r => b \notin own)
      BY <1>5, <1>10, <2>2 DEF At
    <3>2. Unseen(runs[q]) \subseteq Unseen(runs'[q])
          /\ (q # r => own \subseteq Unseen(runs'[q]))
      BY <1>10, <3>1 DEF At
    <3> QED BY <1>15, <2>2, <3>1, <3>2 DEF New
  <2> QED BY <2>1, <2>2 DEF New
<1> QED BY <1>14, <1>16, <1>17

\* Every step of a run.
LEMMA RunSteps == ASSUME Inv, NEW r \in Run, Start(r) \/ RunStep(r) \/ Dies(r) PROVE Inv'
BY StartStep, CreateStep, ChecksStep, ProceedStep, LookUpStep, MarkStep, SendStep, DiesStep
   DEF RunStep

-----------------------------------------------------------------------------
(***************************************************************************)
(* The steps of the command, of the host and of time.                      *)
(***************************************************************************)

\* A step of the bot that leaves the store alone changes nothing for the runs.
LEMMA BotKeepsRuns ==
    ASSUME Inv, UNCHANGED <<run, store, lost>>
    PROVE  HostType' /\ StoreType' /\ There' /\ Recorded' /\ New'
BY DEF Inv, HostType, StoreType, There, Recorded, New, JustRecorded, Fresh, At, run

\* The operator gives the command.
LEMMA AskStep == ASSUME Inv, NEW a \in Stable \cup {Nil}, Ask(a) PROVE Inv'
<1> USE DEF Inv
<1>1. MaxCommands \in Nat /\ commands \in 0 .. MaxCommands
  BY WatchdogAssumption DEF Types
<1>2. /\ command.pc = "idle" /\ commands' = commands + 1 /\ commands < MaxCommands
      /\ UNCHANGED <<run, store, cards, lost>>
  BY DEF Ask, Handler
<1>3. command' \in CommandType /\ command'.pc \in {"create", "look"}
  BY DEF Ask, NoCommand, CommandType
<1>4. Types' /\ Cards'
  BY <1>1, <1>2, <1>3 DEF Types, Cards, run
<1> QED BY <1>2, <1>4, BotKeepsRuns

\* The command makes the store anew.
LEMMA AskCreatesStep == ASSUME Inv, AskCreates PROVE Inv'
<1> USE DEF Inv
<1>1. /\ Created /\ UNCHANGED <<run, cards, commands>> /\ command.pc = "create"
      /\ command' = [command EXCEPT !.pc = "look"]
  BY DEF AskCreates, Handler
<1>2. command' \in CommandType /\ command'.pc = "look" /\ command \in CommandType
  BY <1>1 DEF Types, CommandType
<1>3. StoreType' /\ lost' \subseteq Stable /\ store' # Nil
  BY <1>1, CreatedStore
<1>4. Recorded' /\ New'
  BY <1>1, CreatedKeeps DEF run, Types
<1>5. HostType' /\ There' /\ Types' /\ Cards'
  BY <1>1, <1>2, <1>3 DEF HostType, There, Types, Cards, run
<1> QED BY <1>3, <1>4, <1>5

\* A command made on an alert ends in a card only if there was none it could find.
LEMMA HandleStep ==
    ASSUME Inv, (\E read \in BOOLEAN : AskLooksUp(read)) \/ (\E fails \in BOOLEAN : AskSearches(fails))
           \/ (\E made \in BOOLEAN : AskPosts(made))
    PROVE  Inv'
<1> USE DEF Inv
<1>1. NoCommand \in CommandType /\ NoCommand.pc = "idle"
  BY DEF NoCommand, CommandType
<1>2. command \in CommandType /\ commands \in Nat /\ cards \in [Stable -> Nat]
  BY DEF Types, Cards
<1>3. ASSUME NEW read \in BOOLEAN, AskLooksUp(read)
      PROVE  Inv'
  <2>1. UNCHANGED <<run, store, cards, commands, lost>> /\ command.pc = "look"
    BY <1>3 DEF AskLooksUp, Handler
  <2>2. CASE read /\ Fresh(command.alert)
    <3>1. command' = [command EXCEPT !.pc = "search"]
      BY <1>3, <2>2 DEF AskLooksUp
    <3>2. command' \in CommandType /\ command'.pc = "search" /\ command'.alert = command.alert
      BY <1>2, <3>1 DEF CommandType
    <3>3. command.alert # Nil
      BY <2>2, NilIsNone DEF Fresh, StoreType
    <3>4. Types' /\ Cards'
      BY <2>1, <3>2, <3>3 DEF Types, Cards, run
    <3> QED BY <2>1, <3>4, BotKeepsRuns
  <2>3. CASE ~(read /\ Fresh(command.alert))
    <3>1. command' = NoCommand
      BY <1>3, <2>3 DEF AskLooksUp
    <3>2. Types' /\ Cards'
      BY <1>1, <2>1, <3>1 DEF Types, Cards, run
    <3> QED BY <2>1, <3>2, BotKeepsRuns
  <2> QED BY <2>2, <2>3
<1>4. ASSUME NEW fails \in BOOLEAN, AskSearches(fails)
      PROVE  Inv'
  <2> DEFINE blind == fails \/ ~Legible(command.alert)
  <2>1. UNCHANGED <<run, store, cards, commands, lost>> /\ command.pc = "search"
    BY <1>4 DEF AskSearches, Handler
  <2>2. command.alert \in Stable /\ command.alert # Nil
    BY <1>2, <2>1 DEF Types, CommandType
  <2>3. blind \in BOOLEAN
    OBVIOUS
  <2>4. command' = IF cards[command.alert] > 0 /\ ~blind THEN NoCommand
                   ELSE [command EXCEPT !.pc = "post", !.blind = blind]
    BY <1>4, Zenon DEF AskSearches
  <2> HIDE DEF blind
  <2>5. CASE cards[command.alert] > 0 /\ ~blind
    <3>1. Types' /\ Cards'
      BY <1>1, <2>1, <2>4, <2>5 DEF Types, Cards, run
    <3> QED BY <2>1, <3>1, BotKeepsRuns
  <2>6. CASE ~(cards[command.alert] > 0 /\ ~blind)
    <3>1. command' = [command EXCEPT !.pc = "post", !.blind = blind]
      BY <2>4, <2>6
    <3>2. /\ command' \in CommandType /\ command'.pc = "post"
          /\ command'.alert = command.alert /\ command'.blind = blind
      BY <1>2, <2>3, <3>1 DEF CommandType
    <3>3. ~blind => cards[command.alert] = 0
      BY <1>2, <2>2, <2>6
    <3>4. Types' /\ Cards'
      BY <2>1, <2>2, <3>2, <3>3 DEF Types, Cards, run
    <3> QED BY <2>1, <3>4, BotKeepsRuns
  <2> QED BY <2>5, <2>6
<1>5. ASSUME NEW made \in BOOLEAN, AskPosts(made)
      PROVE  Inv'
  <2>1. UNCHANGED <<run, store, commands, lost>> /\ command.pc = "post"
    BY <1>5 DEF AskPosts, Handler
  <2>2. command.alert \in Stable
    BY <1>2, <2>1 DEF Types, CommandType
  <2>3. /\ cards' \in [Stable -> Nat]
        /\ \A a \in Stable : cards'[a] = cards[a] \/ cards'[a] = cards[a] + 1
    BY <1>2, <1>5, <2>2 DEF AskPosts
  <2>4. \A a \in Stable : cards[a] < commands
    BY <2>1 DEF Cards
  <2>5. command' = NoCommand
    BY <1>5 DEF AskPosts
  <2>6. \A a \in Stable : cards'[a] <= commands
    BY <1>2, <2>3, <2>4
  <2>7. Types' /\ Cards'
    BY <1>1, <2>1, <2>3, <2>5, <2>6 DEF Types, Cards, run
  <2> QED BY <2>1, <2>7, BotKeepsRuns
<1> QED BY <1>3, <1>4, <1>5

\* A reading of the host changes.
LEMMA ChangeStep ==
    ASSUME Inv, NEW c \in Check, NEW i \in DOMAIN Readings[c], Change(c, i)
    PROVE  Inv'
<1> USE DEF Inv
<1>1. HostType'
  <2>1. PICK f \in [Check -> Nat] : host = f /\ \A d \in Check : f[d] \in DOMAIN Readings[d]
    BY DEF HostType
  <2>2. i \in Nat
    BY ReadingsThere
  <2> DEFINE g == [f EXCEPT ![c] = i]
  <2>3. host' = g
    BY <2>1 DEF Change
  <2>4. g \in [Check -> Nat] /\ \A d \in Check : g[d] \in DOMAIN Readings[d]
    BY <2>1, <2>2
  <2> QED BY <2>3, <2>4 DEF HostType
<1>2. UNCHANGED <<config, store, runs, posted, bot, lost, faults, byHand>>
  BY DEF Change
<1>3. changes' \in 0 .. MaxChanges
  BY WatchdogAssumption DEF Change, Types
<1>4. StoreType' /\ There' /\ Types' /\ Cards' /\ Recorded' /\ New'
  BY <1>2, <1>3 DEF StoreType, There, Types, Cards, Recorded, New, JustRecorded, Fresh, At, bot
<1> QED BY <1>1, <1>4

\* Time passes between runs: a record grows older with the post it is of.
LEMMA TickStep == ASSUME Inv, Tick PROVE Inv'
<1> USE DEF Inv
<1>1. /\ \A r \in Run : runs[r].pc = "idle"
      /\ UNCHANGED <<config, host, runs, bot, lost, faults, changes, byHand>>
  BY NoRunIsOne DEF Tick
<1>2. Ttl \in Nat \ {0}
  BY WatchdogAssumption
<1>3. /\ posted' \in [Stable -> 0 .. Ttl - 1 \cup {Nil}]
      /\ \A a \in Stable : posted'[a] # Nil =>
             posted[a] # Nil /\ posted[a] + 1 < Ttl /\ posted'[a] = posted[a] + 1
  <2>1. \A a \in Stable : posted[a] \in 0 .. Ttl - 1 \cup {Nil}
    BY DEF Types
  <2>2. \A a \in Stable : Older(posted[a]) \in 0 .. Ttl - 1 \cup {Nil}
    BY <1>2, <2>1 DEF Older
  <2>3. posted' = [a \in Stable |-> Older(posted[a])]
    BY DEF Tick
  <2>4. \A a \in Stable : Older(posted[a]) # Nil =>
            posted[a] # Nil /\ posted[a] + 1 < Ttl /\ Older(posted[a]) = posted[a] + 1
    BY <1>2, <2>1 DEF Older
  <2> QED BY <2>2, <2>3, <2>4
<1>4. StoreType'
  <2>1. CASE store = Nil
    BY <2>1 DEF Tick, StoreType
  <2>2. CASE store # Nil
    <3>1. PICK S \in SUBSET Stable : store \in [S -> 0 .. Ttl]
      BY <2>2 DEF StoreType
    <3>2. store' = [a \in S |-> IF store[a] = Ttl THEN Ttl ELSE store[a] + 1]
      BY <2>2, <3>1 DEF Tick
    <3>3. store' \in [S -> 0 .. Ttl]
      BY <1>2, <3>1, <3>2
    <3> QED BY <3>3 DEF StoreType
  <2> QED BY <2>1, <2>2
<1>5. ASSUME NEW a \in Stable, posted'[a] # Nil, a \notin lost
      PROVE  store' # Nil /\ a \in DOMAIN store' /\ store'[a] <= posted'[a]
  <2>1. /\ store # Nil /\ a \in DOMAIN store /\ store[a] <= posted[a]
        /\ posted[a] \in 0 .. Ttl - 1
    BY <1>3, <1>5 DEF Recorded, Types
  <2>2. PICK S \in SUBSET Stable : store \in [S -> 0 .. Ttl]
    BY <2>1 DEF StoreType
  <2>3. /\ store' = [b \in S |-> IF store[b] = Ttl THEN Ttl ELSE store[b] + 1]
        /\ store' \in [S -> 0 .. Ttl]
    BY <1>2, <2>1, <2>2 DEF Tick
  <2>4. store'[a] = store[a] + 1
    BY <1>2, <2>1, <2>2, <2>3
  <2>5. store' # Nil
    BY <2>3, NilAssumption
  <2> QED BY <1>3, <1>5, <2>1, <2>2, <2>3, <2>4, <2>5
<1>6. HostType' /\ There' /\ Types' /\ Cards'
  BY <1>1, <1>3 DEF HostType, There, Types, Cards, bot
<1>7. Recorded' /\ New'
  BY <1>1, <1>5 DEF Recorded, New, At
<1> QED BY <1>4, <1>6, <1>7

-----------------------------------------------------------------------------
(***************************************************************************)
(* The theorems.                                                           *)
(***************************************************************************)

\* It holds of a first start and of one that finds an empty store.
LEMMA Initially == Init => Inv
<1> SUFFICES ASSUME Init PROVE Inv
  OBVIOUS
<1>1. \A c \in Check : 1 \in DOMAIN Readings[c] /\ 1 \in Nat
  BY ReadingsThere
<1>2. HostType
  <2>1. Healthy \in [Check -> Nat] /\ \A c \in Check : Healthy[c] \in DOMAIN Readings[c]
    BY <1>1 DEF Healthy
  <2>2. /\ NewlyInstalled \in [Check -> Nat]
        /\ \A c \in Check : NewlyInstalled[c] \in DOMAIN Readings[c]
    BY <2>1, ReadingsThere DEF NewlyInstalled
  <2> QED BY <2>1, <2>2 DEF Init, HostType
<1>3. StoreType
  <2>1. <<>> \in [{} -> 0 .. Ttl] /\ {} \in SUBSET Stable
    OBVIOUS
  <2> QED BY <2>1 DEF Init, StoreType
<1>4. Types
  <2>1. NoCommand \in CommandType /\ NoCommand.pc = "idle"
    BY DEF NoCommand, CommandType
  <2>2. runs \in [Run -> RunType]
    BY NoRunIsOne DEF Init
  <2>3. /\ faults \in 0 .. MaxFaults /\ changes \in 0 .. MaxChanges
        /\ byHand \in 0 .. MaxByHand /\ commands \in 0 .. MaxCommands
    BY WatchdogAssumption DEF Init
  <2>4. config \in Configs /\ lost \subseteq Stable /\ posted \in [Stable -> 0 .. Ttl - 1 \cup {Nil}]
    BY DEF Init
  <2>5. command = NoCommand
    BY DEF Init
  <2> QED BY <2>1, <2>2, <2>3, <2>4, <2>5 DEF Types
<1>5. Cards
  BY DEF Init, Cards, NoCommand
<1>6. \A r \in Run : runs[r].pc = "idle"
  BY NoRunIsOne DEF Init
<1>7. There /\ Recorded /\ New
  BY <1>6 DEF Init, There, Recorded, New, At
<1> QED BY <1>2, <1>3, <1>4, <1>5, <1>7 DEF Inv

\* Every step keeps it.
LEMMA Inductive == Inv /\ [Next]_vars => Inv'
<1> SUFFICES ASSUME Inv, [Next]_vars PROVE Inv'
  OBVIOUS
<1>1. CASE UNCHANGED vars
  BY <1>1 DEF Inv, HostType, StoreType, There, Types, Cards, Recorded, New, JustRecorded,
              Fresh, At, vars
<1>2. CASE CommandStep
  BY <1>2, AskCreatesStep, HandleStep DEF CommandStep
<1> QED BY <1>1, <1>2, RunSteps, AskStep, ChangeStep, TickStep DEF Next

\* The invariant holds of every behaviour of the watchdog and its command.
THEOREM Invariance == Spec => []Inv
BY Initially, Inductive, PTL DEF Spec

\* Every variable holds what the code can put there.
THEOREM TypeCorrect == Spec => []TypeOK
<1>1. Inv => TypeOK
  <2> SUFFICES ASSUME Inv PROVE TypeOK
    OBVIOUS
  <2>1. \A c \in Check : host[c] \in DOMAIN Readings[c]
    BY DEF Inv, HostType
  <2>2. store # Nil =>
            DOMAIN store \subseteq Stable /\ \A a \in DOMAIN store : store[a] \in 0 .. Ttl
    BY DEF Inv, StoreType
  <2>3. cards \in [Stable -> 0 .. MaxCommands]
    BY WatchdogAssumption DEF Inv, Cards, Types
  <2> QED BY <2>1, <2>2, <2>3 DEF Inv, Types, TypeOK, RunType, CommandType
<1> QED BY <1>1, Invariance, PTL

\* What the chat was told within the day is on record, whatever run dies where,
\* unless that record was lost to a first start or to a run that could not read.
THEOREM PostedAlwaysRecorded == Spec => []PostedIsRecorded
<1>1. Inv => PostedIsRecorded
  <2> SUFFICES ASSUME Inv, NEW a \in Stable, posted[a] # Nil, a \notin lost PROVE Fresh(a)
    BY DEF PostedIsRecorded
  <2>1. /\ store # Nil /\ a \in DOMAIN store /\ store[a] <= posted[a]
        /\ posted[a] \in 0 .. Ttl - 1 /\ store[a] \in 0 .. Ttl
    BY DEF Inv, Recorded, Types, StoreType
  <2>2. Ttl \in Nat \ {0}
    BY WatchdogAssumption
  <2> QED BY <2>1, <2>2 DEF Fresh
<1> QED BY <1>1, Invariance, PTL

\* An outage on record is recorded again within the day only by a run that was
\* under way when it was recorded, or could not read the file when it asked.
THEOREM RepeatedOnlyUnseenAlways == Spec => RepeatedOnlyUnseen
<1>1. Inv /\ [Next]_vars =>
          [\A r \in Run, a, b \in Stable :
              /\ At(r, "mark") /\ a \in runs[r].todo /\ a \notin runs'[r].todo
              /\ SameOutage(a, b) /\ Fresh(b)
              => runs'[r] = NoRun \/ \E c \in runs[r].since \cup runs[r].unread : SameOutage(a, c)]_vars
  <2> SUFFICES ASSUME Inv, NEW r \in Run, NEW a \in Stable, NEW b \in Stable,
                      At(r, "mark"), a \in runs[r].todo, SameOutage(a, b), Fresh(b)
               PROVE  \E c \in runs[r].since \cup runs[r].unread : SameOutage(a, c)
    OBVIOUS
  <2>1. a = b
    BY OneOutage
  <2>2. a \in runs[r].since \cup runs[r].unread
    BY <2>1 DEF Inv, New, Unseen
  <2> QED BY <2>2 DEF SameOutage
<1> QED BY <1>1, Invariance, PTL DEF Spec, RepeatedOnlyUnseen

\* A second card for an alert is made only by a command that could not find the
\* first.
THEOREM OneCardAlways == Spec => OneCardPerAlert
<1>1. Inv /\ [Next]_vars =>
          [\A a \in Stable : cards[a] > 0 /\ cards'[a] > cards[a] => command.blind]_vars
  <2> SUFFICES ASSUME Inv, Next, NEW a \in Stable, cards[a] > 0, cards'[a] > cards[a]
               PROVE  command.blind
    BY DEF vars
  <2>1. cards \in [Stable -> Nat] /\ command \in CommandType
    BY DEF Inv, Cards, Types
  <2>2. cards' # cards
    BY <2>1
  <2>3. PICK made \in BOOLEAN : AskPosts(made)
    <3>1. ASSUME NEW q \in Run, Start(q) \/ RunStep(q) \/ Dies(q) PROVE UNCHANGED cards
      BY <3>1 DEF RunStep, Start, CreateStore, Checks, Proceed, LookUp, Mark, Send, Dies, bot
    <3>2. ASSUME CommandStep, \A made \in BOOLEAN : ~AskPosts(made) PROVE UNCHANGED cards
      BY <3>2 DEF CommandStep, AskCreates, AskLooksUp, AskSearches
    <3> QED BY <2>2, <3>1, <3>2 DEF Next, Ask, Change, Tick, bot
  <2>4. a = command.alert /\ command.pc = "post"
    BY <2>1, <2>3 DEF AskPosts, Handler
  <2> QED BY <2>1, <2>4 DEF Inv, Cards, CommandType
<1> QED BY <1>1, Invariance, PTL DEF Spec, OneCardPerAlert
=============================================================================
