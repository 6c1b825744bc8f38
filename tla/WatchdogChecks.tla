--------------------------- MODULE WatchdogChecks ---------------------------
(***************************************************************************)
(* The nine checks of the watchdog (checks/*.py), as what each makes of    *)
(* one reading of the host: an alert, or Nil.  Readings holds, for each    *)
(* check, the readings that take it to every branch and to both sides of   *)
(* its threshold.                                                          *)
(***************************************************************************)
EXTENDS Integers, Sequences, FiniteSets

CONSTANT Nil  \* no alert, no value

Check == {"orphaned_worktrees", "hung_tmux", "solana_rpc", "turbo_balance", "disk_pressure",
          "master_drift", "stale_prs", "failed_attestation", "stale_lkg"}

\* What a check has seen is one alert as long as its key stays the same.  A
\* check that gives no alert_id has a new uuid4 for each alert it makes.
Uuid == {"uuid"}
Alert(check, key, severity) == [check |-> check, key |-> key, severity |-> severity]

\* The ids are hashes, and sanitize, which all that is sent passes through, cuts
\* out 32 and more hexadecimal digits in a row if none is 0: it may be a key.
\* The defaults determine four of the ids, and these two are hit; of the others,
\* about four in ten are.
Redacted == {<<"stale_lkg", {"missing"}>>, <<"failed_attestation", {"unreachable"}>>}
Legible(alert) == <<alert.check, alert.key>> \notin Redacted

-----------------------------------------------------------------------------
\* The defaults of the configuration, in hours, units of credit, GiB, percent
\* and days.
IdleHours == 12
MinBalance == 100
Budget == 50
Warn == 75
Crit == 90
StaleDays == 7

\* url_validator.validate_url: an address of this host, a private address, or a
\* host on the list, by http or https.
ValidUrl(url) ==
    /\ url.scheme \in {"http", "https"}
    /\ url.host \in {"local", "private", "listed"}

-----------------------------------------------------------------------------
\* dirs are the directories in worktrees_root, which are named for tasks, and
\* known the paths in state.json, none if it cannot be read.
OrphanedWorktrees(x) ==
    IF \E d \in x.dirs : d \notin x.known
    THEN Alert("orphaned_worktrees", Uuid, "warning") ELSE Nil

\* The hours each tmux session has been idle; none without tmux.
HungTmux(idle) ==
    IF \E hours \in idle : hours > IdleHours
    THEN Alert("hung_tmux", Uuid, "warning") ELSE Nil

\* What getHealth of the Solana RPC comes to.  An odd answer, JSON but no object,
\* raises past the handlers that make an alert: the check reports nothing.
SolanaRpc(x) ==
    IF ValidUrl(x.url) /\ x.health \notin {"ok", "odd"}
    THEN Alert("solana_rpc", {"rpc"}, "critical") ELSE Nil

\* The balance of the wallet: 0 if it never held any, Nil without an answer.  An
\* odd answer, no object or no number in it, raises past them as well.
TurboBalance(x) ==
    IF x.address /\ ValidUrl(x.url) /\ ~x.odd /\ (x.balance = Nil \/ x.balance < MinBalance)
    THEN Alert("turbo_balance", {"wallet"}, "warning") ELSE Nil

\* Used space of the file system, against its size or the budget.
DiskPressure(x) ==
    LET total == IF x.total < Budget THEN x.total ELSE Budget
        Over(threshold) == x.used * 100 >= threshold * total
    IN  IF total = 0 \/ ~Over(Warn) THEN Nil
        ELSE Alert("disk_pressure", Uuid, IF Over(Crit) THEN "critical" ELSE "warning")

\* Of each repository, the local master, origin's, and the tracking branch,
\* which is all there is to compare with when the fetch fails.
MasterDrift(repos) ==
    LET Remote(x) == IF x.fetched THEN x.origin ELSE x.tracking
    IN  IF \E x \in repos : x.local # Nil /\ Remote(x) # Nil /\ x.local # Remote(x)
        THEN Alert("master_drift", Uuid, "warning") ELSE Nil

\* The ages of the open pull requests, page by page; a page that fails is Nil,
\* and ends the list.
StalePrs(pages) ==
    IF \E i \in DOMAIN pages : /\ \A j \in 1 .. i : pages[j] # Nil
                               /\ \E days \in pages[i] : days > StaleDays
    THEN Alert("stale_prs", Uuid, "warning") ELSE Nil

\* What mnemonic_check_pending answers: nothing, something odd, or texts, each
\* with the ids of the failures in it.  The last text counts.
FailedAttestation(x) ==
    IF ~ValidUrl(x.url) THEN Nil
    ELSE CASE x.reply = "none" -> Alert("failed_attestation", {"unreachable"}, "warning")
           [] x.reply = "odd" -> Nil
           [] x.reply = "texts" ->
                IF x.texts = <<>> \/ x.texts[Len(x.texts)] = {} THEN Nil
                ELSE Alert("failed_attestation", x.texts[Len(x.texts)], "critical")

\* The days since the commit of the last-known-good tag; Nil without the tag,
\* and no reading without the repository or when git fails.
StaleLkg(x) ==
    IF ~x.repo THEN Nil
    ELSE IF x.days = Nil THEN Alert("stale_lkg", {"missing"}, "warning")
    ELSE IF x.days > StaleDays THEN Alert("stale_lkg", {"stale"}, "warning") ELSE Nil

\* check(config) of the module, by name.
Verdict(check, x) ==
    CASE check = "orphaned_worktrees" -> OrphanedWorktrees(x)
      [] check = "hung_tmux" -> HungTmux(x)
      [] check = "solana_rpc" -> SolanaRpc(x)
      [] check = "turbo_balance" -> TurboBalance(x)
      [] check = "disk_pressure" -> DiskPressure(x)
      [] check = "master_drift" -> MasterDrift(x)
      [] check = "stale_prs" -> StalePrs(x)
      [] check = "failed_attestation" -> FailedAttestation(x)
      [] check = "stale_lkg" -> StaleLkg(x)

-----------------------------------------------------------------------------
(***************************************************************************)
(* Readings for TLC, the first of each check a healthy host's.             *)
(***************************************************************************)

Local == [scheme |-> "http", host |-> "local"]
Listed == [scheme |-> "https", host |-> "listed"]
Refused == [scheme |-> "https", host |-> "public"]

Repo(local, origin, tracking, fetched) ==
    [local |-> local, origin |-> origin, tracking |-> tracking, fetched |-> fetched]

Wallet(address, odd, balance) ==
    [url |-> Listed, address |-> address, odd |-> odd, balance |-> balance]

Reply(reply, texts) == [url |-> Local, reply |-> reply, texts |-> texts]

Readings == [
    orphaned_worktrees |-> <<[dirs |-> {}, known |-> {}],
                             [dirs |-> {<<"T">>}, known |-> {<<"T", "repo">>}]>>,
    hung_tmux |-> <<{}, {0, IdleHours}, {0, IdleHours + 1}>>,
    solana_rpc |-> <<[url |-> Listed, health |-> "ok"], [url |-> Listed, health |-> "behind"],
                     [url |-> Listed, health |-> "unreachable"],
                     [url |-> Listed, health |-> "odd"], [url |-> Refused, health |-> "unreachable"]>>,
    turbo_balance |-> <<Wallet(TRUE, FALSE, MinBalance), Wallet(TRUE, FALSE, MinBalance - 1),
                        Wallet(TRUE, FALSE, Nil), Wallet(TRUE, TRUE, Nil),
                        Wallet(FALSE, FALSE, 0)>>,
    disk_pressure |-> <<[used |-> 37, total |-> 100], [used |-> 38, total |-> 100],
                        [used |-> 45, total |-> 50], [used |-> 0, total |-> 0]>>,
    master_drift |-> <<{Repo(1, 1, 1, TRUE)}, {Repo(1, 2, 1, TRUE), Repo(1, 1, 1, TRUE)},
                       {Repo(1, 2, 1, FALSE)}, {Repo(Nil, 1, 1, TRUE)}>>,
    stale_prs |-> <<<<{}>>, <<{1}, {StaleDays + 1}>>, <<{StaleDays}, Nil>>>>,
    failed_attestation |-> <<Reply("texts", <<{}>>), Reply("texts", <<{"a"}>>),
                             Reply("texts", <<{"a", "b"}>>), Reply("texts", <<{"a"}, {}>>),
                             Reply("none", <<>>), Reply("odd", <<>>)>>,
    stale_lkg |-> <<[repo |-> TRUE, days |-> StaleDays], [repo |-> TRUE, days |-> StaleDays + 1],
                    [repo |-> TRUE, days |-> Nil], [repo |-> FALSE, days |-> Nil]>>
    ]
=============================================================================
