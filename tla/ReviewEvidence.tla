--------------------------- MODULE ReviewEvidence ---------------------------
(***************************************************************************)
(* The evidence of a security review: collect-review-evidence.py reads a    *)
(* running box item by item, each by commands that can fail or hang, and    *)
(* prints one bundle; summarize-review-bundle.py reads the bundle and says  *)
(* "ok" or "LOOK" of it, line by line.  The box goes on while it is read:   *)
(* credentials are rotated, jobs come and go, the journal grows and loses   *)
(* its oldest entries, services are restarted and code is pulled.           *)
(*                                                                         *)
(* The items are those that a closing line relates to each other or to an   *)
(* earlier read: the credential sweep (D2.1), the journal's search and      *)
(* reach (D2.3, D2.4), the gateway (D4.1, D10.6), the running code (D4.6)   *)
(* and the jobs (D10.3, D10.7, D10.8).                                      *)
(***************************************************************************)
EXTENDS Naturals, Sequences, FiniteSets

CONSTANTS
    Jobs,
    Short,          \* credential values below the minimum length: not looked for
    Named,          \* those that hold a client's name, which the redactor rewrites
    MaxEvents,      \* changes of the box and commands that do not answer
    None,
    Unknown         \* could-not-check

\* A Google Ads file, found by the sweep alone; a file of OTHER_SECRET_NAMES; and
\* the environment of the running gateway.
Places == {"google", "other", "gateway"}

Secrets == [place : Places, n : 1 .. 2]

ASSUME ReviewAssumption ==
    /\ MaxEvents \in Nat /\ IsFiniteSet(Jobs)
    /\ Short \subseteq Secrets /\ Named \subseteq Secrets

VARIABLES
    version,        \* place of a credential -> which value it holds
    readable,       \* what can be read just now (the gateway: it runs)
    journal,        \* entries, the oldest first
    gone,           \* how many entries left the journal
    job,            \* job -> what there is of it on the box
    started,        \* service -> when it last started
    changed,        \* file in bin/ -> when it last changed
    behind,         \* service -> the files that changed since it started
    now,            \* in seconds: several things happen in one
    step,           \* of the collection
    child,          \* the command it runs
    known,          \* the credential values read: ctx["secrets"]
    memo,           \* what is asked once: ctx["job_sets"], ctx["sweep"], ...
    items,          \* the bundle
    out,            \* None, "printed" or "refused"
    steady,         \* what has not changed since the start (for the properties)
    events

box == <<version, readable, journal, gone, job, started, changed, behind, now>>
vars == <<box, step, child, known, memo, items, out, steady, events>>

Value(p) == [place |-> p, n |-> version[p]]

\* The jobs' description files, their directories and the code in bin/ can be
\* unreadable too.
Readables == Places \cup {"descriptions", "directories", "bin"}

Services == {"hermes-broker"} \cup Jobs

\* The script that a unit runs, and a module that the script imports.
LoadedFiles == {"script", "module"}

\* It runs older code than the box holds; the clock alone does not tell when all
\* of it changed in the second of the start.
Stale(s) == behind[s] # {}
SameSecond(s) == \A f \in behind[s] : changed[f] = started[s]

Installed == {j \in Jobs : job[j].loaded}

\* Journal entries are numbered from the first one there ever was.
Entry(unit, leak) == [unit |-> unit, leak |-> leak]
Numbers == gone + 1 .. gone + Len(journal)

\* Mutant: the oldest entry is read before the search.
StepsOldestFirst ==
    <<"other", "gateway", "D2.1", "oldest", "D2.3", "D2.4", "D4.1", "starts", "D4.6", "D10.3",
      "D10.6", "D10.7", "D10.8", "credentials", "fingerprint", "print">>

\* The order in which _collect() goes: the PROBES between what it reads before
\* and after them.  D2.3 and D4.6 read in two steps.
Steps == <<"other", "gateway", "D2.1", "D2.3", "oldest", "D2.4", "D4.1", "starts", "D4.6", "D10.3",
           "D10.6", "D10.7", "D10.8", "credentials", "fingerprint", "print">>

Probed == {"D2.1", "D2.3", "D2.4", "D4.1", "D4.6", "D10.3", "D10.6", "D10.7", "D10.8",
           "fingerprint", "credentials"}

JobItems == {"D10.3", "D10.7", "D10.8"}

Files == {"google", "other"}

\* What an item holds that was measured.
Lists == {Unknown} \cup SUBSET Jobs

\* `whole`: nothing of the entry is could-not-check.
OfJob(i) == [value : IF i = "D10.7" THEN Nat ELSE BOOLEAN, whole : BOOLEAN,
             declared : BOOLEAN, installed : BOOLEAN]

\* A line of the gateway's listing that holds a credential value: whole, or
\* without its end, or what the redactor left of it.
Text == [value : Secrets, part : {"whole", "cut", "rest"}]

Tables(S, T) == UNION {[R -> T] : R \in SUBSET S}

Measured(i) ==
    CASE i = "D2.1"  -> [unread : SUBSET Files, short : SUBSET Files]
      [] i = "D2.3"  -> [hits : Nat, entries : SUBSET Nat, oldest : {None, Unknown} \cup Nat]
      [] i = "D2.4"  -> [apps : {"measured", Unknown}]
      [] i = "D4.1"  -> [states : {"measured", Unknown}]
      [] i = "D4.6"  -> [declared : Lists, installed : Lists,
                         starts : Tables(Services, {Unknown} \cup Nat),
                         newer : Tables(Services, {Unknown} \cup SUBSET LoadedFiles)]
      [] i = "D10.6" -> [listing : {None, Unknown} \cup Text]
      [] i \in JobItems -> [declared : Lists, installed : Lists, disk : Lists,
                            apps : Tables(Jobs, OfJob(i))]
      [] OTHER -> {"complete", "incomplete", "listed"}

ASSUME NoneAssumption ==
    /\ None # Unknown
    /\ \A x \in {None, Unknown} :
         /\ x \notin Nat \cup {"measured", "done", "printed", "refused"} /\ x \notin Text
         /\ \A S \in (SUBSET Jobs) \cup SUBSET LoadedFiles : x # S
         /\ \A i \in Probed : x \notin Measured(i)

\* Any box: a file that changed after a start did so in its second or in a later
\* one.
Init ==
    /\ version \in [Places -> 1 .. 2] /\ readable \in [Readables -> BOOLEAN]
    /\ journal \in Seq([unit : {"system"} \cup Jobs, leak : {None} \cup Secrets]) /\ gone = 0
    /\ job \in [Jobs -> [declared : BOOLEAN, disk : BOOLEAN, loaded : BOOLEAN, ran : BOOLEAN]]
    /\ now \in Nat /\ started \in [Services -> 0 .. now] /\ changed \in [LoadedFiles -> 0 .. now]
    /\ behind \in [Services -> SUBSET LoadedFiles]
    /\ \A s \in Services, f \in LoadedFiles :
         /\ changed[f] > started[s] => f \in behind[s]
         /\ f \in behind[s] => changed[f] >= started[s]
    /\ step = 1 /\ child = "none" /\ known = {}
    /\ memo = [k \in {"declared", "installed", "disk", "sweep", "gateway", "oldest", "starts"} |-> None]
    /\ items = [i \in Probed |-> None]
    /\ out = None /\ events = 0
    /\ steady = [values |-> {Value(p) : p \in Places}, jobs |-> Installed,
                 stale |-> {s \in Services : Stale(s)}, same |-> {s \in Services : SameSecond(s)},
                 last |-> Len(journal)]

-----------------------------------------------------------------------------
(* The box changes.                                                        *)

Event == events < MaxEvents /\ events' = events + 1

\* What was so at the start and still is.
KeepSteady ==
    steady' = [steady EXCEPT
        !.values = {v \in @ : \E p \in Places : Value(p)' = v},
        !.jobs = @ \cap Installed',
        !.stale = {s \in @ : Stale(s)'}]

Rotate(p) ==
    /\ version' = [version EXCEPT ![p] = 3 - @]
    /\ UNCHANGED <<readable, journal, gone, job, started, changed, behind, now>>

\* Files cannot be read for a while; the gateway stops and starts.
Toggle(p) ==
    /\ readable' = [readable EXCEPT ![p] = ~@]
    /\ UNCHANGED <<version, journal, gone, job, started, changed, behind, now>>

Log(unit) ==
    /\ journal' = Append(journal, Entry(unit, None))
    /\ UNCHANGED <<version, readable, gone, job, started, changed, behind, now>>

Vacuum ==
    /\ journal # <<>>
    /\ journal' = Tail(journal) /\ gone' = gone + 1
    /\ UNCHANGED <<version, readable, job, started, changed, behind, now>>

LoadJob(j) ==
    /\ job' = [job EXCEPT ![j].loaded = ~@]
    /\ UNCHANGED <<version, readable, journal, gone, started, changed, behind, now>>

Tick == now' \in {now, now + 1}

Restart(s) ==
    /\ Tick /\ started' = [started EXCEPT ![s] = now'] /\ behind' = [behind EXCEPT ![s] = {}]
    /\ UNCHANGED <<version, readable, journal, gone, job, changed>>

Pull(f) ==
    /\ Tick /\ changed' = [changed EXCEPT ![f] = now']
    /\ behind' = [s \in Services |-> behind[s] \cup {f}]
    /\ UNCHANGED <<version, readable, journal, gone, job, started>>

BoxChanges ==
    /\ out = None /\ Event
    /\ \/ \E p \in Places : Rotate(p)
       \/ \E p \in Readables : Toggle(p)
       \/ \E unit \in {"system"} \cup Jobs : Log(unit)
       \/ Vacuum
       \/ \E j \in Jobs : LoadJob(j)
       \/ \E s \in Services : Restart(s)
       \/ \E f \in LoadedFiles : Pull(f)
    /\ KeepSteady /\ UNCHANGED <<step, child, known, memo, items, out>>

-----------------------------------------------------------------------------
(* One command: _run_real() and _RealStream.                               *)

At(s) == out = None /\ Steps[step] = s

Commands == {"gateway", "D2.1", "D2.3", "oldest", "D2.4", "D4.1", "starts", "D10.3", "D10.6",
             "D10.7", "fingerprint"}

Idle == UNCHANGED <<box, step, known, memo, items, out, steady>>

\* It exits with an error.
CommandFails ==
    /\ \E s \in Commands : At(s)
    /\ child = "none" /\ child' = "failed" /\ Event /\ Idle

CommandHangs ==
    /\ \E s \in Commands : At(s)
    /\ child = "none" /\ child' = "hung" /\ Event /\ Idle

\* TERM first: the child's own cleanup must get to run.
TimesOut == child = "hung" /\ child' = "asked" /\ UNCHANGED events /\ Idle

ChildEnds == child \in {"hung", "asked"} /\ child' = "failed" /\ UNCHANGED events /\ Idle

KillChild == child = "asked" /\ child' = "failed" /\ UNCHANGED events /\ Idle

Answered == child = "none"

\* The step is over; failed commands do not outlast it.
Ready(s) == At(s) /\ child \in {"none", "failed"}

Over == step' = step + 1 /\ child' = "none" /\ UNCHANGED <<box, out, steady, events>>

Note(i, data) == items' = [items EXCEPT ![i] = data]

-----------------------------------------------------------------------------
(* Credentials.                                                            *)

\* The answer, or the could-not-check, of the first time.
Once(key, answer) == IF memo[key] = None THEN answer ELSE memo[key]

\* other_credentials(), before the probes.
ReadOther ==
    /\ Ready("other")
    /\ known' = IF readable["other"] THEN known \cup {Value("other")} ELSE known
    /\ Note("credentials", IF readable["other"] THEN None ELSE Unknown)
    /\ UNCHANGED memo /\ Over

\* gateway_secret_env(), asked once.
ReadGateway ==
    /\ Ready("gateway")
    /\ IF readable["gateway"] /\ Answered
       THEN known' = known \cup {Value("gateway")} /\ memo' = [memo EXCEPT !["gateway"] = "measured"]
       ELSE memo' = [memo EXCEPT !["gateway"] = Unknown] /\ UNCHANGED known
    /\ UNCHANGED items /\ Over

ReadableFiles == {p \in Files : readable[p]}

\* A row for each file that find names.  Of the files of OTHER_SECRET_NAMES it
\* tells which hold a value that is too short to be searched for.
SweepRows ==
    [unread |-> Files \ ReadableFiles, short |-> {p \in ReadableFiles \ {"google"} : Value(p) \in Short}]

\* find over the whole root, and each file it names.
Sweep ==
    /\ Ready("D2.1")
    /\ memo' = [memo EXCEPT !["sweep"] = IF Answered THEN "done" ELSE Unknown]
    /\ Note("D2.1", IF Answered THEN SweepRows ELSE Unknown)
    /\ known' = IF Answered THEN known \cup {Value(p) : p \in ReadableFiles} ELSE known
    /\ Over

\* installed_credentials() once more, over the sweep that D2.1 made.
ReadAgain ==
    /\ Ready("credentials")
    /\ known' = IF memo["sweep"] # Unknown /\ readable["google"] THEN known \cup {Value("google")} ELSE known
    /\ Note("credentials", IF memo["sweep"] = Unknown THEN Unknown
                           ELSE IF items["credentials"] = Unknown THEN Unknown ELSE "listed")
    /\ UNCHANGED memo /\ Over

-----------------------------------------------------------------------------
(* The journal.                                                            *)

\* The values to look for.
Sought == known \ Short

Hits(units) == Cardinality({i \in DOMAIN journal : journal[i].unit \in units /\ journal[i].leak \in Sought})

\* _search_journal() over every entry.
SearchJournal ==
    /\ Ready("D2.3")
    /\ Note("D2.3", IF Answered THEN [hits |-> Hits({"system"} \cup Jobs), entries |-> Numbers,
                                      oldest |-> memo["oldest"]]
                    ELSE Unknown)
    /\ UNCHANGED <<known, memo>> /\ Over

\* The oldest entry, read after the search; none in an empty journal.
ReadOldest ==
    /\ Ready("oldest")
    /\ LET oldest == IF ~Answered THEN Unknown ELSE IF journal = <<>> THEN None ELSE gone + 1 IN
         /\ memo' = [memo EXCEPT !["oldest"] = oldest]
         /\ Note("D2.3", IF items["D2.3"] \in {None, Unknown} THEN items["D2.3"]
                         ELSE [items["D2.3"] EXCEPT !.oldest = oldest])
    /\ UNCHANGED known /\ Over

\* The jobs' description files (all of them load, or none counts), systemd's units
\* and the directories.
Declared == IF readable["descriptions"] THEN {j \in Jobs : job[j].declared} ELSE Unknown
OnDisk == IF readable["directories"] THEN {j \in Jobs : job[j].disk} ELSE Unknown

\* How far back the journal reaches, also for each job that is declared: the
\* first question about the jobs.
JournalReach ==
    /\ Ready("D2.4")
    /\ memo' = [memo EXCEPT !["declared"] = Once("declared", Declared)]
    /\ Note("D2.4", [apps |-> IF memo'["declared"] = Unknown \/ ~Answered THEN Unknown ELSE "measured"])
    /\ UNCHANGED known /\ Over

-----------------------------------------------------------------------------
(* The gateway and the running code.                                       *)

GatewayItem ==
    /\ Ready("D4.1")
    /\ Note("D4.1", IF readable["gateway"] /\ Answered THEN [states |-> memo["gateway"]] ELSE Unknown)
    /\ UNCHANGED <<known, memo>> /\ Over

\* The listing is the gateway's own text, which may hold any value, and is taken
\* only when the values to look for were measured.  A long line loses its end,
\* unless it holds one of those.
GatewayListing ==
    /\ Ready("D10.6")
    /\ \E text \in {None} \cup {[value |-> Value(p), part |-> part] : p \in Places, part \in {"whole", "cut"}} :
         /\ text # None /\ text.part = "cut" => text.value \notin Sought
         /\ Note("D10.6", [listing |-> IF memo["gateway"] = Unknown THEN Unknown
                                       ELSE IF readable["gateway"] /\ Answered THEN text ELSE None])
    /\ UNCHANGED <<known, memo>> /\ Over

Names(list) == IF list = Unknown THEN {} ELSE list

\* D4.6: when each service started, the brokers being those of the lists that
\* could be had.  One command that does not answer costs the list of units, or
\* one start.
ReadStarts ==
    /\ Ready("starts")
    /\ LET declared == Once("declared", Declared) IN
         \E lost \in IF Answered THEN {None} ELSE {"units"} \cup Services :
           LET units == Once("installed", IF lost = "units" THEN Unknown ELSE Installed)
               judged == {"hermes-broker"} \cup Names(declared) \cup Names(units)
           IN  memo' = [memo EXCEPT
                 !["declared"] = declared, !["installed"] = units,
                 !["starts"] = [s \in judged |->
                     IF s = lost \/ (s \in Jobs /\ ~job[s].loaded) THEN Unknown ELSE started[s]]]
    /\ UNCHANGED <<known, items>> /\ Over

\* Mutant: the modules that a script imports are not looked at.
NewerScript(start) ==
    IF start = Unknown \/ ~readable["bin"] THEN Unknown ELSE {f \in {"script"} : changed[f] > start}

\* _files_newer_than_start(), after the starts.
NewerThan(start) ==
    IF start = Unknown \/ ~readable["bin"] THEN Unknown ELSE {f \in LoadedFiles : changed[f] > start}

CodeItem ==
    /\ Ready("D4.6")
    /\ Note("D4.6", [declared |-> memo["declared"], installed |-> memo["installed"],
                     starts |-> memo["starts"],
                     newer |-> [s \in DOMAIN memo["starts"] |-> NewerThan(memo["starts"][s])]])
    /\ UNCHANGED <<known, memo>> /\ Over

-----------------------------------------------------------------------------
(* The jobs: one could-not-check set is one for every item of them.        *)

\* _jobs(): the directories are asked for when the other two could be had.
AskJobs ==
    memo' = [memo EXCEPT !["disk"] = IF Unknown \in {memo["declared"], memo["installed"]} THEN @
                                     ELSE Once("disk", OnDisk)]

JobSets == {memo["declared"], memo["installed"], memo'["disk"]}

\* _per_job(): what is measured, and what the lists say of the job.
PerJob(measure, whole) ==
    [j \in UNION JobSets |-> [value |-> measure[j], whole |-> j \in whole,
                              declared |-> j \in memo["declared"], installed |-> j \in memo["installed"]]]

\* A command that does not answer costs the item, or a value of one job.
JobItem(s, measure, whole) ==
    /\ Ready(s) /\ AskJobs
    /\ \E lost \in IF Answered THEN {None} ELSE {"item"} \cup Jobs :
         Note(s, IF Unknown \in JobSets \/ lost = "item" THEN Unknown
                 ELSE [declared |-> memo["declared"], installed |-> memo["installed"],
                       disk |-> memo'["disk"], apps |-> PerJob(measure, whole \ {lost})])
    /\ UNCHANGED known /\ Over

JobUnits == JobItem("D10.3", [j \in Jobs |-> TRUE], Jobs)

\* The journal of each job, all of it or none, and how far back it reaches.
JobJournals == JobItem("D10.7", [j \in Jobs |-> Hits({j})], Jobs)

\* The stored results; a job without a description or a directory has none to judge.
JobResults ==
    JobItem("D10.8", [j \in Jobs |-> job[j].ran],
            {j \in Names(memo["declared"]) : job[j].disk})

Fingerprint ==
    /\ Ready("fingerprint")
    /\ Note("fingerprint", IF Answered THEN "complete" ELSE "incomplete")
    /\ UNCHANGED <<known, memo>> /\ Over

-----------------------------------------------------------------------------
(* The bundle is printed, or nothing is.                                   *)

Listing == items["D10.6"].listing

\* The redactor rewrites the client's name inside a value.
Redacted(text) ==
    IF text \in [value : Named, part : {"whole"}] THEN [text EXCEPT !.part = "rest"] ELSE text

\* assert_no_secret()
HoldsSecret(text) == text \in [value : Sought, part : {"whole"}]

\* Mutant: only what is going to be printed is looked at.
PrintOnceChecked ==
    /\ At("print")
    /\ out' = IF HoldsSecret(Redacted(Listing)) THEN "refused" ELSE "printed"
    /\ UNCHANGED <<box, step, child, known, memo, items, steady, events>>

\* Looked at as collected and as redacted.
PrintBundle ==
    /\ At("print")
    /\ out' = IF HoldsSecret(Listing) \/ HoldsSecret(Redacted(Listing)) THEN "refused" ELSE "printed"
    /\ UNCHANGED <<box, step, child, known, memo, items, steady, events>>

Done == out # None /\ UNCHANGED vars

Collect ==
    \/ ReadOther \/ ReadGateway \/ Sweep \/ SearchJournal \/ ReadOldest \/ JournalReach
    \/ GatewayItem \/ ReadStarts \/ CodeItem \/ JobUnits \/ GatewayListing \/ JobJournals \/ JobResults
    \/ Fingerprint \/ ReadAgain \/ PrintBundle

Next ==
    \/ Collect \/ Done \/ BoxChanges
    \/ CommandFails \/ CommandHangs \/ TimesOut \/ ChildEnds \/ KillChild

Spec == Init /\ [][Next]_vars

-----------------------------------------------------------------------------
(* The closing list of summarize-review-bundle.py.                         *)

Observed(i) == items[i] # Unknown

\* What D10.3 lists as installed, and every entry that says it is.
Must == IF Observed("D10.3") THEN items["D10.3"].installed ELSE {}

Judged(i) == Must \cup {j \in DOMAIN items[i].apps : items[i].apps[j].installed}

\* Mutant: a value that could not be checked is let pass.
CheckedInPart(i, j) == j \in DOMAIN items[i].apps /\ items[i].apps[j].installed

Checked(i, j) ==
    /\ j \in DOMAIN items[i].apps
    /\ items[i].apps[j].installed /\ items[i].apps[j].whole

\* Ok only where there is a job to judge and each passes.
EachJob(i, good) ==
    /\ Observed(i) /\ Judged(i) # {}
    /\ \A j \in Judged(i) : Checked(i, j) /\ items[i].apps[j].value = good

AllObserved == \A i \in Probed \ {"credentials"} : Observed(i)

\* cnc_places(): the places inside the items.
NothingUnchecked ==
    /\ AllObserved /\ items["credentials"] # Unknown
    /\ items["D2.3"].oldest # Unknown /\ items["D2.4"].apps # Unknown
    /\ items["D4.1"].states # Unknown /\ items["D10.6"].listing # Unknown
    /\ items["D4.6"].declared # Unknown /\ items["D4.6"].installed # Unknown
    /\ \A s \in DOMAIN items["D4.6"].starts : items["D4.6"].starts[s] # Unknown
    /\ \A s \in DOMAIN items["D4.6"].newer : items["D4.6"].newer[s] # Unknown
    /\ \A i \in JobItems : \A j \in DOMAIN items[i].apps : items[i].apps[j].whole

JobsLine ==
    /\ Observed("D10.3")
    /\ LET lists == items["D10.3"] IN
         /\ lists.declared = lists.installed /\ lists.disk \subseteq lists.declared
         /\ lists.installed # {} /\ \A j \in Judged("D10.3") : Checked("D10.3", j)
         /\ \A i \in {k \in JobItems : Observed(k)} : \A j \in DOMAIN items[i].apps :
              /\ items[i].apps[j].declared = (j \in lists.declared)
              /\ items[i].apps[j].installed = (j \in lists.installed)

RunOkLine == EachJob("D10.8", TRUE)

SearchLine == Observed("D2.3") /\ items["D2.3"].entries # {} /\ items["D2.3"].oldest \notin {None, Unknown}

\* A hit in the journal of a job that is not installed counts too.
NoLeaksLine ==
    /\ Observed("D2.3") /\ items["D2.3"].hits = 0
    /\ EachJob("D10.7", 0)
    /\ \A j \in DOMAIN items["D10.7"].apps : items["D10.7"].apps[j].value = 0

CodeLine ==
    /\ Observed("D4.6") /\ Unknown \notin {items["D4.6"].declared, items["D4.6"].installed}
    /\ \A s \in {"hermes-broker"} \cup items["D4.6"].installed \cup Must :
         s \in DOMAIN items["D4.6"].newer /\ items["D4.6"].newer[s] = {}

-----------------------------------------------------------------------------
(* Properties                                                              *)

TypeOK ==
    /\ step \in 1 .. Len(Steps) /\ out \in {None, "printed", "refused"}
    /\ child \in {"none", "hung", "asked", "failed"}
    /\ known \subseteq Secrets
    /\ (child # "none" => \E s \in Commands : At(s))
    /\ \A k \in 1 .. step - 1 : Steps[k] \in Probed \ {"credentials"} => items[Steps[k]] # None

\* A leak is seen: when the search for leaks was made with every value, as the
\* items say, and reports none, no entry that was in the journal from the start to
\* the end holds a value that was in its place all along.  A value below the
\* minimum length is not searched for; D2.1 names those of the files of
\* OTHER_SECRET_NAMES, and no item the others.
LeakIsSeen ==
    /\ out = "printed" /\ NothingUnchecked
    /\ items["D2.1"].unread = {} /\ items["D2.1"].short = {} /\ NoLeaksLine
    => \A i \in DOMAIN journal : gone + i <= steady.last =>
         journal[i].leak \notin {v \in steady.values : v \in Short => v.place = "other"}

\* A job that was installed all along is judged by every line that is ok, also
\* one that no description file declares and one that was measured late, and none
\* of what the line is about could not be checked.
EveryJobIsJudged ==
    out = "printed" =>
        \A j \in steady.jobs :
            /\ JobsLine => j \in items["D10.3"].declared /\ items["D10.3"].apps[j].whole
            /\ RunOkLine => items["D10.8"].apps[j].value = TRUE /\ items["D10.8"].apps[j].whole
            /\ NoLeaksLine => items["D10.7"].apps[j].value = 0 /\ items["D10.7"].apps[j].whole
            /\ CodeLine => items["D4.6"].newer[j] = {}

\* The items of a bundle speak of one set of jobs, whatever came and went while
\* they were measured, and when it could not be had none of them has it.
OneJobSet ==
    /\ \A a, b \in {i \in JobItems : items[i] # None} :
         /\ items[a] # Unknown /\ items[b] # Unknown =>
              items[a].installed = items[b].installed /\ DOMAIN items[a].apps = DOMAIN items[b].apps
    /\ \A i \in JobItems : items["D4.6"] # None /\ items[i] \notin {None, Unknown} =>
         items["D4.6"].installed = items[i].installed

\* The bundle is about one set of jobs, and none of it goes unjudged.
JobsInv == TypeOK /\ OneJobSet /\ EveryJobIsJudged

\* Where the search reads ok, the journal was searched as far back as the bundle
\* says that it reaches, although entries left it between the two reads.
ReachIsSearched ==
    out = "printed" /\ SearchLine =>
        items["D2.3"].oldest .. steady.last \subseteq items["D2.3"].entries

\* A service that ran older code than the box held from the start to the end is
\* never covered by an ok line, unless all that had changed when the collection
\* began changed in the very second of its start.
StaleCodeIsSeen ==
    out = "printed" /\ CodeLine =>
        steady.stale \cap ({"hermes-broker"} \cup steady.jobs) \subseteq steady.same

\* The sweep had not read the value that its file held, or it was another by then.
ReadOnlyLater(v) ==
    /\ v.place = "google"
    /\ v \in steady.values => items["D2.1"] = Unknown \/ "google" \in items["D2.1"].unread

\* No value that was read as a credential and is not below the minimum length,
\* read before or after the text that holds it, is printed, nor what the redactor
\* left of one.  The beginning of one is, where the line was cut before the value
\* was read.
NothingReadIsPrinted ==
    out = "printed" /\ Redacted(Listing) \in Text =>
        LET text == Redacted(Listing) IN
          text.value \in Sought => text.part = "cut" /\ ReadOnlyLater(text.value)

\* Credentials: those in the journal are seen, those that were read stay inside.
SecretsInv == LeakIsSeen /\ NothingReadIsPrinted

=============================================================================
