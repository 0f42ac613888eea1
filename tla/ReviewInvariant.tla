--------------------------- MODULE ReviewInvariant ---------------------------
(***************************************************************************)
(* The inductive invariant of ReviewEvidence: what the collection has read *)
(* so far, and what that still says of a box that goes on.                 *)
(***************************************************************************)
EXTENDS ReviewEvidence

BoxTyped ==
    /\ version \in [Places -> 1 .. 2] /\ readable \in [Readables -> BOOLEAN]
    /\ journal \in Seq([unit : {"system"} \cup Jobs, leak : {None} \cup Secrets]) /\ gone \in Nat
    /\ job \in [Jobs -> [declared : BOOLEAN, disk : BOOLEAN, loaded : BOOLEAN, ran : BOOLEAN]]
    /\ started \in [Services -> Nat] /\ changed \in [LoadedFiles -> Nat] /\ now \in Nat
    /\ behind \in [Services -> SUBSET LoadedFiles]
    /\ steady \in [values : SUBSET Secrets, jobs : SUBSET Jobs, stale : SUBSET Services,
                   same : SUBSET Services, last : Nat]

\* The job lists are asked for with the journal's reach and with the starts, and
\* never again.
MemoTyped ==
    /\ DOMAIN memo = {"declared", "installed", "disk", "sweep", "gateway", "oldest", "starts"}
    /\ \A x \in {"declared", "installed", "disk"} :
         memo[x] \in {None, Unknown} \/ memo[x] \in SUBSET Jobs
    /\ memo["gateway"] \in {None, "measured", Unknown}
    /\ step > 2 => memo["gateway"] # None
    /\ step <= 5 => memo["oldest"] = None
    /\ step > 6 => memo["declared"] # None
    /\ step > 8 =>
         /\ memo["installed"] # None
         /\ DOMAIN memo["starts"] \subseteq Services
         /\ memo["starts"] \in [DOMAIN memo["starts"] -> {Unknown} \cup Nat]

Heard == UNION {memo["declared"], memo["installed"], memo["disk"]}

\* An item speaks of the lists that are kept, whichever command failed.
CodeTyped(d) ==
    /\ d = [declared |-> memo["declared"], installed |-> memo["installed"],
            starts |-> memo["starts"], newer |-> d.newer]
    /\ d.newer \in [DOMAIN memo["starts"] -> {Unknown} \cup SUBSET LoadedFiles]

JobTyped(i, d) ==
    /\ d = [declared |-> memo["declared"], installed |-> memo["installed"],
            disk |-> memo["disk"], apps |-> d.apps]
    /\ {d.declared, d.installed, d.disk} \subseteq SUBSET Jobs
    /\ d.apps \in [Heard -> OfJob(i)]
    /\ \A j \in Heard : d.apps[j].installed = (j \in d.installed)

ItemIs(i) ==
    /\ i \notin JobItems \cup {"D4.6"} => items[i] \in {None, Unknown} \cup Measured(i)
    /\ i = "D4.6" => items[i] = None \/ CodeTyped(items[i])
    /\ i \in JobItems => items[i] \in {None, Unknown} \/ JobTyped(i, items[i])
    /\ i = "D4.1" /\ items[i] \notin {None, Unknown} => items[i].states = memo["gateway"]

\* An item is noted in its step, and the credentials also before all others.
ItemsTyped ==
    /\ DOMAIN items = Probed
    /\ \A i \in Probed : ItemIs(i)
    /\ \A k \in step .. Len(Steps) :
         Steps[k] \in Probed \ {"credentials"} => items[Steps[k]] = None

\* What was so at the start and still is, and clocks that do not go back.
SteadyOK ==
    /\ steady.values \subseteq {Value(p) : p \in Places}
    /\ steady.jobs \subseteq Installed
    /\ \A s \in steady.stale : Stale(s)
    /\ \A s \in steady.stale \ steady.same : \E f \in LoadedFiles : changed[f] > started[s]
    /\ steady.last <= gone + Len(journal)
    /\ \A s \in Services : started[s] <= now
    /\ \A f \in LoadedFiles : changed[f] <= now

\* The value that the place has held all along has been read.
Held(p) == \A v \in steady.values : v.place = p => v \in known

\* Each claim that a place was read is about a value that is known since.
HeldOK ==
    /\ memo["gateway"] = "measured" => Held("gateway")
    /\ step > 1 /\ items["credentials"] # Unknown => Held("other")
    /\ items["D2.1"] \notin {None, Unknown} =>
         /\ "google" \notin items["D2.1"].unread => Held("google")
         /\ items["D2.1"].unread = {} /\ items["D2.1"].short = {} =>
              \A v \in steady.values : v.place = "other" => v \notin Short

\* The values that the search must find.
Searched == {v \in steady.values : v \in Short => v.place = "other"}

Gathered ==
    /\ memo["gateway"] = "measured" /\ items["credentials"] # Unknown
    /\ items["D2.1"] \notin {None, Unknown}
    /\ items["D2.1"].unread = {} /\ items["D2.1"].short = {}

\* What the search covered is what is left in the journal of the entries that
\* were there at the start, and what it looked for is all that was gathered.
SearchOK ==
    items["D2.3"] \notin {None, Unknown} =>
        /\ Gathered /\ items["D2.3"].hits = 0 =>
             \A i \in DOMAIN journal :
                 gone + i <= steady.last => journal[i].leak \notin Searched
        /\ gone + 1 .. steady.last \subseteq items["D2.3"].entries
        /\ items["D2.3"].oldest \notin {None, Unknown} =>
             items["D2.3"].oldest .. steady.last \subseteq items["D2.3"].entries

\* A start that was read is no later than the service's own.
CodeOK ==
    /\ step > 8 => \A s \in DOMAIN memo["starts"] :
         memo["starts"][s] # Unknown => memo["starts"][s] <= started[s]
    /\ items["D4.6"] # None => \A s \in (steady.stale \ steady.same) \cap DOMAIN memo["starts"] :
         items["D4.6"].newer[s] # {}

\* A job that was installed all along is in the list.
JobsOK == memo["installed"] \notin {None, Unknown} => steady.jobs \subseteq memo["installed"]

\* A line was cut before its value was read, and the one place that is read after
\* the listing had not been.
ListingOK ==
    /\ items["D10.6"] # Unknown
    /\ items["D10.6"] # None /\ Listing \in Text =>
         /\ Listing.part # "rest"
         /\ Listing.part = "cut" /\ Listing.value \in Sought => ReadOnlyLater(Listing.value)

\* The bundle is printed at the end, and only without a value that is known.
PrintOK ==
    /\ out # None => step = Len(Steps)
    /\ out = "printed" => ~HoldsSecret(Listing) /\ ~HoldsSecret(Redacted(Listing))

ReviewInv ==
    /\ TypeOK /\ BoxTyped /\ MemoTyped /\ ItemsTyped
    /\ SteadyOK /\ HeldOK /\ SearchOK /\ CodeOK /\ JobsOK /\ ListingOK /\ PrintOK

=============================================================================
