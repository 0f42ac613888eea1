---------------------------- MODULE StoreProofs ----------------------------
(***************************************************************************)
(* Proofs about GovernanceStore, for every value of its constants.         *)
(***************************************************************************)
EXTENDS StoreInvariant, SequenceTheorems, TLAPS

-----------------------------------------------------------------------------
(***************************************************************************)
(* The table, and the updates of the record of the tool that runs.         *)
(***************************************************************************)
\* The table has these five entries.
LEMMA EntriesAre == Entries = {"store", "registry", "clients.json", "log", "seen"}
BY DEF Entries, Table

\* The entry that --apply makes next is one of those it is to make, and the
\* store's root if that is one.
LEMMA NextIsToDo ==
    ASSUME op.todo \subseteq Entries, op.todo # {}
    PROVE  /\ NextEntry \in op.todo /\ NextEntry \in Entries
           /\ "store" \in op.todo => NextEntry = "store"
<1>. DEFINE First(i) == Table[i] \in op.todo /\ \A j \in 1 .. i - 1 : Table[j] \notin op.todo
<1>1. DOMAIN Table = 1 .. 5
  BY DEF Table
<1>2. \E i \in 1 .. 5 : First(i)
  <2>1. CASE Table[1] \in op.todo
    BY <2>1
  <2>2. CASE Table[1] \notin op.todo /\ Table[2] \in op.todo
    BY <2>2
  <2>3. CASE Table[1] \notin op.todo /\ Table[2] \notin op.todo /\ Table[3] \in op.todo
    BY <2>3
  <2>4. CASE /\ Table[1] \notin op.todo /\ Table[2] \notin op.todo /\ Table[3] \notin op.todo
             /\ Table[4] \in op.todo
    BY <2>4
  <2>5. CASE /\ Table[1] \notin op.todo /\ Table[2] \notin op.todo /\ Table[3] \notin op.todo
             /\ Table[4] \notin op.todo /\ Table[5] \in op.todo
    BY <2>5
  <2>. QED
    BY <2>1, <2>2, <2>3, <2>4, <2>5, EntriesAre DEF Table
<1>3. PICK k \in 1 .. 5 : First(k) /\ NextEntry = Table[k]
  BY <1>1, <1>2 DEF NextEntry
<1>4. "store" \in op.todo => k = 1
  BY <1>3 DEF Table
<1>. QED
  BY <1>3, <1>4 DEF Table

\* Without its last element, a sequence keeps the others where they are.
LEMMA AllButLast ==
    ASSUME NEW S, NEW s \in Seq(S), s # <<>>
    PROVE  LET t == SubSeq(s, 1, Len(s) - 1) IN
             /\ t \in Seq(S) /\ Len(s) \in Nat /\ Len(s) > 0
             /\ DOMAIN t = 1 .. Len(s) - 1 /\ DOMAIN s = 1 .. Len(s)
             /\ \A i \in DOMAIN t : t[i] = s[i]
<1>1. Len(s) \in Nat /\ Len(s) > 0 /\ DOMAIN s = 1 .. Len(s)
  OBVIOUS
<1>2. \A i \in 1 .. Len(s) - 1 : s[i] \in S
  BY <1>1
<1>. DEFINE t == SubSeq(s, 1, Len(s) - 1)
<1>3. /\ t \in Seq(S) /\ Len(t) = IF 1 <= Len(s) - 1 THEN Len(s) - 1 - 1 + 1 ELSE 0
      /\ \A i \in 1 .. Len(s) - 1 - 1 + 1 : t[i] = s[1 + i - 1]
  BY <1>1, <1>2, SubSeqProperties
<1>4. DOMAIN t = 1 .. Len(t)
  BY <1>3
<1>. QED
  BY <1>1, <1>3, <1>4

\* No tool.
LEMMA NoToolIs ==
    /\ NoTool \in ToolRecords
    /\ NoTool.tool = None /\ NoTool.at = None /\ NoTool.todo = {} /\ NoTool.made = <<>>
    /\ NoTool.c = None /\ NoTool.noted = FALSE /\ NoTool.code = 0
BY DEF NoTool, ToolRecords

\* It is over, after what it did.
LEMMA EndIs ==
    ASSUME op \in ToolRecords, NEW n \in 0 .. 3, End(n)
    PROVE  /\ op' \in ToolRecords
           /\ op'.tool = op.tool /\ op'.at = "exit" /\ op'.todo = {} /\ op'.c = op.c
           /\ op'.made = <<>> /\ op'.noted = op.noted /\ op'.code = n
           /\ before' = before
<1>1. op' = [tool |-> op.tool, at |-> "exit", todo |-> {}, made |-> <<>>, c |-> op.c, n |-> 0,
              noted |-> op.noted, code |-> n]
  BY DEF End, NoTool
<1>2. <<>> \in Seq(Entries)
  OBVIOUS
<1>3. op' \in ToolRecords
  BY <1>1, <1>2 DEF ToolRecords, Steps
<1>4. /\ op'.tool = op.tool /\ op'.at = "exit" /\ op'.todo = {} /\ op'.c = op.c
      /\ op'.made = <<>> /\ op'.noted = op.noted /\ op'.code = n
  BY <1>1
<1>. QED
  BY <1>3, <1>4 DEF End

\* It goes to its next step.
LEMMA GotoIs ==
    ASSUME op \in ToolRecords, NEW at \in Steps, Goto(at)
    PROVE  /\ op' \in ToolRecords
           /\ op'.tool = op.tool /\ op'.at = at /\ op'.todo = op.todo /\ op'.c = op.c
           /\ op'.made = op.made /\ op'.noted = op.noted /\ op'.code = op.code
           /\ before' = before
BY DEF Goto, ToolRecords

\* --apply begins, or refuses an entry that is wrong.
LEMMA ApplyTool ==
    ASSUME Typed, Apply
    PROVE  /\ op = NoTool /\ op' \in ToolRecords
           /\ op'.tool = "apply" /\ op'.c = None /\ op'.made = <<>> /\ op'.noted = FALSE
           /\ \/ /\ op'.at = "create" /\ op'.todo = Missing /\ op'.code = 0
                 /\ before' = [entry |-> entry, reg |-> reg]
                 /\ \A e \in Entries : entry[e] \in {"missing", "ok"}
              \/ op'.at = "exit" /\ op'.todo = {} /\ op'.code = 2 /\ before' = before
<1>. <<>> \in Seq(Entries)
  OBVIOUS
<1>1. ASSUME Begin("apply", "create", Missing, None)
      PROVE  /\ op = NoTool /\ op' \in ToolRecords /\ before' = [entry |-> entry, reg |-> reg]
             /\ op'.tool = "apply" /\ op'.at = "create" /\ op'.todo = Missing /\ op'.c = None
             /\ op'.made = <<>> /\ op'.noted = FALSE /\ op'.code = 0
  <2>1. op' = [tool |-> "apply", at |-> "create", todo |-> Missing, made |-> <<>>,
               c |-> None, n |-> 0, noted |-> FALSE, code |-> 0]
    BY <1>1 DEF Begin, NoTool
  <2>2. op' \in ToolRecords
    BY <2>1 DEF ToolRecords, Tools, Steps, Missing
  <2>3. /\ op'.tool = "apply" /\ op'.at = "create" /\ op'.todo = Missing /\ op'.c = None
        /\ op'.made = <<>> /\ op'.noted = FALSE /\ op'.code = 0
    BY <2>1
  <2>. QED
    BY <1>1, <2>2, <2>3 DEF Begin
<1>2. ASSUME Decline("apply", None, 2)
      PROVE  /\ op = NoTool /\ op' \in ToolRecords /\ before' = before
             /\ op'.tool = "apply" /\ op'.at = "exit" /\ op'.todo = {} /\ op'.c = None
             /\ op'.made = <<>> /\ op'.noted = FALSE /\ op'.code = 2
  <2>1. op' = [tool |-> "apply", at |-> "exit", todo |-> {}, made |-> <<>>,
               c |-> None, n |-> 0, noted |-> FALSE, code |-> 2]
    BY <1>2 DEF Decline, NoTool
  <2>2. op' \in ToolRecords
    BY <2>1 DEF ToolRecords, Tools, Steps
  <2>3. /\ op'.tool = "apply" /\ op'.at = "exit" /\ op'.todo = {} /\ op'.c = None
        /\ op'.made = <<>> /\ op'.noted = FALSE /\ op'.code = 2
    BY <2>1
  <2>. QED
    BY <1>2, <2>2, <2>3 DEF Decline
<1>3. CASE \A e \in Entries : entry[e] \in {"missing", "ok"}
  BY <1>1, <1>3 DEF Apply
<1>4. CASE ~(\A e \in Entries : entry[e] \in {"missing", "ok"})
  BY <1>2, <1>4 DEF Apply
<1>. QED
  BY <1>3, <1>4

\* The migration begins.
LEMMA MigrateTool ==
    ASSUME Typed, Migrate
    PROVE  /\ op = NoTool /\ op' \in ToolRecords
           /\ op'.tool = "migrate" /\ op'.c = None /\ op'.made = <<>> /\ op'.noted = FALSE
           /\ op'.at = "registry" /\ op'.todo = {d \in Clients : vlog[d] # None} /\ op'.code = 0
           /\ before' = None
<1>. <<>> \in Seq(Entries)
  OBVIOUS
<1>1. ASSUME Begin("migrate", "registry", {d \in Clients : vlog[d] # None}, None)
      PROVE  /\ op = NoTool /\ op' \in ToolRecords /\ before' = None
             /\ op'.tool = "migrate" /\ op'.at = "registry"
             /\ op'.todo = {d \in Clients : vlog[d] # None} /\ op'.c = None
             /\ op'.made = <<>> /\ op'.noted = FALSE /\ op'.code = 0
  <2>1. op' = [tool |-> "migrate", at |-> "registry",
               todo |-> {d \in Clients : vlog[d] # None}, made |-> <<>>,
               c |-> None, n |-> 0, noted |-> FALSE, code |-> 0]
    BY <1>1 DEF Begin, NoTool
  <2>2. op' \in ToolRecords
    BY <2>1 DEF ToolRecords, Tools, Steps
  <2>3. /\ op'.tool = "migrate" /\ op'.at = "registry"
        /\ op'.todo = {d \in Clients : vlog[d] # None} /\ op'.c = None
        /\ op'.made = <<>> /\ op'.noted = FALSE /\ op'.code = 0
    BY <2>1
  <2>. QED
    BY <1>1, <2>2, <2>3 DEF Begin
<1>. QED
  BY <1>1 DEF Migrate

\* The bootstrap begins, or refuses.
LEMMA BootstrapTool ==
    ASSUME Typed, Bootstrap
    PROVE  /\ op = NoTool /\ op' \in ToolRecords
           /\ op'.tool = "bootstrap" /\ op'.c = None /\ op'.made = <<>> /\ op'.noted = FALSE
           /\ \/ /\ op'.at = "logs" /\ op'.todo = Registered /\ op'.code = 0
                 /\ before' = None
                 /\ LogDirOk
              \/ op'.at = "exit" /\ op'.todo = {} /\ op'.code = 2 /\ before' = before
<1>. <<>> \in Seq(Entries)
  OBVIOUS
<1>1. ASSUME Begin("bootstrap", "logs", Registered, None)
      PROVE  /\ op = NoTool /\ op' \in ToolRecords /\ before' = None
             /\ op'.tool = "bootstrap" /\ op'.at = "logs" /\ op'.todo = Registered /\ op'.c = None
             /\ op'.made = <<>> /\ op'.noted = FALSE /\ op'.code = 0
  <2>1. op' = [tool |-> "bootstrap", at |-> "logs", todo |-> Registered, made |-> <<>>,
               c |-> None, n |-> 0, noted |-> FALSE, code |-> 0]
    BY <1>1 DEF Begin, NoTool
  <2>2. op' \in ToolRecords
    BY <2>1 DEF ToolRecords, Tools, Steps, Registered
  <2>3. /\ op'.tool = "bootstrap" /\ op'.at = "logs" /\ op'.todo = Registered /\ op'.c = None
        /\ op'.made = <<>> /\ op'.noted = FALSE /\ op'.code = 0
    BY <2>1
  <2>. QED
    BY <1>1, <2>2, <2>3 DEF Begin
<1>2. ASSUME Decline("bootstrap", None, 2)
      PROVE  /\ op = NoTool /\ op' \in ToolRecords /\ before' = before
             /\ op'.tool = "bootstrap" /\ op'.at = "exit" /\ op'.todo = {} /\ op'.c = None
             /\ op'.made = <<>> /\ op'.noted = FALSE /\ op'.code = 2
  <2>1. op' = [tool |-> "bootstrap", at |-> "exit", todo |-> {}, made |-> <<>>,
               c |-> None, n |-> 0, noted |-> FALSE, code |-> 2]
    BY <1>2 DEF Decline, NoTool
  <2>2. op' \in ToolRecords
    BY <2>1 DEF ToolRecords, Tools, Steps
  <2>3. /\ op'.tool = "bootstrap" /\ op'.at = "exit" /\ op'.todo = {} /\ op'.c = None
        /\ op'.made = <<>> /\ op'.noted = FALSE /\ op'.code = 2
    BY <2>1
  <2>. QED
    BY <1>2, <2>2, <2>3 DEF Decline
<1>3. CASE LogDirOk /\ reg.kind \notin {"absent", "broken"}
  BY <1>1, <1>3 DEF Bootstrap
<1>4. CASE ~(LogDirOk /\ reg.kind \notin {"absent", "broken"})
  BY <1>2, <1>4 DEF Bootstrap
<1>. QED
  BY <1>3, <1>4

\* register-client begins, or refuses.
LEMMA RegisterTool ==
    ASSUME Typed, NEW x \in Clients, Register(x)
    PROVE  /\ op = NoTool /\ op' \in ToolRecords
           /\ op'.tool = "register" /\ op'.c = x /\ op'.made = <<>> /\ op'.noted = FALSE
           /\ \/ /\ op'.at = "install" /\ op'.todo = {} /\ op'.code = 0
                 /\ before' = None
                 /\ newfile' /\ reg.kind = "clients"
              \/ op'.at = "exit" /\ op'.todo = {} /\ op'.code = 1 /\ before' = before
<1>. <<>> \in Seq(Entries)
  OBVIOUS
<1>1. ASSUME Begin("register", "install", {}, x)
      PROVE  /\ op = NoTool /\ op' \in ToolRecords /\ before' = None
             /\ op'.tool = "register" /\ op'.at = "install" /\ op'.todo = {} /\ op'.c = x
             /\ op'.made = <<>> /\ op'.noted = FALSE /\ op'.code = 0
  <2>1. op' = [tool |-> "register", at |-> "install", todo |-> {}, made |-> <<>>,
               c |-> x, n |-> 0, noted |-> FALSE, code |-> 0]
    BY <1>1 DEF Begin, NoTool
  <2>2. op' \in ToolRecords
    BY <2>1 DEF ToolRecords, Tools, Steps
  <2>3. /\ op'.tool = "register" /\ op'.at = "install" /\ op'.todo = {} /\ op'.c = x
        /\ op'.made = <<>> /\ op'.noted = FALSE /\ op'.code = 0
    BY <2>1
  <2>. QED
    BY <1>1, <2>2, <2>3 DEF Begin
<1>2. ASSUME Decline("register", x, 1)
      PROVE  /\ op = NoTool /\ op' \in ToolRecords /\ before' = before
             /\ op'.tool = "register" /\ op'.at = "exit" /\ op'.todo = {} /\ op'.c = x
             /\ op'.made = <<>> /\ op'.noted = FALSE /\ op'.code = 1
  <2>1. op' = [tool |-> "register", at |-> "exit", todo |-> {}, made |-> <<>>,
               c |-> x, n |-> 0, noted |-> FALSE, code |-> 1]
    BY <1>2 DEF Decline, NoTool
  <2>2. op' \in ToolRecords
    BY <2>1 DEF ToolRecords, Tools, Steps
  <2>3. /\ op'.tool = "register" /\ op'.at = "exit" /\ op'.todo = {} /\ op'.c = x
        /\ op'.made = <<>> /\ op'.noted = FALSE /\ op'.code = 1
    BY <2>1
  <2>. QED
    BY <1>2, <2>2, <2>3 DEF Decline
<1>3. CASE ~(reg.kind # "clients" \/ x \in Registered \/ newfile)
  BY <1>1, <1>3 DEF Register
<1>4. CASE ~(~(reg.kind # "clients" \/ x \in Registered \/ newfile))
  BY <1>2, <1>4 DEF Register
<1>. QED
  BY <1>3, <1>4

\* vault-purge begins, or refuses.
LEMMA PurgeTool ==
    ASSUME Typed, NEW x \in Clients, Purge(x)
    PROVE  /\ op = NoTool /\ op' \in ToolRecords
           /\ op'.tool = "purge" /\ op'.c = x /\ op'.made = <<>> /\ op'.noted = FALSE
           /\ \/ /\ op'.at = "export" /\ op'.todo = {} /\ op'.code = 0
                 /\ before' = None
                 /\ x \in Registered
              \/ op'.at = "exit" /\ op'.todo = {} /\ op'.code = 2 /\ before' = before
<1>. <<>> \in Seq(Entries)
  OBVIOUS
<1>1. ASSUME Begin("purge", "export", {}, x)
      PROVE  /\ op = NoTool /\ op' \in ToolRecords /\ before' = None
             /\ op'.tool = "purge" /\ op'.at = "export" /\ op'.todo = {} /\ op'.c = x
             /\ op'.made = <<>> /\ op'.noted = FALSE /\ op'.code = 0
  <2>1. op' = [tool |-> "purge", at |-> "export", todo |-> {}, made |-> <<>>,
               c |-> x, n |-> 0, noted |-> FALSE, code |-> 0]
    BY <1>1 DEF Begin, NoTool
  <2>2. op' \in ToolRecords
    BY <2>1 DEF ToolRecords, Tools, Steps
  <2>3. /\ op'.tool = "purge" /\ op'.at = "export" /\ op'.todo = {} /\ op'.c = x
        /\ op'.made = <<>> /\ op'.noted = FALSE /\ op'.code = 0
    BY <2>1
  <2>. QED
    BY <1>1, <2>2, <2>3 DEF Begin
<1>2. ASSUME Decline("purge", x, 2)
      PROVE  /\ op = NoTool /\ op' \in ToolRecords /\ before' = before
             /\ op'.tool = "purge" /\ op'.at = "exit" /\ op'.todo = {} /\ op'.c = x
             /\ op'.made = <<>> /\ op'.noted = FALSE /\ op'.code = 2
  <2>1. op' = [tool |-> "purge", at |-> "exit", todo |-> {}, made |-> <<>>,
               c |-> x, n |-> 0, noted |-> FALSE, code |-> 2]
    BY <1>2 DEF Decline, NoTool
  <2>2. op' \in ToolRecords
    BY <2>1 DEF ToolRecords, Tools, Steps
  <2>3. /\ op'.tool = "purge" /\ op'.at = "exit" /\ op'.todo = {} /\ op'.c = x
        /\ op'.made = <<>> /\ op'.noted = FALSE /\ op'.code = 2
    BY <2>1
  <2>. QED
    BY <1>2, <2>2, <2>3 DEF Decline
<1>3. CASE x \in Registered /\ vault[x] # "gone"
  BY <1>1, <1>3 DEF Purge
<1>4. CASE ~(x \in Registered /\ vault[x] # "gone")
  BY <1>2, <1>4 DEF Purge
<1>. QED
  BY <1>3, <1>4

\* It makes an entry.
LEMMA CreateEntryTool ==
    ASSUME Typed, ToolTyped, CreateEntry
    PROVE  /\ op' \in ToolRecords /\ before' = before
           /\ op'.tool = op.tool /\ op'.at = "finish" /\ op'.todo = op.todo
           /\ op'.made = Append(op.made, NextEntry) /\ op'.c = op.c
           /\ op'.noted = op.noted /\ op'.code = op.code
<1>1. op' = [tool |-> op.tool, at |-> "finish", todo |-> op.todo,
             made |-> Append(op.made, NextEntry),
              c |-> op.c, n |-> op.n, noted |-> op.noted, code |-> op.code]
  BY DEF ToolTyped, ToolRecords, CreateEntry
<1>2. op' \in ToolRecords
  <2>1. NextEntry \in Entries
    BY NextIsToDo DEF ToolTyped, Running, CreateEntry
  <2>2. op.made \in Seq(Entries) /\ Append(op.made, NextEntry) \in Seq(Entries)
    BY <2>1 DEF ToolTyped, ToolRecords
  <2>. QED
    BY <1>1, <2>2 DEF ToolTyped, ToolRecords, Steps
<1>3. /\ op'.tool = op.tool /\ op'.at = "finish" /\ op'.todo = op.todo
      /\ op'.made = Append(op.made, NextEntry) /\ op'.c = op.c
      /\ op'.noted = op.noted /\ op'.code = op.code
  BY <1>1
<1>. QED
  BY <1>2, <1>3 DEF CreateEntry

\* It finishes one.
LEMMA FinishEntryTool ==
    ASSUME Typed, ToolTyped, FinishEntry
    PROVE  /\ op' \in ToolRecords /\ before' = before
           /\ op'.tool = op.tool /\ op'.at = "create" /\ op'.todo = op.todo \ {NextEntry}
           /\ op'.made = op.made /\ op'.c = op.c
           /\ op'.noted = op.noted /\ op'.code = op.code
<1>1. op' = [tool |-> op.tool, at |-> "create", todo |-> op.todo \ {NextEntry}, made |-> op.made,
              c |-> op.c, n |-> op.n, noted |-> op.noted, code |-> op.code]
  BY DEF ToolTyped, ToolRecords, FinishEntry
<1>2. op' \in ToolRecords
  BY <1>1 DEF ToolTyped, ToolRecords, Steps, Typed, Running, FinishEntry
<1>3. /\ op'.tool = op.tool /\ op'.at = "create" /\ op'.todo = op.todo \ {NextEntry}
      /\ op'.made = op.made /\ op'.c = op.c
      /\ op'.noted = op.noted /\ op'.code = op.code
  BY <1>1
<1>. QED
  BY <1>2, <1>3 DEF FinishEntry

\* It leaves a log that is there.
LEMMA SkipLogTool ==
    ASSUME Typed, ToolTyped, NEW x \in Clients, SkipLog(x)
    PROVE  /\ op' \in ToolRecords /\ before' = before
           /\ op'.tool = op.tool /\ op'.at = op.at /\ op'.todo = op.todo \ {x}
           /\ op'.made = op.made /\ op'.c = op.c
           /\ op'.noted = op.noted /\ op'.code = op.code
<1>1. op' = [tool |-> op.tool, at |-> op.at, todo |-> op.todo \ {x}, made |-> op.made,
              c |-> op.c, n |-> op.n, noted |-> op.noted, code |-> op.code]
  BY DEF ToolTyped, ToolRecords, SkipLog
<1>2. op' \in ToolRecords
  BY <1>1 DEF ToolTyped, ToolRecords, Steps, Typed, Running, SkipLog
<1>3. /\ op'.tool = op.tool /\ op'.at = op.at /\ op'.todo = op.todo \ {x}
      /\ op'.made = op.made /\ op'.c = op.c
      /\ op'.noted = op.noted /\ op'.code = op.code
  BY <1>1
<1>. QED
  BY <1>2, <1>3 DEF SkipLog

\* It goes on after the seal.
LEMMA SealTool ==
    ASSUME Typed, ToolTyped, Seal
    PROVE  /\ op' \in ToolRecords /\ before' = before
           /\ op'.tool = op.tool /\ op'.at = "logs" /\ op'.todo = op.todo \ {op.c}
           /\ op'.made = op.made /\ op'.c = None
           /\ op'.noted = op.noted /\ op'.code = op.code
<1>1. op' = [tool |-> op.tool, at |-> "logs", todo |-> op.todo \ {op.c}, made |-> op.made,
              c |-> None, n |-> 0, noted |-> op.noted, code |-> op.code]
  BY DEF ToolTyped, ToolRecords, Seal
<1>2. op' \in ToolRecords
  BY <1>1 DEF ToolTyped, ToolRecords, Steps, Typed, Running, Seal
<1>3. /\ op'.tool = op.tool /\ op'.at = "logs" /\ op'.todo = op.todo \ {op.c}
      /\ op'.made = op.made /\ op'.c = None
      /\ op'.noted = op.noted /\ op'.code = op.code
  BY <1>1
<1>. QED
  BY <1>2, <1>3 DEF Seal

\* It takes back the entry it made last, or says that it cannot.
LEMMA RollbackTool ==
    ASSUME Typed, ToolTyped, Rollback
    PROVE  /\ op' \in ToolRecords /\ before' = before
           /\ op'.tool = op.tool /\ op'.at = op.at /\ op'.todo = op.todo /\ op'.c = op.c
           /\ op.made # <<>> /\ op'.made = SubSeq(op.made, 1, Len(op.made) - 1)
           /\ \/ op'.noted = op.noted
              \/ op'.noted = TRUE /\ UNCHANGED <<entry, reg>>
           /\ op'.code = op.code
<1>1. op.made # <<>> /\ op.made \in Seq(Entries)
  BY DEF ToolTyped, ToolRecords, Rollback
<1>2. PICK m \in Seq(Entries) : m = SubSeq(op.made, 1, Len(op.made) - 1)
  BY <1>1, AllButLast
<1>3. PICK b \in BOOLEAN :
        /\ op' = [tool |-> op.tool, at |-> op.at, todo |-> op.todo, made |-> m,
                  c |-> op.c, n |-> op.n, noted |-> b, code |-> op.code]
        /\ \/ b = op.noted
           \/ b = TRUE /\ UNCHANGED <<entry, reg>>
  BY <1>2 DEF ToolTyped, ToolRecords, Rollback
<1>4. op' \in ToolRecords
  BY <1>3 DEF ToolTyped, ToolRecords
<1>5. /\ op'.tool = op.tool /\ op'.at = op.at /\ op'.todo = op.todo /\ op'.c = op.c
      /\ op'.made = m /\ op'.noted = b /\ op'.code = op.code
  BY <1>3
<1>. QED
  BY <1>1, <1>2, <1>3, <1>4, <1>5 DEF Rollback

\* It has copied a log.
LEMMA CopyLogTool ==
    ASSUME Typed, ToolTyped, NEW x \in Clients, CopyLog(x)
    PROVE  /\ op' \in ToolRecords /\ before' = before
           /\ op'.tool = op.tool /\ op'.at = "count" /\ op'.todo = op.todo
           /\ op'.made = op.made /\ op'.c = x
           /\ op'.noted = op.noted /\ op'.code = op.code
<1>1. vlog[x] \in VaultLogs
  BY DEF CopyLog, Typed, ToolTyped, Running
<1>2. PICK k \in Nat :
        op' = [tool |-> op.tool, at |-> "count", todo |-> op.todo, made |-> op.made,
               c |-> x, n |-> k, noted |-> op.noted, code |-> op.code]
  <2>1. /\ vlog[x].recs \in Nat
        /\ vlog[x].recs > 0 => vlog[x].recs - 1 \in Nat
    BY <1>1, StoreAssumption DEF VaultLogs
  <2>2. ASSUME NEW k \in Nat, op' = [op EXCEPT !.at = "count", !.c = x, !.n = k]
        PROVE  op' = [tool |-> op.tool, at |-> "count", todo |-> op.todo, made |-> op.made,
                      c |-> x, n |-> k, noted |-> op.noted, code |-> op.code]
    BY <2>2 DEF ToolTyped, ToolRecords
  <2>. QED
    BY <2>1, <2>2 DEF CopyLog
<1>3. op' \in ToolRecords
  BY <1>2 DEF ToolTyped, ToolRecords, Steps
<1>4. /\ op'.tool = op.tool /\ op'.at = "count" /\ op'.todo = op.todo
      /\ op'.made = op.made /\ op'.c = x
      /\ op'.noted = op.noted /\ op'.code = op.code
  BY <1>2
<1>. QED
  BY <1>3, <1>4 DEF CopyLog

\* It makes an empty log, or leaves one that is there.
LEMMA CreateLogTool ==
    ASSUME Typed, ToolTyped, NEW x \in Clients, CreateLog(x)
    PROVE  /\ op' \in ToolRecords /\ before' = before
           /\ op'.tool = op.tool /\ op'.made = op.made
           /\ op'.noted = op.noted /\ op'.code = op.code
           /\ IF slog[x] # None
              THEN op'.at = op.at /\ op'.todo = op.todo \ {x} /\ op'.c = op.c
              ELSE op'.at = "verify" /\ op'.todo = op.todo /\ op'.c = x
<1>1. CASE slog[x] # None
  <2>1. op' = [tool |-> op.tool, at |-> op.at, todo |-> op.todo \ {x}, made |-> op.made,
               c |-> op.c, n |-> op.n, noted |-> op.noted, code |-> op.code]
    BY <1>1 DEF CreateLog, ToolTyped, ToolRecords
  <2>2. op' \in ToolRecords
    BY <2>1 DEF ToolTyped, ToolRecords
  <2>3. /\ op'.tool = op.tool /\ op'.at = op.at /\ op'.todo = op.todo \ {x}
        /\ op'.made = op.made /\ op'.c = op.c
        /\ op'.noted = op.noted /\ op'.code = op.code
    BY <2>1
  <2>. QED
    BY <1>1, <2>2, <2>3 DEF CreateLog
<1>2. CASE slog[x] = None
  <2>1. op' = [tool |-> op.tool, at |-> "verify", todo |-> op.todo, made |-> op.made,
               c |-> x, n |-> op.n, noted |-> op.noted, code |-> op.code]
    BY <1>2 DEF CreateLog, ToolTyped, ToolRecords
  <2>2. op' \in ToolRecords
    BY <2>1 DEF ToolTyped, ToolRecords, Steps
  <2>3. /\ op'.tool = op.tool /\ op'.at = "verify" /\ op'.todo = op.todo
        /\ op'.made = op.made /\ op'.c = x
        /\ op'.noted = op.noted /\ op'.code = op.code
    BY <2>1
  <2>. QED
    BY <1>2, <2>2, <2>3 DEF CreateLog
<1>. QED
  BY <1>1, <1>2

-----------------------------------------------------------------------------
(***************************************************************************)
(* The steps, by who takes them.                                           *)
(***************************************************************************)
ApplyStep == Apply \/ CreateEntry \/ FinishEntry \/ EntryFails \/ Rollback \/ EndApply

LogStep ==
    \/ Migrate \/ MigrateRegistry \/ SwapRegistry \/ RenameLog \/ UnmakeLogDir \/ EndLogs
    \/ \E c \in Clients : CopyLog(c) \/ SkipLog(c) \/ RefuseLog(c) \/ MakeLogDir(c) \/ CreateLog(c)
    \/ Bootstrap \/ VerifyLog \/ Seal \/ SealFails \/ Unlog \/ MigrateFails

BookStep ==
    \/ \E c \in Clients : Register(c) \/ Purge(c)
    \/ Install \/ InstallFails \/ Export \/ Delete \/ Book \/ Flip \/ BookkeepingFails

HandStep ==
    \/ \E e \in Entries : Repair(e) \/ Spoil(e)
    \/ HandRegistry
    \/ \E c \in Clients : MendLog(c) \/ Truncate(c)

RunStep == RunRecords \/ \E c \in Clients : RunStarts(c)

OverStep == Exit \/ Kill

\* Every step is one of these.
LEMMA StepIs == Next => ApplyStep \/ LogStep \/ BookStep \/ HandStep \/ RunStep \/ OverStep
BY DEF Next, ToolStep, FollowUp, ApplyStep, LogStep, BookStep, HandStep, RunStep, OverStep

\* By hand, and in a run, no tool moves; one that is over leaves none.
LEMMA ToolRests ==
    /\ HandStep => op = NoTool /\ UNCHANGED <<op, before>>
    /\ RunStep => UNCHANGED <<op, before>>
    /\ OverStep => op' = NoTool /\ before' = None
BY DEF HandStep, Repair, Spoil, HandRegistry, MendLog, Truncate, RunStep, RunRecords, RunStarts,
       OverStep, Exit, Kill

-----------------------------------------------------------------------------
(***************************************************************************)
(* The tool that runs.                                                     *)
(***************************************************************************)
LEMMA AppliesTyped ==
    ASSUME Typed, ToolTyped, ApplyStep
    PROVE  ToolTyped'
<1>. USE EntriesAre, NoneAssumption DEF Typed, ToolTyped, Running, Steps, Tools, logs, vaults
<1>1. CASE Apply
  BY <1>1, ApplyTool, NoToolIs DEF Apply, Missing
<1>2. CASE CreateEntry
  BY <1>2, CreateEntryTool DEF CreateEntry
<1>3. CASE FinishEntry
  BY <1>3, FinishEntryTool DEF FinishEntry
<1>4. CASE EntryFails
  BY <1>4, GotoIs DEF EntryFails
<1>5. CASE Rollback
  BY <1>5, RollbackTool DEF Rollback
<1>6. CASE EndApply
  BY <1>6, EndIs DEF EndApply
<1>. QED
  BY <1>1, <1>2, <1>3, <1>4, <1>5, <1>6 DEF ApplyStep

LEMMA LogsTyped ==
    ASSUME Typed, ToolTyped, LogStep
    PROVE  ToolTyped'
<1>. USE NoneAssumption DEF Typed, ToolTyped, Running, Steps, Tools, logs, vaults
<1>1. CASE Migrate
  BY <1>1, MigrateTool, NoToolIs DEF Migrate
<1>2. CASE MigrateRegistry
  BY <1>2, GotoIs DEF MigrateRegistry
<1>3. CASE SwapRegistry
  BY <1>3, GotoIs DEF SwapRegistry
<1>4. CASE RenameLog
  BY <1>4, GotoIs DEF RenameLog
<1>5. CASE UnmakeLogDir
  BY <1>5, EndIs DEF UnmakeLogDir
<1>6. CASE EndLogs
  BY <1>6, EndIs DEF EndLogs
<1>7. ASSUME NEW c \in Clients, CopyLog(c)
      PROVE  ToolTyped'
  BY <1>7, CopyLogTool DEF CopyLog
<1>17. ASSUME NEW c \in Clients, SkipLog(c)
       PROVE  ToolTyped'
  BY <1>17, SkipLogTool DEF SkipLog
<1>8. ASSUME NEW c \in Clients, RefuseLog(c)
      PROVE  ToolTyped'
  BY <1>8, EndIs DEF RefuseLog
<1>9. ASSUME NEW c \in Clients, MakeLogDir(c)
      PROVE  ToolTyped'
  BY <1>9, GotoIs DEF MakeLogDir
<1>10. ASSUME NEW c \in Clients, CreateLog(c)
       PROVE  ToolTyped'
  BY <1>10, CreateLogTool DEF CreateLog
<1>11. CASE Bootstrap
  BY <1>11, BootstrapTool, NoToolIs DEF Bootstrap, Registered
<1>12. CASE VerifyLog
  BY <1>12, GotoIs DEF VerifyLog
<1>13. CASE Seal
  BY <1>13, SealTool, NoToolIs DEF Seal
<1>14. CASE SealFails
  BY <1>14, GotoIs, NoToolIs DEF SealFails
<1>15. CASE Unlog
  BY <1>15, EndIs, NoToolIs DEF Unlog
<1>16. CASE MigrateFails
  BY <1>16, EndIs DEF MigrateFails
<1>. QED
  BY <1>1, <1>2, <1>3, <1>4, <1>5, <1>6, <1>7, <1>8, <1>9, <1>10, <1>11, <1>12, <1>13,
     <1>14, <1>15, <1>16, <1>17 DEF LogStep

LEMMA BooksTyped ==
    ASSUME Typed, ToolTyped, BookStep
    PROVE  ToolTyped'
<1>. USE NoneAssumption DEF Typed, ToolTyped, Running, Steps, Tools, logs, vaults
<1>1. ASSUME NEW c \in Clients, Register(c)
      PROVE  ToolTyped'
  BY <1>1, RegisterTool, NoToolIs DEF Register
<1>5. ASSUME NEW c \in Clients, Purge(c)
      PROVE  ToolTyped'
  BY <1>5, PurgeTool, NoToolIs DEF Purge
<1>2. CASE Install \/ InstallFails \/ BookkeepingFails
  BY <1>2, EndIs DEF Install, InstallFails, BookkeepingFails
<1>3. CASE Export \/ Delete
  BY <1>3, EndIs, GotoIs DEF Export, Delete
<1>4. CASE Book \/ Flip
  BY <1>4, EndIs, GotoIs DEF Book, Flip
<1>. QED
  BY <1>1, <1>2, <1>3, <1>4, <1>5 DEF BookStep

LEMMA ToolTypedKept ==
    ASSUME Typed, ToolTyped, Next
    PROVE  ToolTyped'
<1>1. CASE HandStep \/ RunStep
  <2>1. UNCHANGED <<op, before, vlog>>
    BY <1>1, ToolRests DEF HandStep, Repair, Spoil, HandRegistry, MendLog, Truncate, RunStep,
       RunRecords, RunStarts, vaults
  <2>. QED
    BY <2>1 DEF ToolTyped
<1>2. CASE OverStep
  BY <1>2, ToolRests, NoToolIs, NoneAssumption DEF ToolTyped, Steps, Tools, NoTool
<1>. QED
  BY <1>1, <1>2, AppliesTyped, LogsTyped, BooksTyped, StepIs

-----------------------------------------------------------------------------
(***************************************************************************)
(* What a step can do to each part of the state.                           *)
(***************************************************************************)
\* The steps that change a row of the table.
LEMMA EntryFrame ==
    Next => \/ UNCHANGED entry
            \/ CreateEntry \/ FinishEntry \/ Rollback \/ MigrateRegistry \/ SwapRegistry
            \/ UnmakeLogDir \/ Install \/ Flip \/ HandRegistry
            \/ \E c \in Clients : MakeLogDir(c)
            \/ \E e \in Entries : Repair(e) \/ Spoil(e)
<1>. USE DEF logs, vaults
<1>1. ApplyStep => UNCHANGED entry \/ CreateEntry \/ FinishEntry \/ Rollback
  BY DEF ApplyStep, Apply, EntryFails, EndApply
<1>2. LogStep => \/ UNCHANGED entry \/ MigrateRegistry \/ SwapRegistry \/ UnmakeLogDir
                 \/ \E c \in Clients : MakeLogDir(c)
  BY DEF LogStep, Migrate, RenameLog, EndLogs, CopyLog, SkipLog, RefuseLog, CreateLog, Bootstrap,
         VerifyLog, Seal, SealFails, Unlog, MigrateFails
<1>3. BookStep => UNCHANGED entry \/ Install \/ Flip
  BY DEF BookStep, Register, Purge, InstallFails, Export, Delete, Book, BookkeepingFails
<1>4. HandStep => \/ UNCHANGED entry \/ HandRegistry
                  \/ \E e \in Entries : Repair(e) \/ Spoil(e)
  BY DEF HandStep, MendLog, Truncate
<1>5. RunStep \/ OverStep => UNCHANGED entry
  BY DEF RunStep, RunRecords, RunStarts, OverStep, Exit, Kill
<1>. QED
  BY <1>1, <1>2, <1>3, <1>4, <1>5, StepIs

\* The steps that change the registry.
LEMMA RegistryFrame ==
    Next => \/ UNCHANGED reg
            \/ CreateEntry \/ FinishEntry \/ Rollback \/ SwapRegistry
            \/ Install \/ Flip \/ HandRegistry
<1>. USE DEF logs, vaults
<1>1. ApplyStep => UNCHANGED reg \/ CreateEntry \/ FinishEntry \/ Rollback
  BY DEF ApplyStep, Apply, EntryFails, EndApply
<1>2. LogStep => UNCHANGED reg \/ SwapRegistry
  BY DEF LogStep, Migrate, RenameLog, EndLogs, CopyLog, SkipLog, RefuseLog, CreateLog, Bootstrap,
         VerifyLog, Seal, SealFails, Unlog, MigrateFails, MigrateRegistry, UnmakeLogDir, MakeLogDir
<1>3. BookStep => UNCHANGED reg \/ Install \/ Flip
  BY DEF BookStep, Register, Purge, InstallFails, Export, Delete, Book, BookkeepingFails
<1>4. HandStep => UNCHANGED reg \/ HandRegistry
  BY DEF HandStep, MendLog, Truncate, Repair, Spoil
<1>5. RunStep \/ OverStep => UNCHANGED reg
  BY DEF RunStep, RunRecords, RunStarts, OverStep, Exit, Kill
<1>. QED
  BY <1>1, <1>2, <1>3, <1>4, <1>5, StepIs

\* The steps that change a log of the store, or what it was ever given.
LEMMA LogsFrame ==
    Next => \/ UNCHANGED logs
            \/ RenameLog \/ Seal \/ SealFails \/ Unlog \/ RunRecords
            \/ \E c \in Clients : CreateLog(c) \/ MendLog(c) \/ Truncate(c)
<1>1. ApplyStep => UNCHANGED logs
  BY DEF ApplyStep, Apply, EntryFails, EndApply, CreateEntry, FinishEntry, Rollback
<1>2. LogStep => \/ UNCHANGED logs \/ RenameLog \/ Seal \/ SealFails \/ Unlog
                 \/ \E c \in Clients : CreateLog(c)
  BY DEF LogStep, Migrate, EndLogs, CopyLog, SkipLog, RefuseLog, Bootstrap, SwapRegistry,
         VerifyLog, MigrateFails, MigrateRegistry, UnmakeLogDir, MakeLogDir
<1>3. BookStep => UNCHANGED logs
  BY DEF BookStep, Register, Purge, Install, InstallFails, Export, Delete, Book, Flip,
         BookkeepingFails
<1>4. HandStep => UNCHANGED logs \/ \E c \in Clients : MendLog(c) \/ Truncate(c)
  BY DEF HandStep, HandRegistry, Repair, Spoil
<1>5. RunStep \/ OverStep => UNCHANGED logs \/ RunRecords
  BY DEF RunStep, RunStarts, OverStep, Exit, Kill
<1>. QED
  BY <1>1, <1>2, <1>3, <1>4, <1>5, StepIs

\* The steps that change a vault, its export or the book of deletions.
LEMMA VaultsFrame == Next => UNCHANGED vaults \/ Export \/ Delete \/ Book
<1>1. ApplyStep => UNCHANGED vaults
  BY DEF ApplyStep, Apply, EntryFails, EndApply, CreateEntry, FinishEntry, Rollback
<1>2. LogStep => UNCHANGED vaults
  BY DEF LogStep, Migrate, EndLogs, CopyLog, SkipLog, RefuseLog, Bootstrap, SwapRegistry,
         VerifyLog, MigrateFails, MigrateRegistry, UnmakeLogDir, MakeLogDir, RenameLog, Seal,
         SealFails, Unlog, CreateLog
<1>3. BookStep => UNCHANGED vaults \/ Export \/ Delete \/ Book
  BY DEF BookStep, Register, Purge, Install, InstallFails, Flip, BookkeepingFails
<1>4. HandStep => UNCHANGED vaults
  BY DEF HandStep, HandRegistry, Repair, Spoil, MendLog, Truncate
<1>5. RunStep \/ OverStep => UNCHANGED vaults
  BY DEF RunStep, RunStarts, RunRecords, OverStep, Exit, Kill
<1>. QED
  BY <1>1, <1>2, <1>3, <1>4, <1>5, StepIs

\* The steps that begin and end the executor's run.
LEMMA RunFrame == Next => UNCHANGED exec \/ RunRecords \/ \E c \in Clients : RunStarts(c)
<1>. USE DEF logs, vaults
<1>1. ApplyStep => UNCHANGED exec
  BY DEF ApplyStep, Apply, EntryFails, EndApply, CreateEntry, FinishEntry, Rollback
<1>2. LogStep => UNCHANGED exec
  BY DEF LogStep, Migrate, EndLogs, CopyLog, SkipLog, RefuseLog, Bootstrap, SwapRegistry,
         VerifyLog, MigrateFails, MigrateRegistry, UnmakeLogDir, MakeLogDir, RenameLog, Seal,
         SealFails, Unlog, CreateLog
<1>3. BookStep => UNCHANGED exec
  BY DEF BookStep, Register, Purge, Install, InstallFails, Flip, BookkeepingFails, Export,
         Delete, Book
<1>4. HandStep => UNCHANGED exec
  BY DEF HandStep, HandRegistry, Repair, Spoil, MendLog, Truncate
<1>5. OverStep => UNCHANGED exec
  BY DEF OverStep, Exit, Kill
<1>. QED
  BY <1>1, <1>2, <1>3, <1>4, <1>5, StepIs DEF RunStep

-----------------------------------------------------------------------------
(***************************************************************************)
(* Types.                                                                  *)
(***************************************************************************)
\* A registry of one kind, without clients.
LEMMA RegistryTyped ==
    ASSUME NEW k \in {"absent", "bare", "broken", "clients"}
    PROVE  /\ Registry(k) \in Registries /\ Registry(k).kind = k
           /\ \A c \in Clients : Registry(k).of[c] = "none"
BY DEF Registry, Registries, Statuses

\* A registry with another status for a client.
LEMMA StatusTyped ==
    ASSUME NEW g \in Registries, NEW c \in Clients, NEW s \in Statuses
    PROVE  LET h == [g EXCEPT !.of[c] = s] IN
             /\ h \in Registries /\ h.kind = g.kind
             /\ \A d \in Clients : h.of[d] = IF d = c THEN s ELSE g.of[d]
<1>1. g = [kind |-> g.kind, of |-> g.of] /\ g.of \in [Clients -> Statuses]
  BY DEF Registries
<1>. DEFINE h == [g EXCEPT !.of[c] = s]
<1>2. h = [kind |-> g.kind, of |-> [g.of EXCEPT ![c] = s]]
  BY <1>1
<1>3. [g.of EXCEPT ![c] = s] \in [Clients -> Statuses]
  BY <1>1
<1>4. h \in Registries
  BY <1>1, <1>2, <1>3 DEF Registries
<1>. QED
  BY <1>1, <1>2, <1>4

LEMMA EntryTyped ==
    ASSUME Typed, ToolTyped, Next
    PROVE  entry' \in [Entries -> Rows("log")]
<1>1. entry \in [Entries -> Rows("log")]
  BY DEF Typed
<1>2. /\ "store" \in Entries /\ "registry" \in Entries /\ "clients.json" \in Entries
      /\ "log" \in Entries
  BY EntriesAre
<1>3. /\ {"missing", "closed", "open", "ok"} \subseteq Rows("log")
      /\ \A e \in Entries : Rows(e) \subseteq Rows("log")
  BY DEF Rows
<1>4. CASE CreateEntry \/ FinishEntry \/ Rollback
  BY <1>1, <1>3, <1>4 DEF CreateEntry, FinishEntry, Rollback
<1>5. CASE MigrateRegistry
  <2>1. \/ entry' = entry
        \/ /\ entry' \in [Entries -> Rows("log")]
    BY <1>1, <1>2, <1>3, <1>5 DEF MigrateRegistry
  <2>. QED
    BY <1>1, <2>1
<1>6. CASE SwapRegistry \/ UnmakeLogDir \/ Install \/ Flip \/ HandRegistry
  BY <1>1, <1>3, <1>6 DEF SwapRegistry, UnmakeLogDir, Install, Flip, HandRegistry
<1>7. CASE \E c \in Clients : MakeLogDir(c)
  BY <1>1, <1>2, <1>3, <1>7 DEF MakeLogDir
<1>8. CASE \E e \in Entries : Repair(e) \/ Spoil(e)
  BY <1>1, <1>3, <1>8 DEF Repair, Spoil
<1>. QED
  BY <1>1, <1>4, <1>5, <1>6, <1>7, <1>8, EntryFrame

LEMMA RegTyped ==
    ASSUME Typed, ToolTyped, LogToolOK, Next
    PROVE  reg' \in Registries
<1>1. reg \in Registries
  BY DEF Typed
<1>2. CASE CreateEntry \/ FinishEntry \/ Rollback \/ HandRegistry
  BY <1>1, <1>2, RegistryTyped DEF CreateEntry, FinishEntry, Rollback, HandRegistry
<1>3. CASE SwapRegistry
  BY <1>3 DEF SwapRegistry, Running, Typed, LogToolOK
<1>4. CASE Install \/ Flip
  <2>1. op.c \in Clients
    BY <1>4 DEF Install, Flip, Running, ToolTyped
  <2>2. PICK c \in Clients : c = op.c
    BY <2>1
  <2>3. "active" \in Statuses /\ "offboarded" \in Statuses
    BY DEF Statuses
  <2>. QED
    BY <1>1, <1>4, <2>2, <2>3, StatusTyped DEF Install, Flip
<1>. QED
  BY <1>1, <1>2, <1>3, <1>4, RegistryFrame

\* A log with its fields changed.
LEMMA LogTyped ==
    ASSUME NEW l \in LogFiles, NEW k \in Nat, NEW b \in BOOLEAN
    PROVE  /\ [l EXCEPT !.sealed = b] \in LogFiles /\ [l EXCEPT !.recs = k] \in LogFiles
           /\ [l EXCEPT !.sealed = b].sealed = b /\ [l EXCEPT !.sealed = b].recs = l.recs
           /\ [l EXCEPT !.sealed = b].group = l.group
           /\ [l EXCEPT !.recs = k].recs = k /\ [l EXCEPT !.recs = k].sealed = l.sealed
           /\ [l EXCEPT !.recs = k].group = l.group
BY DEF LogFiles

-----------------------------------------------------------------------------
(***************************************************************************)
(* The logs of the store, one client at a time.                            *)
(***************************************************************************)
\* Only the log of client c changes.
OnlyLog(c) ==
    /\ \A d \in Clients \ {c} : slog'[d] = slog[d] /\ wrote'[d] = wrote[d]
    /\ slog' \in [Clients -> LogFiles \cup {None}] /\ wrote' \in [Clients -> Nat]

\* It is made, as long as it was ever.
LogMade(c) ==
    /\ OnlyLog(c)
    /\ slog[c] = None /\ slog'[c] \in LogFiles /\ ~slog'[c].sealed
    /\ slog'[c].recs = wrote'[c] /\ wrote'[c] <= MaxRecords

\* Its seal is set, or not; it is removed.
LogSealed(c) ==
    /\ OnlyLog(c)
    /\ slog[c] \in LogFiles /\ ~slog[c].sealed /\ slog'[c] \in LogFiles
    /\ slog[c].recs = wrote[c] /\ slog'[c].recs = wrote[c] /\ wrote'[c] = wrote[c]

LogDropped(c) ==
    /\ OnlyLog(c)
    /\ slog[c] \in LogFiles /\ ~slog[c].sealed /\ slog'[c] = None

\* A run appends to it.
LogGrown(c) ==
    /\ OnlyLog(c)
    /\ exec = c /\ exec' = None
    /\ slog[c] \in LogFiles /\ slog'[c] \in LogFiles
    /\ slog'[c].recs = slog[c].recs + 1 /\ wrote'[c] = wrote[c] + 1
    /\ slog'[c].sealed = slog[c].sealed

\* While no tool runs, it is emptied or mended.
LogByHand(c) ==
    /\ OnlyLog(c)
    /\ op = NoTool
    /\ slog[c] \in LogFiles /\ slog'[c] \in LogFiles
    /\ wrote'[c] = wrote[c]
    /\ \/ exec = None /\ ~slog'[c].sealed /\ slog'[c].recs = 0
       \/ slog'[c].group /\ slog'[c].recs = wrote[c]

\* A function with one value replaced.
LEMMA OnlyLogBy ==
    ASSUME Typed, NEW c \in Clients, NEW l \in LogFiles \cup {None}, NEW w \in Nat,
           slog' = [slog EXCEPT ![c] = l], wrote' = [wrote EXCEPT ![c] = w]
    PROVE  OnlyLog(c) /\ slog'[c] = l /\ wrote'[c] = w
BY DEF Typed, OnlyLog

\* What each step does to the log it is at.
LEMMA LogsBy ==
    ASSUME Typed, ToolTyped, LogToolOK
    PROVE  /\ RenameLog => op.c \in Clients /\ LogMade(op.c)
           /\ \A c \in Clients : CreateLog(c) =>
                IF slog[c] = None THEN LogMade(c) ELSE UNCHANGED logs
           /\ Seal \/ SealFails => op.c \in Clients /\ LogSealed(op.c)
           /\ Unlog => op.c \in Clients /\ (UNCHANGED logs \/ LogDropped(op.c))
           /\ RunRecords => exec \in Clients /\ LogGrown(exec)
           /\ \A c \in Clients : MendLog(c) \/ Truncate(c) => LogByHand(c)
<1>. slog \in [Clients -> LogFiles \cup {None}] /\ wrote \in [Clients -> Nat]
  BY DEF Typed
<1>0. GroupGiven \in BOOLEAN
  BY DEF GroupGiven
<1>1. ASSUME RenameLog
      PROVE  op.c \in Clients /\ LogMade(op.c)
  <2>1. PICK c \in Clients : c = op.c
    BY <1>1 DEF RenameLog, Running, ToolTyped
  <2>2. /\ slog[c] = None /\ vlog[c] \in VaultLogs /\ op.n = vlog[c].recs
    BY <1>1, <2>1 DEF RenameLog, Running, LogToolOK, Typed
  <2>3. vlog[c].recs \in Nat /\ vlog[c].recs <= MaxRecords
    BY <2>2, StoreAssumption DEF VaultLogs
  <2>4. PICK l \in LogFiles : l = [recs |-> op.n, group |-> GroupGiven, sealed |-> FALSE]
    BY <2>2, <2>3, <1>0 DEF LogFiles
  <2>5. OnlyLog(c) /\ slog'[c] = l /\ wrote'[c] = vlog[c].recs
    <3>1. slog' = [slog EXCEPT ![c] = l] /\ wrote' = [wrote EXCEPT ![c] = vlog[c].recs]
      BY <1>1, <2>1, <2>4 DEF RenameLog
    <3>. QED
      BY <2>3, <3>1, OnlyLogBy
  <2>. QED
    BY <1>1, <2>1, <2>2, <2>3, <2>4, <2>5 DEF LogMade
<1>2. ASSUME NEW c \in Clients, CreateLog(c)
      PROVE  IF slog[c] = None THEN LogMade(c) ELSE UNCHANGED logs
  <2>1. CASE slog[c] # None
    BY <1>2, <2>1 DEF CreateLog
  <2>2. CASE slog[c] = None
    <3>1. PICK l \in LogFiles : l = [recs |-> 0, group |-> GroupGiven, sealed |-> FALSE]
      BY <1>0 DEF LogFiles
    <3>2. OnlyLog(c) /\ slog'[c] = l /\ wrote'[c] = 0
      BY <1>2, <2>2, <3>1, OnlyLogBy DEF CreateLog
    <3>. QED
      BY <1>2, <2>2, <3>1, <3>2, StoreAssumption DEF LogMade
  <2>. QED
    BY <2>1, <2>2
<1>3. ASSUME Seal \/ SealFails
      PROVE  op.c \in Clients /\ LogSealed(op.c)
  <2>1. PICK c \in Clients : c = op.c
    BY <1>3 DEF Seal, SealFails, ToolTyped
  <2>2. slog[c] \in LogFiles /\ ~slog[c].sealed /\ slog[c].recs = wrote[c]
    BY <1>3, <2>1 DEF Seal, SealFails, LogToolOK
  <2>3. PICK b \in BOOLEAN :
          slog' = [slog EXCEPT ![c] = [slog[c] EXCEPT !.sealed = b]] /\ wrote' = wrote
    BY <1>3, <2>1 DEF Seal, SealFails
  <2>4. PICK l \in LogFiles : l = [slog[c] EXCEPT !.sealed = b]
    BY <2>2, LogTyped
  <2>5. l.recs = slog[c].recs
    BY <2>2, <2>4 DEF LogFiles
  <2>6. OnlyLog(c) /\ slog'[c] = l /\ wrote'[c] = wrote[c]
    BY <2>3, <2>4 DEF OnlyLog
  <2>. QED
    BY <1>3, <2>1, <2>2, <2>4, <2>5, <2>6 DEF LogSealed
<1>4. ASSUME Unlog
      PROVE  op.c \in Clients /\ (UNCHANGED logs \/ LogDropped(op.c))
  <2>1. PICK c \in Clients : c = op.c
    BY <1>4 DEF Unlog, ToolTyped
  <2>2. slog[c] \in LogFiles
    BY <1>4, <2>1 DEF Unlog, LogToolOK
  <2>3. CASE slog[c].sealed
    BY <1>4, <2>1, <2>3 DEF Unlog
  <2>4. CASE ~slog[c].sealed
    <3>1. OnlyLog(c) /\ slog'[c] = None
      BY <1>4, <2>1, <2>4, OnlyLogBy DEF Unlog
    <3>. QED
      BY <1>4, <2>1, <2>2, <2>4, <3>1 DEF LogDropped
  <2>. QED
    BY <2>3, <2>4
<1>5. ASSUME RunRecords
      PROVE  exec \in Clients /\ LogGrown(exec)
  <2>1. PICK c \in Clients : c = exec
    BY <1>5 DEF RunRecords, Typed
  <2>2. slog[c] \in LogFiles
    BY <1>5, <2>1 DEF RunRecords, Appendable
  <2>3. PICK k \in Nat : k = slog[c].recs + 1
    BY <2>2 DEF LogFiles
  <2>4. PICK l \in LogFiles : l = [slog[c] EXCEPT !.recs = k]
    BY <2>2, LogTyped
  <2>5. l.recs = slog[c].recs + 1 /\ l.sealed = slog[c].sealed
    BY <2>2, <2>3, <2>4 DEF LogFiles
  <2>6. OnlyLog(c) /\ slog'[c] = l /\ wrote'[c] = wrote[c] + 1
    <3>1. slog' = [slog EXCEPT ![c] = l] /\ wrote' = [wrote EXCEPT ![c] = wrote[c] + 1]
      BY <1>5, <2>1, <2>3, <2>4 DEF RunRecords
    <3>2. wrote[c] + 1 \in Nat
      OBVIOUS
    <3>. QED
      BY <3>1, <3>2, OnlyLogBy
  <2>. QED
    BY <1>5, <2>1, <2>2, <2>4, <2>5, <2>6 DEF LogGrown, RunRecords
<1>6. ASSUME NEW c \in Clients, MendLog(c)
      PROVE  LogByHand(c)
  <2>1. PICK l \in LogFiles : l = [recs |-> wrote[c], group |-> TRUE, sealed |-> TRUE]
    BY DEF LogFiles
  <2>2. OnlyLog(c) /\ slog'[c] = l /\ wrote'[c] = wrote[c]
    BY <1>6, <2>1 DEF OnlyLog, MendLog
  <2>. QED
    BY <1>6, <2>1, <2>2 DEF LogByHand, MendLog
<1>7. ASSUME NEW c \in Clients, Truncate(c)
      PROVE  LogByHand(c)
  <2>1. slog[c] \in LogFiles
    BY <1>7 DEF Truncate
  <2>2. PICK l \in LogFiles : l = [slog[c] EXCEPT !.recs = 0]
    BY <2>1, LogTyped
  <2>3. l.recs = 0 /\ l.sealed = slog[c].sealed
    BY <2>1, <2>2 DEF LogFiles
  <2>4. OnlyLog(c) /\ slog'[c] = l /\ wrote'[c] = wrote[c]
    BY <1>7, <2>2 DEF OnlyLog, Truncate
  <2>. QED
    BY <1>7, <2>1, <2>2, <2>3, <2>4 DEF LogByHand, Truncate
<1>. QED
  BY <1>1, <1>2, <1>3, <1>4, <1>5, <1>6, <1>7

\* Every change of a log is one of these.
LEMMA LogsChange ==
    ASSUME Typed, ToolTyped, LogToolOK, Next
    PROVE  \/ UNCHANGED logs
           \/ RenameLog /\ op.c \in Clients /\ LogMade(op.c)
           \/ \E c \in Clients : CreateLog(c) /\ LogMade(c)
           \/ (Seal \/ SealFails) /\ op.c \in Clients /\ LogSealed(op.c)
           \/ Unlog /\ op.c \in Clients /\ LogDropped(op.c)
           \/ RunRecords /\ exec \in Clients /\ LogGrown(exec)
           \/ \E c \in Clients : (MendLog(c) \/ Truncate(c)) /\ LogByHand(c)
BY LogsBy, LogsFrame

-----------------------------------------------------------------------------
(***************************************************************************)
(* Each part of the invariant.                                             *)
(***************************************************************************)
\* What --apply found is kept from its beginning until it is over.
LEMMA BeforeFrame ==
    ASSUME Typed, ToolTyped, Next
    PROVE  \/ before' = before
           \/ before' = None
           \/ Apply /\ before' = [entry |-> entry, reg |-> reg]
<1>. op \in ToolRecords
  BY DEF ToolTyped
<1>1. CASE ApplyStep
  BY <1>1, ApplyTool, CreateEntryTool, FinishEntryTool, RollbackTool
     DEF ApplyStep, EntryFails, EndApply, Goto, End
<1>2. CASE LogStep
  BY <1>2, MigrateTool, BootstrapTool
     DEF LogStep, MigrateRegistry, SwapRegistry, RenameLog, UnmakeLogDir, EndLogs, CopyLog,
         SkipLog, RefuseLog, MakeLogDir, CreateLog, VerifyLog, Seal, SealFails, Unlog,
         MigrateFails, Goto, End
<1>3. CASE BookStep
  BY <1>3, RegisterTool, PurgeTool
     DEF BookStep, Install, InstallFails, Export, Delete, Book, Flip, BookkeepingFails, Goto, End
<1>. QED
  BY <1>1, <1>2, <1>3, ToolRests, StepIs

LEMMA TypedKept ==
    ASSUME Typed, ToolTyped, LogToolOK, Next
    PROVE  Typed'
<1>1. entry' \in [Entries -> Rows("log")] /\ reg' \in Registries
  BY EntryTyped, RegTyped
<1>2. slog' \in [Clients -> LogFiles \cup {None}] /\ wrote' \in [Clients -> Nat]
  BY LogsChange DEF Typed, logs, LogMade, LogSealed, LogDropped, LogGrown, LogByHand, OnlyLog
<1>3. newfile' \in BOOLEAN
  <2>1. ApplyStep \/ HandStep \/ RunStep \/ OverStep => newfile' = newfile
    BY DEF ApplyStep, Apply, CreateEntry, FinishEntry, EntryFails, Rollback, EndApply, HandStep,
           Repair, Spoil, HandRegistry, MendLog, Truncate, RunStep, RunRecords, RunStarts,
           OverStep, Exit, Kill
  <2>2. LogStep => newfile' = newfile
    BY DEF LogStep, Migrate, MigrateRegistry, SwapRegistry, RenameLog, UnmakeLogDir, EndLogs,
           CopyLog, SkipLog, RefuseLog, MakeLogDir, CreateLog, Bootstrap, VerifyLog, Seal,
           SealFails, Unlog, MigrateFails
  <2>3. BookStep => newfile' \in {newfile, TRUE, FALSE}
    BY DEF BookStep, Register, Purge, Install, InstallFails, Export, Delete, Book, Flip,
           BookkeepingFails
  <2>. QED
    BY <2>1, <2>2, <2>3, StepIs DEF Typed
<1>4. /\ vreg' = vreg
      /\ vlog' \in [Clients -> VaultLogs \cup {None}]
      /\ vault' \in [Clients -> {"whole", "part", "gone"}]
      /\ export' \in [Clients -> {None, "part", "whole"}]
      /\ deletions' \subseteq Clients
  BY VaultsFrame DEF Typed, ToolTyped, vaults, Export, Delete, Book, Running
<1>5. exec' \in Clients \cup {None}
  BY RunFrame DEF Typed, RunRecords, RunStarts
<1>6. before' \in Found \cup {None}
  BY BeforeFrame DEF Typed, Found
<1>. QED
  BY <1>1, <1>2, <1>3, <1>4, <1>5, <1>6 DEF Typed

LEMMA LogsKept ==
    ASSUME Typed, ToolTyped, LogToolOK, LogsOK, ExecOK, Next
    PROVE  LogsOK'
<1>. SUFFICES ASSUME NEW d \in Clients, slog'[d] # None
     PROVE  /\ slog'[d].recs <= wrote'[d] /\ wrote'[d] <= MaxRecords
            /\ slog'[d].sealed => slog'[d].recs = wrote'[d]
  BY DEF LogsOK
<1>0. /\ wrote[d] \in Nat /\ (slog[d] \in LogFiles => slog[d].recs \in Nat)
      /\ slog[d] \in LogFiles \cup {None}
      /\ None \notin LogFiles
  BY NoneAssumption DEF Typed, LogFiles
<1>1. CASE UNCHANGED logs
  BY <1>1 DEF LogsOK, logs
<1>2. ASSUME NEW c \in Clients, LogMade(c) \/ LogSealed(c) \/ LogDropped(c) \/ LogByHand(c)
      PROVE  /\ slog'[d].recs <= wrote'[d] /\ wrote'[d] <= MaxRecords
             /\ slog'[d].sealed => slog'[d].recs = wrote'[d]
  <2>1. CASE d # c
    BY <1>2, <2>1 DEF LogsOK, OnlyLog, LogMade, LogSealed, LogDropped, LogByHand
  <2>2. CASE d = c
    <3>1. CASE LogMade(c) \/ LogDropped(c)
      BY <1>0, <2>2, <3>1 DEF LogMade, LogDropped, LogFiles
    <3>2. CASE LogSealed(c)
      BY <1>0, <2>2, <3>2 DEF LogsOK, LogSealed
    <3>3. CASE LogByHand(c)
      <4>1. slog[d] # None /\ wrote[d] <= MaxRecords
        BY <1>0, <2>2, <3>3 DEF LogsOK, LogByHand
      <4>. QED
        BY <1>0, <2>2, <3>3, <4>1 DEF LogByHand
    <3>. QED
      BY <1>2, <3>1, <3>2, <3>3
  <2>. QED
    BY <2>1, <2>2
<1>3. ASSUME NEW c \in Clients, RunRecords, LogGrown(c)
      PROVE  /\ slog'[d].recs <= wrote'[d] /\ wrote'[d] <= MaxRecords
             /\ slog'[d].sealed => slog'[d].recs = wrote'[d]
  <2>1. CASE d # c
    BY <1>3, <2>1 DEF LogsOK, OnlyLog, LogGrown
  <2>2. CASE d = c
    BY <1>0, <1>3, <2>2, StoreAssumption, NoneAssumption DEF LogsOK, LogGrown, ExecOK
  <2>. QED
    BY <2>1, <2>2
<1>4. op.c \in Clients \/ ~(RenameLog \/ Seal \/ SealFails \/ Unlog)
  BY DEF RenameLog, Seal, SealFails, Unlog, Running, ToolTyped
<1>5. exec \in Clients \/ ~RunRecords
  BY DEF RunRecords, Typed
<1>. QED
  BY <1>1, <1>2, <1>3, <1>4, <1>5, LogsChange

\* One entry gets a row.
Row(x, v) == x \in Entries /\ \A e \in Entries : entry'[e] = IF e = x THEN v ELSE entry[e]

LEMMA RowBy ==
    ASSUME Typed, NEW x \in Entries, NEW v, entry' = [entry EXCEPT ![x] = v]
    PROVE  Row(x, v)
BY DEF Typed, Row

\* What --apply does to the table and the registry, by entry.
LEMMA ApplyChange ==
    ASSUME Typed, ToolTyped
    PROVE  /\ CreateEntry =>
                 \E x \in op.todo :
                   /\ x = NextEntry /\ Row(x, "closed")
                   /\ "store" \in op.todo => x = "store"
                   /\ x = "clients.json" =>
                        reg' \in {Registry("broken"), Registry("bare")}
                   /\ x # "clients.json" => reg' = reg
           /\ FinishEntry /\ op.todo # {} =>
                 \E x \in op.todo :
                   /\ x = NextEntry /\ Row(x, "ok")
                   /\ x = "clients.json" => reg' = Registry("bare")
                   /\ x # "clients.json" => reg' = reg
           /\ Rollback =>
                 \/ UNCHANGED <<entry, reg>> /\ op'.noted = TRUE
                 \/ \E i \in DOMAIN op.made : \E x \in Entries :
                      /\ i = Len(op.made) /\ x = op.made[i] /\ Row(x, "missing")
                      /\ x = "store" => \A e \in Entries \ {x} : entry[e] = "missing"
                      /\ x = "registry" => entry["clients.json"] = "missing"
                      /\ x = "clients.json" => reg' = Registry("absent")
                      /\ x # "clients.json" => reg' = reg
<1>1. ASSUME CreateEntry
      PROVE  \E x \in op.todo :
               /\ x = NextEntry /\ Row(x, "closed")
               /\ "store" \in op.todo => x = "store"
               /\ x = "clients.json" =>
                    reg' \in {Registry("broken"), Registry("bare")}
               /\ x # "clients.json" => reg' = reg
  <2>1. op.todo \subseteq Entries /\ op.todo # {}
    BY <1>1 DEF CreateEntry, Running, ToolTyped
  <2>2. PICK x \in op.todo : x = NextEntry /\ x \in Entries /\ ("store" \in op.todo => x = "store")
    BY <2>1, NextIsToDo
  <2>3. Row(x, "closed")
    BY <1>1, <2>2, RowBy DEF CreateEntry
  <2>. QED
    BY <1>1, <2>2, <2>3 DEF CreateEntry
<1>2. ASSUME FinishEntry, op.todo # {}
      PROVE  \E x \in op.todo :
               /\ x = NextEntry /\ Row(x, "ok")
               /\ x = "clients.json" => reg' = Registry("bare")
               /\ x # "clients.json" => reg' = reg
  <2>1. op.todo \subseteq Entries
    BY <1>2 DEF FinishEntry, Running, ToolTyped
  <2>2. PICK x \in op.todo : x = NextEntry /\ x \in Entries
    BY <1>2, <2>1, NextIsToDo
  <2>3. Row(x, "ok")
    BY <1>2, <2>2, RowBy DEF FinishEntry
  <2>. QED
    BY <1>2, <2>2, <2>3 DEF FinishEntry
<1>3. ASSUME Rollback
      PROVE  \/ UNCHANGED <<entry, reg>> /\ op'.noted = TRUE
             \/ \E i \in DOMAIN op.made : \E x \in Entries :
                  /\ i = Len(op.made) /\ x = op.made[i] /\ Row(x, "missing")
                  /\ x = "store" => \A e \in Entries \ {x} : entry[e] = "missing"
                  /\ x = "registry" => entry["clients.json"] = "missing"
                  /\ x = "clients.json" => reg' = Registry("absent")
                  /\ x # "clients.json" => reg' = reg
  <2>1. op.made \in Seq(Entries) /\ op.made # <<>>
    BY <1>3 DEF Rollback, ToolTyped, ToolRecords
  <2>2. PICK i \in DOMAIN op.made : i = Len(op.made) /\ op.made[i] \in Entries
    BY <2>1
  <2>3. PICK x \in Entries : x = op.made[i]
    BY <2>2
  <2>4. CASE /\ UNCHANGED <<entry, reg>>
             /\ op' = [op EXCEPT !.made = SubSeq(op.made, 1, Len(op.made) - 1), !.noted = TRUE]
    BY <2>4 DEF ToolTyped, ToolRecords
  <2>5. CASE /\ Below(x) \subseteq Missing
             /\ entry' = [entry EXCEPT ![x] = "missing"]
             /\ reg' = IF x = "clients.json" THEN Registry("absent") ELSE reg
    <3>1. Row(x, "missing")
      BY <2>5, RowBy
    <3>2. /\ x = "store" => \A e \in Entries \ {x} : entry[e] = "missing"
          /\ x = "registry" => entry["clients.json"] = "missing"
      BY <2>5 DEF Below, Missing
    <3>. QED
      BY <2>2, <2>3, <2>5, <3>1, <3>2
  <2>. QED
    BY <1>3, <2>2, <2>3, <2>4, <2>5 DEF Rollback
<1>. QED
  BY <1>1, <1>2, <1>3

\* A log is made only where log/ is there.
LEMMA LogsNeedDir ==
    ASSUME Typed, ToolTyped, TreeOK, LogToolOK, Next, entry["log"] = "missing"
    PROVE  UNCHANGED logs
<1>1. \A c \in Clients : slog[c] \notin LogFiles
  BY NoneAssumption DEF TreeOK
<1>2. CASE RenameLog
  BY <1>2 DEF RenameLog, Running, LogToolOK
<1>3. ASSUME NEW c \in Clients, CreateLog(c)
      PROVE  FALSE
  BY <1>3, NoneAssumption DEF CreateLog, Running, LogToolOK, LogDirOk
<1>4. op.c \in Clients \/ ~(Seal \/ SealFails \/ Unlog)
  BY DEF Seal, SealFails, Unlog, Running, ToolTyped
<1>5. exec \in Clients \/ ~RunRecords
  BY DEF RunRecords, Typed
<1>. QED
  BY <1>1, <1>2, <1>3, <1>4, <1>5, LogsChange
     DEF LogSealed, LogDropped, LogGrown, LogByHand

LEMMA TreeKept ==
    ASSUME Typed, ToolTyped, TreeOK, ApplyOK, LogToolOK, BooksOK, Next
    PROVE  TreeOK'
<1>0. /\ "store" \in Entries /\ "registry" \in Entries /\ "clients.json" \in Entries
      /\ "log" \in Entries
      /\ entry \in [Entries -> Rows("log")] /\ reg.of \in [Clients -> Statuses]
      /\ \A e \in Entries : {"missing", "closed", "open", "ok"} \subseteq Rows(e)
  BY EntriesAre DEF Typed, Registries, Rows
<1>. USE <1>0
<1>1. CASE UNCHANGED <<entry, reg>>
  BY <1>1, LogsNeedDir DEF TreeOK, logs
<1>2. CASE CreateEntry
  <2>1. PICK x \in op.todo :
    /\ Row(x, "closed")
    /\ "store" \in op.todo => x = "store"
    /\ x = "clients.json" => reg' \in {Registry("broken"), Registry("bare")}
    /\ x # "clients.json" => reg' = reg
    BY <1>2, ApplyChange
  <2>2. UNCHANGED slog
    BY <1>2 DEF CreateEntry, logs
  <2>3. entry["store"] = "missing" => x = "store"
    <3>1. op.tool = "apply" /\ op.at = "create"
      BY <1>2 DEF CreateEntry, Running
    <3>2. entry["store"] = IF "store" \in op.todo THEN "missing" ELSE "ok"
      BY <3>1 DEF ApplyOK, StageOK
    <3>. QED
      BY <2>1, <3>2
  <2>4. /\ x \in Entries
        /\ \A e \in Entries : entry'[e] = IF e = x THEN "closed" ELSE entry[e]
    BY <2>1 DEF Row
  <2>5. x = "clients.json" => reg'.kind \in {"broken", "bare"} /\ \A c \in Clients : reg'.of[c] = "none"
    BY <2>1, RegistryTyped
  <2>. QED
    BY <2>1, <2>2, <2>3, <2>4, <2>5 DEF TreeOK
<1>3. CASE FinishEntry
  <2>1. op.todo # {}
    BY <1>3 DEF FinishEntry, Running, ApplyOK, StageOK
  <2>2. PICK x \in op.todo :
    /\ x = NextEntry /\ Row(x, "ok")
    /\ x = "clients.json" => reg' = Registry("bare")
    /\ x # "clients.json" => reg' = reg
    BY <1>3, <2>1, ApplyChange
  <2>3. UNCHANGED slog
    BY <1>3 DEF FinishEntry, logs
  <2>4. entry[x] = "closed"
    <3>1. op.tool = "apply" /\ op.at = "finish"
      BY <1>3 DEF FinishEntry, Running
    <3>2. entry[NextEntry] = "closed"
      BY <3>1 DEF ApplyOK, StageOK
    <3>. QED
      BY <2>2, <3>2
  <2>5. /\ x \in Entries
        /\ \A e \in Entries : entry'[e] = IF e = x THEN "ok" ELSE entry[e]
    BY <2>2 DEF Row
  <2>6. x = "clients.json" => reg'.kind = "bare" /\ \A c \in Clients : reg'.of[c] = "none"
    BY <2>2, RegistryTyped
  <2>. QED
    BY <2>2, <2>3, <2>4, <2>5, <2>6 DEF TreeOK
<1>4. CASE Rollback
  <2>1. UNCHANGED slog
    BY <1>4 DEF Rollback, logs
  <2>2. CASE UNCHANGED <<entry, reg>>
    BY <2>2, <1>1
  <2>3. ASSUME NEW i \in DOMAIN op.made, NEW x \in Entries,
               x = op.made[i], Row(x, "missing"),
               x = "store" => \A e \in Entries \ {x} : entry[e] = "missing",
               x = "clients.json" => reg' = Registry("absent"),
               x # "clients.json" => reg' = reg
        PROVE  TreeOK'
    <3>1. x = "log" => \A c \in Clients : slog[c] = None
      BY <1>4, <2>3 DEF Rollback, Running, ApplyOK, MadeOK, Made
    <3>. QED
      BY <2>1, <2>3, <3>1, RegistryTyped DEF TreeOK, Row
  <2>. QED
    BY <1>4, <2>2, <2>3, ApplyChange
<1>5. CASE MigrateRegistry
  <2>1. UNCHANGED <<reg, slog>>
    BY <1>5 DEF MigrateRegistry, logs
  <2>2. \/ UNCHANGED entry
        \/ /\ \A e \in Entries \ {"store", "registry"} : entry'[e] = entry[e]
           /\ entry'["store"] = IF entry["store"] = "missing" THEN "open" ELSE entry["store"]
           /\ entry'["registry"] = IF entry["registry"] = "missing" THEN "closed" ELSE entry["registry"]
    BY <1>5 DEF MigrateRegistry
  <2>. QED
    BY <1>1, <2>1, <2>2 DEF TreeOK
<1>6. CASE SwapRegistry
  <2>1. UNCHANGED slog /\ reg'.kind = "clients"
    BY <1>6 DEF SwapRegistry, logs, LogToolOK, Running, Typed
  <2>2. PICK v \in {"open", "closed"} : entry' = [entry EXCEPT !["clients.json"] = v]
    BY <1>6 DEF SwapRegistry
  <2>3. Row("clients.json", v)
    BY <2>2, RowBy
  <2>4. entry["store"] # "missing"
    BY <1>6 DEF SwapRegistry, LogToolOK, Running
  <2>. QED
    BY <2>1, <2>3, <2>4 DEF TreeOK, Row
<1>7. CASE UnmakeLogDir
  <2>1. UNCHANGED <<reg, slog>> /\ \A c \in Clients : slog[c] = None
    BY <1>7 DEF UnmakeLogDir, logs, Running, LogToolOK
  <2>2. Row("log", "missing")
    BY <1>7, RowBy DEF UnmakeLogDir
  <2>. QED
    BY <2>1, <2>2 DEF TreeOK, Row
<1>8. CASE Install \/ Flip \/ HandRegistry
  <2>1. reg.kind # "absent"
    BY <1>8 DEF Install, Flip, HandRegistry, Running, BooksOK, TreeOK, ToolTyped
  <2>2. PICK v \in {"ok", "open", "closed"} : Row("clients.json", v)
    BY <1>8, RowBy DEF Install, Flip, HandRegistry
  <2>3. CASE Install \/ Flip
    <3>1. PICK c \in Clients : c = op.c
      BY <2>3 DEF Install, Flip, Running, ToolTyped
    <3>2. reg.kind = "clients"
      BY <2>3, <3>1 DEF Install, Flip, Running, BooksOK, TreeOK
    <3>3. reg'.kind = "clients" /\ UNCHANGED slog
      <4>1. PICK s \in Statuses : reg' = [reg EXCEPT !.of[c] = s]
        BY <2>3, <3>1 DEF Install, Flip, Statuses
      <4>. QED
        BY <2>3, <3>2, <4>1, StatusTyped DEF Install, Flip, logs, Typed
    <3>. QED
      BY <2>1, <2>2, <3>3 DEF TreeOK, Row
  <2>4. CASE HandRegistry
    BY <2>1, <2>2, <2>4, RegistryTyped DEF HandRegistry, logs, TreeOK, Row
  <2>. QED
    BY <1>8, <2>3, <2>4
<1>9. ASSUME NEW c \in Clients, MakeLogDir(c)
      PROVE  TreeOK'
  <2>1. UNCHANGED <<reg, slog>>
    BY <1>9 DEF MakeLogDir, logs
  <2>2. PICK v \in {"open", "closed"} :
          /\ \A e \in Entries \ {"store", "log"} : entry'[e] = entry[e]
          /\ entry'["store"] = IF entry["store"] = "missing" THEN "open" ELSE entry["store"]
          /\ entry'["log"] = v
    BY <1>9 DEF MakeLogDir
  <2>. QED
    BY <2>1, <2>2 DEF TreeOK
<1>10. ASSUME NEW e \in Entries, Repair(e) \/ Spoil(e)
       PROVE  TreeOK'
  <2>1. UNCHANGED <<reg, slog>> /\ entry[e] # "missing"
    BY <1>10 DEF Repair, Spoil, logs
  <2>2. PICK v \in Rows(e) \ {"missing"} : Row(e, v)
    BY <1>10, RowBy DEF Repair, Spoil
  <2>. QED
    BY <2>1, <2>2 DEF TreeOK, Row
<1>. QED
  BY <1>1, <1>2, <1>3, <1>4, <1>5, <1>6, <1>7, <1>8, <1>9, <1>10, EntryFrame, RegistryFrame

\* While a run goes on, the directories it appends in stay within its reach.
LEMMA RunKeepsDirs ==
    ASSUME Typed, ToolTyped, TreeOK, ExecOK, ApplyOK, LogToolOK, Next, exec # None
    PROVE  entry'["store"] # "missing" /\ Reaches("store")' /\ Reaches("log")'
<1>0. /\ "store" \in Entries /\ "registry" \in Entries /\ "clients.json" \in Entries
      /\ "log" \in Entries
      /\ entry \in [Entries -> Rows("log")]
      /\ Reaches("store") /\ Reaches("log")
      /\ exec \in Clients /\ slog[exec] # None
  BY EntriesAre DEF Typed, ExecOK, Appendable
<1>. USE <1>0
<1>. SUFFICES entry'["store"] \in {"open", "ok", "writable", "loose"}
              /\ entry'["log"] \in {"open", "ok", "writable", "loose"}
  BY DEF Reaches
<1>1. CASE UNCHANGED entry
  BY <1>1 DEF Reaches
<1>2. CASE CreateEntry
  <2>1. PICK x \in op.todo : Row(x, "closed")
    BY <1>2, ApplyChange
  <2>2. entry[x] = "missing"
    BY <1>2, <2>1 DEF CreateEntry, Running, ApplyOK, StageOK, ToolTyped
  <2>. QED
    BY <2>1, <2>2 DEF Row, Reaches
<1>3. CASE FinishEntry
  <2>1. op.todo # {}
    BY <1>3 DEF FinishEntry, Running, ApplyOK, StageOK
  <2>2. PICK x \in op.todo : Row(x, "ok")
    BY <1>3, <2>1, ApplyChange
  <2>. QED
    BY <2>2 DEF Row, Reaches
<1>4. CASE Rollback
  <2>1. ASSUME NEW i \in DOMAIN op.made, NEW x \in Entries, x = op.made[i], Row(x, "missing")
        PROVE  x \notin {"store", "log"}
    BY <1>4, <2>1 DEF Rollback, Running, ApplyOK, MadeOK, Made
  <2>. QED
    BY <1>4, <2>1, ApplyChange DEF Row, Reaches
<1>5. CASE MigrateRegistry \/ SwapRegistry \/ Install \/ Flip \/ HandRegistry
  BY <1>5 DEF MigrateRegistry, SwapRegistry, Install, Flip, HandRegistry, Reaches
<1>6. CASE UnmakeLogDir
  BY <1>6 DEF UnmakeLogDir, Running, LogToolOK
<1>7. ASSUME NEW c \in Clients, MakeLogDir(c)
      PROVE  FALSE
  BY <1>7 DEF MakeLogDir, Reaches
<1>8. ASSUME NEW e \in Entries, Repair(e) \/ Spoil(e)
      PROVE  Row(e, "ok")
  BY <1>8, RowBy DEF Repair, Spoil
<1>. QED
  BY <1>1, <1>2, <1>3, <1>4, <1>5, <1>6, <1>7, <1>8, EntryFrame DEF Row, Reaches

LEMMA ExecKept ==
    ASSUME Typed, ToolTyped, TreeOK, LogsOK, ExecOK, ApplyOK, LogToolOK, Next
    PROVE  ExecOK'
<1>1. CASE exec' = exec
  <2>. SUFFICES ASSUME exec # None
       PROVE  /\ Reaches("store")' /\ Reaches("log")'
              /\ slog'[exec] # None /\ slog'[exec].group /\ slog'[exec].sealed
              /\ wrote'[exec] < MaxRecords
    BY <1>1 DEF ExecOK, Appendable
  <2>1. Reaches("store")' /\ Reaches("log")'
    BY RunKeepsDirs
  <2>2. PICK x \in Clients : x = exec
    BY DEF Typed
  <2>3. slog[x] # None /\ slog[x].group /\ slog[x].sealed /\ wrote[x] < MaxRecords
    BY <2>2 DEF ExecOK, Appendable
  <2>4. ASSUME NEW c \in Clients, LogMade(c) \/ LogSealed(c) \/ LogDropped(c)
        PROVE  slog'[x] = slog[x] /\ wrote'[x] = wrote[x]
    BY <2>3, <2>4 DEF LogMade, LogSealed, LogDropped, OnlyLog
  <2>5. ASSUME NEW c \in Clients, MendLog(c)
        PROVE  slog'[x] = slog[x] /\ wrote'[x] = wrote[x]
    <3>1. c # x
      BY <2>3, <2>5 DEF MendLog
    <3>. QED
      BY <2>5, <3>1 DEF MendLog, Typed
  <2>6. \A c \in Clients : ~Truncate(c)
    BY DEF Truncate
  <2>7. op.c \in Clients \/ ~(RenameLog \/ Seal \/ SealFails \/ Unlog)
    BY DEF RenameLog, Seal, SealFails, Unlog, Running, ToolTyped
  <2>8. ~RunRecords
    BY <1>1 DEF RunRecords
  <2>9. UNCHANGED logs => slog'[x] = slog[x] /\ wrote'[x] = wrote[x]
    BY DEF logs
  <2>. QED
    BY <2>1, <2>2, <2>3, <2>4, <2>5, <2>6, <2>7, <2>8, <2>9, LogsChange
<1>2. ASSUME NEW c \in Clients, RunStarts(c)
      PROVE  ExecOK'
  BY <1>2 DEF RunStarts, ExecOK, Appendable, Reaches, Clean, DirsReached, LogsWritable, logs,
              RegisteredLogged, RegisteredSealed
<1>. QED
  BY <1>1, <1>2, RunFrame DEF RunRecords, ExecOK

\* A step of a tool is the tool's until it is over.
LEMMA ApplyStaysApply ==
    ASSUME Typed, ToolTyped, ApplyStep
    PROVE  op'.tool = "apply"
<1>. op \in ToolRecords
  BY DEF ToolTyped
<1>1. CASE Apply
  BY <1>1, ApplyTool
<1>2. CASE CreateEntry \/ FinishEntry \/ Rollback
  BY <1>2, CreateEntryTool, FinishEntryTool, RollbackTool
     DEF CreateEntry, FinishEntry, Rollback, Running
<1>3. CASE EntryFails
  BY <1>3, GotoIs DEF EntryFails, Steps
<1>4. CASE EndApply
  BY <1>4, EndIs DEF EndApply, Running
<1>. QED
  BY <1>1, <1>2, <1>3, <1>4 DEF ApplyStep

LEMMA BookStays ==
    ASSUME Typed, ToolTyped, BookStep
    PROVE  op'.tool \in {"register", "purge"}
<1>. op \in ToolRecords
  BY DEF ToolTyped
<1>1. ASSUME NEW c \in Clients, Register(c) \/ Purge(c)
      PROVE  op'.tool \in {"register", "purge"}
  BY <1>1, RegisterTool, PurgeTool
<1>2. CASE Install \/ InstallFails
  BY <1>2, EndIs DEF Install, InstallFails, Running
<1>3. CASE Export \/ Delete
  BY <1>3, EndIs, GotoIs DEF Export, Delete, Running, Steps
<1>4. CASE Book \/ Flip \/ BookkeepingFails
  BY <1>4, EndIs, GotoIs DEF Book, Flip, BookkeepingFails, Running, Steps
<1>. QED
  BY <1>1, <1>2, <1>3, <1>4 DEF BookStep

\* The tools that make logs are at no such step under the others.
LEMMA LogToolElse ==
    ASSUME ToolTyped', op'.tool \notin {"migrate", "bootstrap"}
    PROVE  LogToolOK'
<1>1. op'.tool = None => op'.at = None
  BY NoToolIs DEF ToolTyped, NoTool
<1>. QED
  BY <1>1, NoneAssumption DEF ToolTyped, ToolRecords, Tools, Steps, LogToolOK

\* A run beside them only lengthens a log.
LEMMA LogToolInRun ==
    ASSUME Typed, ToolTyped, LogToolOK, RunStep
    PROVE  LogToolOK'
<1>1. UNCHANGED <<op, entry, reg, vreg, vlog>>
  BY DEF RunStep, RunRecords, RunStarts, vaults
<1>2. CASE UNCHANGED logs
  BY <1>1, <1>2 DEF LogToolOK, logs, LogDirOk, Registered
<1>3. CASE RunRecords
  <2>1. PICK x \in Clients : LogGrown(x)
    BY <1>3, LogsBy
  <2>5. /\ slog[x] # None /\ slog'[x] # None /\ slog'[x].sealed = slog[x].sealed
        /\ slog'[x].recs = slog[x].recs + 1 /\ wrote'[x] = wrote[x] + 1
    BY <2>1, NoneAssumption DEF LogGrown
  <2>6. \A d \in Clients \ {x} : slog'[d] = slog[d] /\ wrote'[d] = wrote[d]
    BY <2>1 DEF LogGrown, OnlyLog
  <2>7. op.at \in {"verify", "seal", "unlog"} =>
          /\ slog'[op.c] # None /\ slog'[op.c].recs = wrote'[op.c]
          /\ slog'[op.c].sealed = slog[op.c].sealed
    <3>. SUFFICES ASSUME op.at \in {"verify", "seal", "unlog"}
         PROVE  /\ slog'[op.c] # None /\ slog'[op.c].recs = wrote'[op.c]
                /\ slog'[op.c].sealed = slog[op.c].sealed
      OBVIOUS
    <3>1. op.c \in Clients /\ slog[op.c] # None /\ slog[op.c].recs = wrote[op.c]
      BY DEF ToolTyped, LogToolOK
    <3>. QED
      BY <2>5, <2>6, <3>1
  <2>8. op.at \in {"count", "verify", "seal", "unlog"} => op.c \in Clients
    BY DEF ToolTyped
  <2>9. \A d \in Clients : slog'[d] = None <=> slog[d] = None
    BY <2>5, <2>6
  <2>10. op.at = "count" => LogToolOK'
    BY <1>1, <2>9, <2>8 DEF LogToolOK, LogDirOk, Registered
  <2>11. op.at \in {"verify", "seal", "unlog"} => LogToolOK'
    BY <1>1, <2>7, <2>8, <2>9 DEF LogToolOK, LogDirOk, Registered
  <2>12. op.at \notin {"count", "verify", "seal", "unlog"} => LogToolOK'
    BY <1>1, <2>9 DEF LogToolOK, LogDirOk, Registered
  <2>. QED
    BY <2>10, <2>11, <2>12
<1>. QED
  BY <1>2, <1>3 DEF RunStep, RunStarts

LEMMA LogToolKept ==
    ASSUME Typed, ToolTyped, TreeOK, LogToolOK, Next, ToolTyped'
    PROVE  LogToolOK'
<1>. op \in ToolRecords
  BY DEF ToolTyped
<1>. op.tool = None => op.at = None
  BY NoToolIs DEF ToolTyped
<1>1. CASE ApplyStep
  <2>1. op'.tool = "apply"
    BY <1>1, ApplyStaysApply
  <2>. QED
    BY <2>1, LogToolElse
<1>2. CASE BookStep
  <2>1. op'.tool \in {"register", "purge"}
    BY <1>2, BookStays
  <2>. QED
    BY <2>1, LogToolElse
<1>3. CASE HandStep \/ OverStep
  BY <1>3, ToolRests, NoToolIs, LogToolElse, NoneAssumption DEF Tools
<1>4. CASE Migrate
  BY <1>4, MigrateTool DEF Migrate, LogToolOK, vaults, logs
<1>5. CASE MigrateRegistry
  <2>1. CASE vreg # None /\ entry["clients.json"] = "missing"
    BY <1>5, <2>1, GotoIs, EntriesAre
       DEF MigrateRegistry, LogToolOK, vaults, logs, Steps, Running, TreeOK, Typed
  <2>2. CASE ~(vreg # None /\ entry["clients.json"] = "missing")
    BY <1>5, <2>2, GotoIs DEF MigrateRegistry, LogToolOK, vaults, logs, Steps, Running
  <2>. QED
    BY <2>1, <2>2
<1>6. CASE SwapRegistry
  BY <1>6, GotoIs DEF SwapRegistry, LogToolOK, vaults, logs, Steps, Running
<1>7. CASE RenameLog
  <2>1. LogMade(op.c) /\ op.c \in Clients
    BY <1>7, LogsBy
  <2>. QED
    BY <1>7, <2>1, GotoIs, NoneAssumption
       DEF RenameLog, LogToolOK, vaults, Steps, Running, LogMade, OnlyLog
<1>8. CASE UnmakeLogDir \/ EndLogs \/ MigrateFails
  BY <1>8, EndIs DEF UnmakeLogDir, EndLogs, MigrateFails, LogToolOK
<1>9. ASSUME NEW c \in Clients, CopyLog(c)
      PROVE  LogToolOK'
  BY <1>9, CopyLogTool DEF CopyLog, LogToolOK, vaults, logs, Running, ToolTyped
<1>10. ASSUME NEW c \in Clients, SkipLog(c)
       PROVE  LogToolOK'
  BY <1>10, SkipLogTool DEF SkipLog, LogToolOK, vaults, logs, Running
<1>11. ASSUME NEW c \in Clients, RefuseLog(c)
       PROVE  LogToolOK'
  BY <1>11, EndIs DEF RefuseLog, LogToolOK
<1>12. ASSUME NEW c \in Clients, MakeLogDir(c)
       PROVE  LogToolOK'
  BY <1>12, GotoIs DEF MakeLogDir, LogToolOK, vaults, logs, Steps, Running, TreeOK
<1>13. CASE Bootstrap
  BY <1>13, BootstrapTool DEF Bootstrap, LogToolOK, LogDirOk, Registered, vaults, logs
<1>14. ASSUME NEW c \in Clients, CreateLog(c)
       PROVE  LogToolOK'
  <2>1. CASE slog[c] # None
    BY <1>14, <2>1, CreateLogTool
       DEF CreateLog, LogToolOK, LogDirOk, Registered, vaults, logs, Running
  <2>2. CASE slog[c] = None
    <3>1. LogMade(c) /\ wrote'[c] = 0
      BY <1>14, <2>2, LogsBy DEF CreateLog, Typed
    <3>2. /\ op'.tool = op.tool /\ op'.at = "verify" /\ op'.todo = op.todo /\ op'.c = c
      BY <1>14, <2>2, CreateLogTool
    <3>3. /\ op.tool = "bootstrap" /\ op.at = "logs" /\ entry' = entry /\ reg' = reg
          /\ vreg' = vreg /\ vlog' = vlog
      BY <1>14, <2>2 DEF CreateLog, Running, vaults
    <3>4. /\ \A d \in Clients \ {c} : slog'[d] = slog[d]
          /\ slog'[c] # None /\ slog'[c].recs = wrote'[c] /\ ~slog'[c].sealed
      BY <3>1, NoneAssumption DEF LogMade, OnlyLog
    <3>5. \A d \in Registered' \ op'.todo : slog'[d] # None
      BY <3>2, <3>3, <3>4 DEF LogToolOK, Registered
    <3>6. LogDirOk'
      BY <3>3 DEF LogToolOK, LogDirOk
    <3>. QED
      BY <3>2, <3>3, <3>4, <3>5, <3>6 DEF LogToolOK
  <2>. QED
    BY <2>1, <2>2
<1>15. CASE VerifyLog
  BY <1>15, GotoIs DEF VerifyLog, LogToolOK, LogDirOk, Registered, vaults, logs, Steps, Running
<1>16. CASE Seal
  <2>1. LogSealed(op.c) /\ op.c \in Clients
    BY <1>16, LogsBy
  <2>. QED
    BY <1>16, <2>1, SealTool, NoneAssumption
       DEF Seal, LogToolOK, LogDirOk, Registered, vaults, LogSealed, OnlyLog
<1>17. CASE SealFails
  <2>1. LogSealed(op.c) /\ op.c \in Clients
    BY <1>17, LogsBy
  <2>. QED
    BY <1>17, <2>1, GotoIs, NoneAssumption
       DEF SealFails, LogToolOK, LogDirOk, Registered, vaults, LogSealed, OnlyLog, Steps
<1>18. CASE Unlog
  BY <1>18, EndIs DEF Unlog, LogToolOK
<1>. QED
  BY <1>1, <1>2, <1>3, <1>4, <1>5, <1>6, <1>7, <1>8, <1>9, <1>10, <1>11, <1>12, <1>13,
     <1>14, <1>15, <1>16, <1>17, <1>18, LogToolInRun, StepIs DEF LogStep

LEMMA LogStays ==
    ASSUME Typed, ToolTyped, LogStep
    PROVE  op'.tool \in {"migrate", "bootstrap"}
<1>. op \in ToolRecords /\ (op.tool = None => op.at = None)
  BY NoToolIs DEF ToolTyped
<1>1. CASE Migrate \/ Bootstrap
  BY <1>1, MigrateTool, BootstrapTool
<1>2. CASE MigrateRegistry \/ SwapRegistry
  BY <1>2, GotoIs DEF MigrateRegistry, SwapRegistry, Running, Steps
<1>3. CASE RenameLog \/ VerifyLog
  BY <1>3, GotoIs DEF RenameLog, VerifyLog, Running, Steps
<1>4. CASE UnmakeLogDir \/ EndLogs \/ MigrateFails
  BY <1>4, EndIs DEF UnmakeLogDir, EndLogs, MigrateFails, Running
<1>5. ASSUME NEW c \in Clients, CopyLog(c) \/ SkipLog(c)
      PROVE  op'.tool \in {"migrate", "bootstrap"}
  BY <1>5, CopyLogTool, SkipLogTool DEF CopyLog, SkipLog, Running
<1>6. ASSUME NEW c \in Clients, RefuseLog(c) \/ MakeLogDir(c)
      PROVE  op'.tool \in {"migrate", "bootstrap"}
  BY <1>6, EndIs, GotoIs DEF RefuseLog, MakeLogDir, Running, Steps
<1>7. ASSUME NEW c \in Clients, CreateLog(c)
      PROVE  op'.tool \in {"migrate", "bootstrap"}
  BY <1>7, CreateLogTool DEF CreateLog, Running
<1>8. CASE Seal \/ SealFails \/ Unlog
  <2>1. op.tool \in {"migrate", "bootstrap"}
    BY <1>8, NoneAssumption DEF Seal, SealFails, Unlog, ToolTyped, ToolRecords, Tools, Steps
  <2>. QED
    BY <1>8, <2>1, SealTool, GotoIs, EndIs DEF SealFails, Unlog, Steps
<1>. QED
  BY <1>1, <1>2, <1>3, <1>4, <1>5, <1>6, <1>7, <1>8 DEF LogStep

\* register-client and vault-purge are at no step of theirs under the others.
LEMMA BooksElse ==
    ASSUME ToolTyped', op'.tool \notin {"register", "purge"}, UNCHANGED vaults, BooksOK
    PROVE  BooksOK'
<1>1. op'.tool = None => op'.at = None
  BY NoToolIs DEF ToolTyped, NoTool
<1>2. op'.at \notin {"install", "export", "delete", "book", "flip"}
  BY <1>1, NoneAssumption DEF ToolTyped, ToolRecords, Tools, Steps
<1>. QED
  BY <1>2 DEF BooksOK, vaults

LEMMA BooksKept ==
    ASSUME Typed, ToolTyped, TreeOK, BooksOK, Next, ToolTyped'
    PROVE  BooksOK'
<1>. op \in ToolRecords
  BY DEF ToolTyped
<1>1. CASE ApplyStep
  <2>1. UNCHANGED vaults
    BY <1>1 DEF ApplyStep, Apply, EntryFails, EndApply, CreateEntry, FinishEntry, Rollback
  <2>. QED
    BY <1>1, <2>1, ApplyStaysApply, BooksElse
<1>2. CASE LogStep
  <2>1. UNCHANGED vaults
    BY <1>2 DEF LogStep, Migrate, EndLogs, CopyLog, SkipLog, RefuseLog, Bootstrap, SwapRegistry,
         VerifyLog, MigrateFails, MigrateRegistry, UnmakeLogDir, MakeLogDir, RenameLog, Seal,
         SealFails, Unlog, CreateLog
  <2>. QED
    BY <1>2, <2>1, LogStays, BooksElse
<1>3. CASE HandStep \/ OverStep
  <2>1. UNCHANGED vaults
    BY <1>3 DEF HandStep, HandRegistry, Repair, Spoil, MendLog, Truncate, OverStep, Exit, Kill
  <2>2. op'.tool = None
    BY <1>3, ToolRests, NoToolIs
  <2>. QED
    BY <2>1, <2>2, BooksElse, NoneAssumption DEF Tools
<1>4. CASE RunStep
  BY <1>4 DEF RunStep, RunRecords, RunStarts, BooksOK, vaults
<1>5. ASSUME NEW c \in Clients, Register(c)
      PROVE  BooksOK'
  BY <1>5, RegisterTool DEF Register, BooksOK, vaults
<1>6. ASSUME NEW c \in Clients, Purge(c)
      PROVE  BooksOK'
  BY <1>6, PurgeTool DEF Purge, BooksOK, vaults, Registered
<1>7. CASE Install \/ InstallFails \/ Flip \/ BookkeepingFails
  BY <1>7, EndIs DEF Install, InstallFails, Flip, BookkeepingFails, BooksOK, vaults
<1>8. CASE Export
  <2>1. PICK c \in Clients : c = op.c
    BY <1>8 DEF Export, Running, ToolTyped
  <2>2. reg.of[c] # "none" /\ reg' = reg /\ vault' = vault
    BY <1>8, <2>1 DEF Export, Running, BooksOK
  <2>3. CASE export' = [export EXCEPT ![c] = "whole"] /\ Goto("delete")
    BY <2>1, <2>2, <2>3, GotoIs DEF BooksOK, Typed, Steps
  <2>4. CASE export' = [export EXCEPT ![c] = IF @ = "whole" THEN @ ELSE "part"] /\ End(2)
    BY <2>1, <2>2, <2>4, EndIs DEF BooksOK, Typed
  <2>. QED
    BY <1>8, <2>1, <2>3, <2>4 DEF Export
<1>9. CASE Delete
  <2>1. PICK c \in Clients : c = op.c
    BY <1>9 DEF Delete, Running, ToolTyped
  <2>2. export[c] = "whole" /\ reg.of[c] # "none" /\ UNCHANGED <<reg, export, newfile>>
    BY <1>9, <2>1 DEF Delete, Running, BooksOK
  <2>3. CASE vault' = [vault EXCEPT ![c] = "gone"] /\ Goto("book")
    BY <2>1, <2>2, <2>3, GotoIs DEF BooksOK, Typed, Steps
  <2>4. CASE vault' = [vault EXCEPT ![c] = "part"] /\ End(2)
    BY <2>1, <2>2, <2>4, EndIs DEF BooksOK, Typed
  <2>. QED
    BY <1>9, <2>1, <2>3, <2>4 DEF Delete
<1>10. CASE Book
  BY <1>10, GotoIs DEF Book, BooksOK, Running, Steps
<1>. QED
  BY <1>1, <1>2, <1>3, <1>4, <1>5, <1>6, <1>7, <1>8, <1>9, <1>10, StepIs DEF BookStep

LEMMA ExitKept ==
    ASSUME Typed, ToolTyped, LogToolOK, BooksOK, ExitIsTrue, Next
    PROVE  ExitIsTrue'
<1>. op \in ToolRecords
  BY DEF ToolTyped
<1>1. CASE ApplyStep
  <2>1. op'.tool = "apply"
    BY <1>1, ApplyStaysApply
  <2>2. op'.at = "exit" => op'.code \in {0, 2}
    <3>1. CASE Apply
      BY <3>1, ApplyTool
    <3>2. CASE CreateEntry \/ FinishEntry \/ Rollback
      BY <3>2, CreateEntryTool, FinishEntryTool, RollbackTool DEF Rollback, Running
    <3>3. CASE EntryFails \/ EndApply
      BY <3>3, GotoIs, EndIs DEF EntryFails, EndApply, Steps
    <3>. QED
      BY <1>1, <3>1, <3>2, <3>3 DEF ApplyStep
  <2>. QED
    BY <2>1, <2>2 DEF ExitIsTrue
<1>2. CASE HandStep \/ OverStep
  BY <1>2, ToolRests, NoToolIs, NoneAssumption DEF ExitIsTrue, Steps
<1>3. CASE RunStep
  <2>1. UNCHANGED <<op, reg, vlog, vault, export, deletions>>
    BY <1>3 DEF RunStep, RunRecords, RunStarts, vaults
  <2>2. CASE UNCHANGED logs
    BY <2>1, <2>2 DEF ExitIsTrue, logs, Registered
  <2>3. CASE RunRecords
    <3>1. \A c \in Clients : slog[c] # None => slog'[c] # None
      BY <2>3, LogsBy, NoneAssumption DEF LogGrown, OnlyLog
    <3>. QED
      BY <2>1, <3>1 DEF ExitIsTrue, Registered
  <2>. QED
    BY <1>3, <2>2, <2>3 DEF RunStep, RunStarts
<1>4. CASE LogStep
  <2>1. CASE EndLogs
    BY <2>1, EndIs DEF EndLogs, ExitIsTrue, LogToolOK, Registered, vaults, logs
  <2>2. op'.at # "exit" \/ op'.code = 2 \/ EndLogs
    <3>1. CASE Migrate \/ Bootstrap
      BY <3>1, MigrateTool, BootstrapTool
    <3>2. CASE MigrateRegistry \/ SwapRegistry \/ RenameLog \/ VerifyLog \/ SealFails
      BY <3>2, GotoIs DEF MigrateRegistry, SwapRegistry, RenameLog, VerifyLog, SealFails, Steps
    <3>3. CASE UnmakeLogDir \/ MigrateFails \/ Unlog
      BY <3>3, EndIs DEF UnmakeLogDir, MigrateFails, Unlog
    <3>4. ASSUME NEW c \in Clients, CopyLog(c) \/ SkipLog(c) \/ CreateLog(c)
          PROVE  op'.at # "exit"
      BY <3>4, CopyLogTool, SkipLogTool, CreateLogTool DEF SkipLog, CreateLog, Running
    <3>5. ASSUME NEW c \in Clients, RefuseLog(c) \/ MakeLogDir(c)
          PROVE  op'.at # "exit" \/ op'.code = 2
      BY <3>5, EndIs, GotoIs DEF RefuseLog, MakeLogDir, Steps
    <3>6. CASE Seal
      BY <3>6, SealTool
    <3>. QED
      BY <1>4, <3>1, <3>2, <3>3, <3>4, <3>5, <3>6 DEF LogStep
  <2>. QED
    BY <1>4, <2>1, <2>2, LogStays DEF ExitIsTrue
<1>5. ASSUME NEW c \in Clients, Register(c) \/ Purge(c)
      PROVE  ExitIsTrue'
  <2>1. op'.tool \in {"register", "purge"} /\ op'.code \in {0, 1, 2}
    BY <1>5, RegisterTool, PurgeTool
  <2>2. op'.tool = "purge" => op'.at # "exit" \/ op'.code = 2
    BY <1>5, RegisterTool, PurgeTool
  <2>. QED
    BY <2>1, <2>2 DEF ExitIsTrue
<1>6. CASE Install \/ InstallFails
  BY <1>6, EndIs DEF Install, InstallFails, ExitIsTrue, Running
<1>7. CASE Export \/ Delete \/ Book
  BY <1>7, EndIs, GotoIs DEF Export, Delete, Book, ExitIsTrue, Running, Steps
<1>8. CASE Flip
  <2>1. PICK c \in Clients : c = op.c
    BY <1>8 DEF Flip, Running, ToolTyped
  <2>2. reg' = [reg EXCEPT !.of[c] = "offboarded"] /\ "offboarded" \in Statuses /\ reg \in Registries
    BY <1>8, <2>1 DEF Flip, Statuses, Typed
  <2>3. reg'.of[c] = "offboarded"
    BY <2>2, StatusTyped
  <2>4. vault[c] = "gone" /\ c \in deletions /\ UNCHANGED <<vault, deletions>>
    BY <1>8, <2>1 DEF Flip, Running, BooksOK, vaults
  <2>. QED
    BY <1>8, <2>1, <2>3, <2>4, EndIs DEF Flip, ExitIsTrue, Running
<1>9. CASE BookkeepingFails
  BY <1>9, EndIs DEF BookkeepingFails, ExitIsTrue, BooksOK, vaults
<1>. QED
  BY <1>1, <1>2, <1>3, <1>4, <1>5, <1>6, <1>7, <1>8, <1>9, StepIs DEF BookStep

\* A registry of the kind a missing file has is the one --apply found there.
LEMMA AbsentIs ==
    ASSUME Typed, TreeOK, entry["clients.json"] = "missing"
    PROVE  reg = Registry("absent")
<1>1. reg = [kind |-> reg.kind, of |-> reg.of] /\ reg.of \in [Clients -> Statuses]
  BY DEF Typed, Registries
<1>2. reg.kind = "absent" /\ \A c \in Clients : reg.of[c] = "none"
  BY DEF TreeOK
<1>3. reg.of = [c \in Clients |-> "none"]
  BY <1>1, <1>2
<1>. QED
  BY <1>1, <1>2, <1>3 DEF Registry

\* While --apply is at work its parts of the invariant hold of what it found.
LEMMA AtWork ==
    ASSUME Typed, ToolTyped, ApplyOK, op.tool = "apply", op.at # "exit"
    PROVE  /\ before # None /\ before \in Found /\ FoundOK /\ MadeOK /\ StageOK
           /\ op.todo \subseteq Entries /\ op.made \in Seq(Entries)
BY DEF Typed, ToolTyped, ToolRecords, ApplyOK

\* After a step that leaves what was made as it is, or adds to it.
LEMMA ApplyBegins ==
    ASSUME Typed, ToolTyped, TreeOK, Apply
    PROVE  ApplyOK' /\ ApplyIsWholeOrNothing'
<1>1. UNCHANGED <<entry, reg>>
  BY DEF Apply
<1>2. op'.tool = "apply" /\ DOMAIN op'.made = {} /\ before = None
  BY ApplyTool, NoToolIs, NoneAssumption DEF ToolTyped, Tools
<1>3. CASE op'.at = "exit"
  BY <1>2, <1>3, ApplyTool DEF ApplyOK, ApplyIsWholeOrNothing
<1>4. CASE op'.at # "exit"
  <2>1. /\ op'.at = "create" /\ op'.todo = Missing
        /\ before' = [entry |-> entry, reg |-> reg]
        /\ \A e \in Entries : entry[e] \in {"missing", "ok"}
    BY <1>4, ApplyTool
  <2>2. before' \in Found /\ before' # None
    BY <2>1, NoneAssumption DEF Found, Typed
  <2>3. before'.entry = entry /\ before'.reg = reg
    BY <2>1
  <2>4. FoundOK'
    BY <1>1, <1>2, <2>1, <2>3, AbsentIs, EntriesAre DEF FoundOK, Made
  <2>5. MadeOK'
    BY <1>2 DEF MadeOK, Made
  <2>6. StageOK'
    BY <1>1, <2>1, <2>3 DEF StageOK, Missing
  <2>. QED
    BY <1>2, <2>1, <2>2, <2>3, <1>1, <2>4, <2>5, <2>6 DEF ApplyOK, ApplyIsWholeOrNothing
<1>. QED
  BY <1>3, <1>4

LEMMA CreateKept ==
    ASSUME Typed, ToolTyped, TreeOK, ApplyOK, CreateEntry
    PROVE  ApplyOK'
<1>1. /\ op.tool = "apply" /\ op.at = "create" /\ op.todo # {}
      /\ before # None /\ before \in Found /\ FoundOK /\ MadeOK /\ StageOK
      /\ op.todo \subseteq Entries /\ op.made \in Seq(Entries)
  BY AtWork DEF CreateEntry, Running
<1>2. PICK x \in op.todo :
        /\ x = NextEntry /\ Row(x, "closed")
        /\ x = "clients.json" => reg' \in {Registry("broken"), Registry("bare")}
        /\ x # "clients.json" => reg' = reg
  BY ApplyChange
<1>3. /\ op'.tool = "apply" /\ op'.at = "finish" /\ op'.todo = op.todo
      /\ op'.made = Append(op.made, x) /\ op'.noted = op.noted /\ before' = before
      /\ slog' = slog
  BY <1>1, <1>2, CreateEntryTool DEF CreateEntry, logs
<1>4. NextEntry' = x
  BY <1>2, <1>3 DEF NextEntry
<1>5. \A e \in Entries : Made(e)' <=> Made(e) \/ e = x
  BY <1>1, <1>3 DEF Made
<1>6. /\ x \in Entries /\ \A e \in Entries : entry'[e] = IF e = x THEN "closed" ELSE entry[e]
  BY <1>2 DEF Row
<1>7. entry[x] = "missing" /\ before.entry[x] = "missing"
  BY <1>1, <1>6 DEF StageOK, FoundOK
<1>8. FoundOK'
  BY <1>1, <1>2, <1>3, <1>5, <1>6, <1>7 DEF FoundOK
<1>9. MadeOK'
  <2>1. x \in {"store", "log"} => \A c \in Clients : slog[c] = None
    BY <1>7, EntriesAre DEF TreeOK
  <2>2. x = "clients.json" => reg'.kind \in {"broken", "bare"}
    BY <1>2, RegistryTyped
  <2>3. "clients.json" \in Entries /\ "store" \in Entries /\ "log" \in Entries
    BY EntriesAre
  <2>. QED
    BY <1>1, <1>2, <1>3, <1>5, <2>1, <2>2, <2>3 DEF MadeOK
<1>10. StageOK'
  BY <1>1, <1>3, <1>4, <1>5, <1>6, <1>7 DEF StageOK
<1>. QED
  BY <1>1, <1>3, <1>8, <1>9, <1>10 DEF ApplyOK

LEMMA FinishKept ==
    ASSUME Typed, ToolTyped, TreeOK, ApplyOK, FinishEntry
    PROVE  ApplyOK'
<1>1. /\ op.tool = "apply" /\ op.at = "finish" /\ op.todo # {}
      /\ before # None /\ before \in Found /\ FoundOK /\ MadeOK /\ StageOK
      /\ op.todo \subseteq Entries /\ op.made \in Seq(Entries)
  BY AtWork DEF FinishEntry, Running, StageOK
<1>2. PICK x \in op.todo :
        /\ x = NextEntry /\ Row(x, "ok")
        /\ x = "clients.json" => reg' = Registry("bare")
        /\ x # "clients.json" => reg' = reg
  BY <1>1, ApplyChange
<1>3. /\ op'.tool = "apply" /\ op'.at = "create" /\ op'.todo = op.todo \ {x}
      /\ op'.made = op.made /\ op'.noted = op.noted /\ before' = before
      /\ slog' = slog
  BY <1>1, <1>2, FinishEntryTool DEF FinishEntry, logs
<1>5. \A e \in Entries : Made(e)' <=> Made(e)
  BY <1>3 DEF Made
<1>6. /\ x \in Entries /\ \A e \in Entries : entry'[e] = IF e = x THEN "ok" ELSE entry[e]
  BY <1>2 DEF Row
<1>7. Made(x) /\ before.entry[x] = "missing"
  BY <1>1, <1>2, <1>6 DEF StageOK, FoundOK
<1>8. FoundOK'
  BY <1>1, <1>2, <1>3, <1>5, <1>6, <1>7 DEF FoundOK
<1>9. MadeOK'
  <2>2. x = "clients.json" => reg'.kind = "bare"
    BY <1>2, RegistryTyped
  <2>3. "clients.json" \in Entries /\ "store" \in Entries /\ "log" \in Entries
    BY EntriesAre
  <2>. QED
    BY <1>1, <1>2, <1>3, <1>5, <2>2, <2>3 DEF MadeOK
<1>10. StageOK'
  BY <1>1, <1>2, <1>3, <1>5, <1>6, <1>7 DEF StageOK
<1>. QED
  BY <1>1, <1>3, <1>8, <1>9, <1>10 DEF ApplyOK

LEMMA RollbackKept ==
    ASSUME Typed, ToolTyped, TreeOK, ApplyOK, Rollback
    PROVE  ApplyOK'
<1>1. /\ op.tool = "apply" /\ op.at = "rollback"
      /\ before # None /\ before \in Found /\ FoundOK /\ MadeOK /\ StageOK
      /\ op.made \in Seq(Entries)
  BY AtWork DEF Rollback, Running
<1>2. /\ op'.tool = "apply" /\ op'.at = "rollback" /\ before' = before /\ slog' = slog
      /\ op.made # <<>> /\ op'.made = SubSeq(op.made, 1, Len(op.made) - 1)
      /\ op'.noted = op.noted \/ (op'.noted = TRUE /\ UNCHANGED <<entry, reg>>)
  BY <1>1, RollbackTool DEF Rollback, logs
<1>3. /\ DOMAIN op'.made = 1 .. Len(op.made) - 1 /\ DOMAIN op.made = 1 .. Len(op.made)
      /\ Len(op.made) \in Nat
      /\ \A i \in DOMAIN op'.made : op'.made[i] = op.made[i]
  BY <1>1, <1>2, AllButLast
<1>4. \A e \in Entries : Made(e)' => Made(e)
  BY <1>3 DEF Made
<1>5. CASE UNCHANGED <<entry, reg>> /\ op'.noted = TRUE
  <2>1. FoundOK'
    BY <1>1, <1>2, <1>4, <1>5 DEF FoundOK
  <2>2. MadeOK'
    BY <1>1, <1>2, <1>4, <1>5, EntriesAre DEF MadeOK
  <2>3. StageOK'
    BY <1>1, <1>2, <1>5 DEF StageOK
  <2>. QED
    BY <1>1, <1>2, <2>1, <2>2, <2>3 DEF ApplyOK
<1>6. ASSUME NEW i \in DOMAIN op.made, NEW x \in Entries,
             i = Len(op.made), x = op.made[i], Row(x, "missing"),
             x = "clients.json" => reg' = Registry("absent"),
             x # "clients.json" => reg' = reg
      PROVE  ApplyOK'
  <2>1. \A e \in Entries \ {x} : Made(e)' <=> Made(e)
    <3>1. ASSUME NEW e \in Entries \ {x}, Made(e)
          PROVE  Made(e)'
      <4>1. PICK k \in DOMAIN op.made : op.made[k] = e
        BY <3>1 DEF Made
      <4>2. k # Len(op.made)
        BY <1>6, <4>1
      <4>3. k \in DOMAIN op'.made
        BY <1>3, <4>1, <4>2
      <4>. QED
        BY <1>3, <4>1, <4>3 DEF Made
    <3>. QED
      BY <1>4, <3>1
  <2>2. \A e \in Entries : entry'[e] = IF e = x THEN "missing" ELSE entry[e]
    BY <1>6 DEF Row
  <2>3. Made(x) /\ before.entry[x] = "missing"
    BY <1>1, <1>6 DEF Made, FoundOK
  <2>4. FoundOK'
    BY <1>1, <1>2, <1>4, <1>6, <2>2, <2>3 DEF FoundOK
  <2>5. x = "clients.json" => reg'.kind = "absent"
    BY <1>6, RegistryTyped
  <2>6. MadeOK'
    BY <1>1, <1>2, <1>4, <1>6, <2>5, EntriesAre DEF MadeOK
  <2>7. StageOK'
    BY <1>1, <1>2, <2>1, <2>2 DEF StageOK
  <2>. QED
    BY <1>1, <1>2, <2>4, <2>6, <2>7 DEF ApplyOK
<1>. QED
  BY <1>5, <1>6, ApplyChange

\* A refusal that names nothing has left everything as it was.
LEMMA EndKept ==
    ASSUME Typed, ToolTyped, TreeOK, ApplyOK, EndApply
    PROVE  ApplyOK' /\ ApplyIsWholeOrNothing'
<1>1. /\ op.tool = "apply" /\ op.at \in {"create", "rollback"}
      /\ before # None /\ before \in Found /\ FoundOK /\ MadeOK /\ StageOK
      /\ UNCHANGED <<entry, reg, before>>
  BY AtWork, EndIs DEF EndApply, Running, ToolTyped
<1>2. /\ op'.tool = "apply" /\ op'.at = "exit" /\ DOMAIN op'.made = {} /\ op'.noted = op.noted
      /\ \/ op'.code = 0 /\ op.at = "create" /\ op.todo = {}
         \/ op'.code = 2 /\ op.at = "rollback" /\ op.made = <<>>
  BY <1>1, EndIs DEF EndApply, Running, ToolTyped
<1>3. ApplyOK'
  BY <1>1, <1>2 DEF ApplyOK, FoundOK, MadeOK, StageOK, Made
<1>4. op'.code = 0 => LayoutOk'
  BY <1>1, <1>2 DEF StageOK, LayoutOk
<1>5. op'.code # 0 => op.noted \/ (entry = before.entry /\ reg = before.reg)
  <2>. SUFFICES ASSUME op.at = "rollback", op.made = <<>>, ~op.noted
       PROVE  entry = before.entry /\ reg = before.reg
    BY <1>2 DEF ToolTyped, ToolRecords
  <2>1. \A e \in Entries : entry[e] = before.entry[e]
    BY <1>1 DEF StageOK, FoundOK, Made
  <2>2. entry \in [Entries -> Rows("log")] /\ before.entry \in [Entries -> Rows("log")]
    BY <1>1 DEF Typed, Found
  <2>3. reg = before.reg
    BY <1>1, <2>1, AbsentIs, EntriesAre DEF FoundOK
  <2>. QED
    BY <2>1, <2>2, <2>3
<1>. QED
  BY <1>1, <1>2, <1>3, <1>4, <1>5 DEF ApplyIsWholeOrNothing, FoundOK

LEMMA ApplyKept ==
    ASSUME Typed, ToolTyped, TreeOK, ApplyOK, ApplyIsWholeOrNothing, LogToolOK, Next,
           ToolTyped'
    PROVE  ApplyOK' /\ ApplyIsWholeOrNothing'
<1>. op \in ToolRecords
  BY DEF ToolTyped
<1>1. ApplyOK' => (op'.at # "exit" => ApplyIsWholeOrNothing')
  BY DEF ApplyOK, ApplyIsWholeOrNothing, FoundOK
<1>2. CASE CreateEntry
  BY <1>1, <1>2, CreateKept, CreateEntryTool
<1>3. CASE FinishEntry
  BY <1>1, <1>3, FinishKept, FinishEntryTool
<1>4. CASE Rollback
  BY <1>1, <1>4, RollbackKept, RollbackTool DEF Rollback, Running
<1>5. CASE EntryFails
  <2>1. /\ op'.tool = "apply" /\ op'.at = "rollback" /\ op'.made = op.made
        /\ UNCHANGED <<entry, reg, slog, before>> /\ op'.noted = op.noted
        /\ op.tool = "apply" /\ op.at \in {"create", "finish"}
    BY <1>5, GotoIs DEF EntryFails, Steps, logs
  <2>2. ApplyOK'
    BY <2>1, AtWork DEF ApplyOK, FoundOK, MadeOK, StageOK, Made
  <2>. QED
    BY <1>1, <2>1, <2>2
<1>6. CASE LogStep \/ BookStep \/ HandStep \/ OverStep
  <2>1. op'.tool # "apply"
    BY <1>6, LogStays, BookStays, ToolRests, NoToolIs, NoneAssumption DEF Tools
  <2>. QED
    BY <2>1 DEF ApplyOK, ApplyIsWholeOrNothing
<1>7. CASE RunStep
  <2>1. UNCHANGED <<op, before, entry, reg>>
    BY <1>7 DEF RunStep, RunRecords, RunStarts
  <2>2. (\A c \in Clients : slog[c] = None) => \A c \in Clients : slog'[c] = None
    <3>1. CASE RunRecords
      BY <3>1, LogsBy, NoneAssumption DEF LogGrown
    <3>. QED
      BY <1>7, <3>1 DEF RunStep, RunStarts, logs
  <2>3. NextEntry' = NextEntry /\ \A e : Made(e)' = Made(e)
    BY <2>1 DEF NextEntry, Made
  <2>. QED
    BY <2>1, <2>2, <2>3
       DEF ApplyOK, ApplyIsWholeOrNothing, FoundOK, MadeOK, StageOK, LayoutOk
<1>. QED
  BY <1>2, <1>3, <1>4, <1>5, <1>6, <1>7, ApplyBegins, EndKept, StepIs DEF ApplyStep

-----------------------------------------------------------------------------
(***************************************************************************)
(* The theorems.                                                           *)
(***************************************************************************)
LEMMA InitStoreInv == Init => StoreInv
<1>. SUFFICES ASSUME Init PROVE StoreInv
  OBVIOUS
<1>0. PICK v \in {"missing", "ok"} : entry = [x \in Entries |-> v]
  BY DEF Init
<1>1. /\ \A e \in Entries : entry[e] = v
      /\ reg = Registry(IF v = "ok" THEN "bare" ELSE "absent")
      /\ slog = [c \in Clients |-> None] /\ wrote = [c \in Clients |-> 0]
      /\ newfile = FALSE /\ op = NoTool /\ exec = None /\ before = None
      /\ vault = [c \in Clients |-> "whole"] /\ export = [c \in Clients |-> None]
      /\ deletions = {}
  BY <1>0, EntriesAre DEF Init
<1>2. /\ reg \in Registries /\ \A c \in Clients : reg.of[c] = "none"
      /\ reg.kind = IF v = "ok" THEN "bare" ELSE "absent"
  BY <1>0, <1>1, RegistryTyped
<1>3. vreg \in {None} \cup {r \in Registries : r.kind = "clients"}
  <2>1. PICK c \in Clients : vreg \in {None, [Registry("clients") EXCEPT !.of[c] = "active"]}
    BY DEF Init
  <2>2. Registry("clients") \in Registries /\ Registry("clients").kind = "clients"
    BY RegistryTyped
  <2>3. "active" \in Statuses
    BY DEF Statuses
  <2>4. CASE vreg = None
    BY <2>4
  <2>5. CASE vreg = [Registry("clients") EXCEPT !.of[c] = "active"]
    <3>1. vreg \in Registries
      BY <2>1, <2>2, <2>3, <2>5, StatusTyped
    <3>2. vreg.kind = "clients"
      BY <2>2, <2>5 DEF Registries
    <3>. QED
      BY <3>1, <3>2
  <2>. QED
    BY <2>1, <2>4, <2>5
<1>4. vlog \in [Clients -> VaultLogs \cup {None}] /\ \A c \in Clients : vlog[c] # None
  <2>1. PICK b \in Clients, torn \in BOOLEAN :
          vlog = [d \in Clients |-> [recs |-> MaxRecords - 1, torn |-> torn /\ d = b]]
    BY DEF Init
  <2>2. \A d \in Clients : [recs |-> MaxRecords - 1, torn |-> torn /\ d = b] \in VaultLogs
    BY StoreAssumption DEF VaultLogs
  <2>. QED
    BY <2>1, <2>2, NoneAssumption
<1>5. Typed
  BY <1>0, <1>1, <1>2, <1>3, <1>4 DEF Typed, Rows
<1>6. op.tool = None /\ op.at = None
  BY <1>1, NoToolIs
<1>7. ToolTyped
  BY <1>1, NoToolIs, NoneAssumption DEF ToolTyped, Tools, Steps
<1>8. TreeOK
  BY <1>0, <1>1, <1>2, EntriesAre DEF TreeOK, Rows
<1>9. LogsOK /\ ExecOK
  BY <1>1 DEF LogsOK, ExecOK
<1>10. ApplyOK /\ LogToolOK /\ BooksOK /\ ExitIsTrue /\ ApplyIsWholeOrNothing
  BY <1>1, <1>6, NoneAssumption
     DEF ApplyOK, LogToolOK, BooksOK, ExitIsTrue, ApplyIsWholeOrNothing, Tools, Steps
<1>. QED
  BY <1>5, <1>7, <1>8, <1>9, <1>10 DEF StoreInv

LEMMA StepStoreInv == StoreInv /\ [Next]_vars => StoreInv'
<1>1. ASSUME StoreInv, Next PROVE StoreInv'
  <2>1. ToolTyped'
    BY <1>1, ToolTypedKept DEF StoreInv
  <2>. QED
    BY <1>1, <2>1, TypedKept, TreeKept, LogsKept, ExecKept, ApplyKept, LogToolKept, BooksKept,
       ExitKept DEF StoreInv
<1>2. ASSUME StoreInv, UNCHANGED vars PROVE StoreInv'
  <2>1. NextEntry' = NextEntry
    BY <1>2 DEF NextEntry, vars
  <2>. QED
    BY <1>2, <2>1
       DEF StoreInv, vars, logs, vaults, Typed, ToolTyped, TreeOK, LogsOK, ExecOK, Appendable,
           Reaches, ApplyOK, FoundOK, MadeOK, StageOK, Made, LogToolOK, LogDirOk, Registered,
           BooksOK, ExitIsTrue, ApplyIsWholeOrNothing, LayoutOk
<1>. QED
  BY <1>1, <1>2

\* At every step of a tool the store is as the tool takes it to be, whichever
\* calls failed and tools were killed before.
THEOREM StoreInvAlways == Spec => []StoreInv
<1>1. Init => StoreInv
  BY InitStoreInv
<1>2. StoreInv /\ [Next]_vars => StoreInv'
  BY StepStoreInv
<1>. QED
  BY <1>1, <1>2, PTL DEF Spec

\* Every tool leaves what its exit status says, or says what it left: a refused
\* --apply has taken back what it made, and the codes of the others are true.
THEOREM ToolsAreHonestAlways == Spec => []ToolsAreHonest
<1>1. StoreInv => ToolsAreHonest
  <2>. SUFFICES ASSUME StoreInv PROVE TypeOK
    BY DEF StoreInv, ToolsAreHonest
  <2>1. \A c \in Clients : slog[c] # None => slog[c].recs \in 0 .. wrote[c] /\ wrote[c] <= MaxRecords
    BY DEF StoreInv, Typed, LogsOK, LogFiles
  <2>2. entry["store"] = "missing" => Missing = Entries
    BY DEF StoreInv, TreeOK, Missing
  <2>3. reg.kind \in {"absent", "bare", "broken", "clients"} /\ reg.of \in [Clients -> Statuses]
    BY DEF StoreInv, Typed, Registries
  <2>. QED
    BY <2>1, <2>2, <2>3 DEF StoreInv, Typed, TreeOK, BooksOK, Running, TypeOK
<1>. QED
  BY <1>1, StoreInvAlways, PTL

\* No record is lost: a sealed log has every record it was ever given, and a run
\* that the preflight let through can record, whatever is done meanwhile.
THEOREM HistoryKeptAlways == Spec => []HistoryKept
<1>1. StoreInv => HistoryKept
  BY DEF StoreInv, HistoryKept, RecordsKept, RunCanRecord, Clean, RegisteredLogged,
         RegisteredSealed, Registered, LogsOK, ExecOK
<1>. QED
  BY <1>1, StoreInvAlways, PTL

\* A vault is whole or its export is, however the purge ends.
THEOREM PurgeKeepsACopyAlways == Spec => []PurgeKeepsACopy
<1>1. StoreInv => PurgeKeepsACopy
  BY DEF StoreInv, BooksOK, PurgeKeepsACopy
<1>. QED
  BY <1>1, StoreInvAlways, PTL

\* No step of a tool makes the registry forget a client or stop parsing.
THEOREM RegistryIsKept == Spec => RegistryKept
<1>1. ASSUME StoreInv, Next, reg.kind = "clients"
      PROVE  reg'.kind = "clients" /\ Registered \subseteq Registered'
  <2>. USE DEF StoreInv
  <2>1. entry["clients.json"] # "missing" /\ reg \in Registries
    BY <1>1 DEF TreeOK, Typed
  <2>2. CASE UNCHANGED reg
    BY <1>1, <2>2 DEF Registered
  <2>3. ASSUME CreateEntry
        PROVE  reg' = reg
    <3>1. PICK x \in op.todo : Row(x, "closed") /\ (x # "clients.json" => reg' = reg)
      BY <1>1, <2>3, ApplyChange
    <3>2. entry[x] = "missing"
      BY <1>1, <2>3, <3>1 DEF CreateEntry, Running, ApplyOK, StageOK, Row
    <3>. QED
      BY <2>1, <3>1, <3>2
  <2>4. ASSUME FinishEntry
        PROVE  reg' = reg
    <3>1. op.todo # {} /\ Made(NextEntry) /\ MadeOK
      BY <1>1, <2>4 DEF FinishEntry, Running, ApplyOK, StageOK
    <3>2. PICK x \in op.todo : x = NextEntry /\ (x # "clients.json" => reg' = reg)
      BY <1>1, <2>4, <3>1, ApplyChange
    <3>. QED
      BY <1>1, <3>1, <3>2 DEF MadeOK
  <2>5. ASSUME Rollback
        PROVE  reg' = reg
    <3>1. MadeOK
      BY <1>1, <2>5 DEF Rollback, Running, ApplyOK
    <3>2. ASSUME NEW i \in DOMAIN op.made, NEW x \in Entries, x = op.made[i]
          PROVE  x # "clients.json"
      BY <1>1, <3>1, <3>2 DEF MadeOK, Made
    <3>. QED
      BY <1>1, <2>5, <3>2, ApplyChange
  <2>6. ~SwapRegistry /\ ~HandRegistry
    BY <1>1 DEF SwapRegistry, HandRegistry, Running, LogToolOK
  <2>7. CASE Install \/ Flip
    <3>1. PICK c \in Clients : c = op.c
      BY <1>1, <2>7 DEF Install, Flip, Running, ToolTyped
    <3>2. PICK s \in Statuses : s # "none" /\ reg' = [reg EXCEPT !.of[c] = s]
      BY <2>7, <3>1 DEF Install, Flip, Statuses
    <3>. QED
      BY <1>1, <2>1, <3>2, StatusTyped DEF Registered
  <2>. QED
    BY <1>1, <2>2, <2>3, <2>4, <2>5, <2>6, <2>7, RegistryFrame
<1>2. StoreInv /\ [Next]_vars =>
        [(reg.kind = "clients") => (reg'.kind = "clients" /\ Registered \subseteq Registered')]_vars
  BY <1>1
<1>. QED
  BY <1>2, StoreInvAlways, PTL DEF Spec, RegistryKept

=============================================================================
