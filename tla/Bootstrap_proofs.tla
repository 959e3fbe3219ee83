-------------------------- MODULE Bootstrap_proofs --------------------------
(***************************************************************************)
(* Proofs about Bootstrap for any number of replicas and kills.            *)
(***************************************************************************)
EXTENDS Bootstrap, SequenceTheorems, TLAPS

Statements == [keys : SUBSET Keys, lookup : BOOLEAN]
Stages == [at : {"schema", "create", "users", "email", "name", "next", "insert", "ready", "down"},
           part : Nat, plan : Seq(Statements), seeding : BOOLEAN]

BootType ==
    /\ owner \in [Keys -> {"nobody", "crm", "other"}] /\ seeds \in Nat
    /\ boot \in [Starters -> Stages] /\ held \in [Starters -> SUBSET Keys]

\* Committed and uncommitted rows respect the unique keys.
HeldApart ==
    /\ \A r \in Starters : \A k \in held[r] : ~Taken(k)
    /\ \A q, r \in Starters : q # r => held[q] \cap held[r] = {}

\* The next statement of a plan inserts the administrator.
AdminNext(plan) == plan # <<>> /\ ~Head(plan).lookup /\ "admin@" \in Head(plan).keys

\* A replica past its reads has the administrator in its transaction or ahead of
\* it, or found one there; one that seeds did not find one.
Coming(b, rows) == "admin@" \in rows \/ AdminNext(b.plan)
AdminFine(b, rows) ==
    /\ b.at \in {"next", "insert"} => Coming(b, rows) \/ Taken("admin@")
    /\ b.at \in {"next", "insert"} /\ b.seeding => Coming(b, rows)
    /\ b.at = "insert" => b.plan # <<>>
    /\ b.at = "ready" => Taken("admin@")
    /\ b.at \notin {"next", "insert", "ready"} => ~b.seeding

AdminOnTheWay ==
    /\ owner["admin@"] # "other"
    /\ \A r \in Starters : AdminFine(boot[r], held[r])

SeedKnown == seeds \in {0, 1} /\ (seeds = 1 => Taken("admin@"))

BootInv == BootType /\ HeldApart /\ AdminOnTheWay /\ SeedKnown

-----------------------------------------------------------------------------
LEMMA StatementType ==
  ASSUME NEW keys \in SUBSET Keys
  PROVE  /\ Insert(keys) \in Statements /\ Ensure(keys) \in Statements
         /\ ~Insert(keys).lookup /\ Insert(keys).keys = keys
  BY DEF Insert, Ensure, Statements

LEMMA ShopsType == DemoShops \in Seq(Statements)
  <1>1. Ensure({"primary-store"}) \in Statements /\ Ensure({"lab-store"}) \in Statements
    BY StatementType DEF Keys
  <1> QED BY <1>1 DEF DemoShops

\* A plan that begins with the administrator.
LEMMA AdminFirst ==
  ASSUME NEW s \in Statements, ~s.lookup, "admin@" \in s.keys, NEW rest \in Seq(Statements)
  PROVE  <<s>> \o rest \in Seq(Statements) /\ AdminNext(<<s>> \o rest)
  <1>1. <<s>> \in Seq(Statements) /\ Len(<<s>>) = 1 /\ <<s>>[1] = s
    OBVIOUS
  <1>2. /\ <<s>> \o rest \in Seq(Statements) /\ Len(<<s>> \o rest) = 1 + Len(rest)
        /\ (<<s>> \o rest)[1] = s
    BY <1>1, ConcatProperties
  <1>3. <<s>> \o rest # <<>> /\ Head(<<s>> \o rest) = s
    BY <1>2, HeadTailProperties
  <1> QED BY <1>2, <1>3 DEF AdminNext

LEMMA ShortSeq ==
  ASSUME NEW S, NEW a \in S
  PROVE  <<a>> \in Seq(S) /\ \A b, c \in S : <<a, b, c>> \in Seq(S)
  OBVIOUS

LEMMA SeedPlanFacts == SeedPlan \in Seq(Statements) /\ AdminNext(SeedPlan)
  <1> DEFINE s == Insert({"admin", "admin@"})
             rest == <<Insert({"customers, products"}), Insert({"orders"}), Insert({"invoices"})>>
  <1>1. /\ s \in Statements /\ ~s.lookup /\ "admin@" \in s.keys
        /\ Insert({"customers, products"}) \in Statements
        /\ Insert({"orders"}) \in Statements /\ Insert({"invoices"}) \in Statements
    <2>1. /\ {"admin", "admin@"} \in SUBSET Keys /\ {"customers, products"} \in SUBSET Keys
          /\ {"orders"} \in SUBSET Keys /\ {"invoices"} \in SUBSET Keys
      BY DEF Keys
    <2> QED BY <2>1, StatementType
  <1>2. rest \in Seq(Statements)
    BY <1>1, ShortSeq
  <1>3. SeedPlan = (<<s>> \o DemoShops) \o rest
    BY DEF SeedPlan
  <1> HIDE DEF s, rest
  <1>4. (<<s>> \o DemoShops) \o rest = <<s>> \o (DemoShops \o rest)
    <2>1. <<s>> \in Seq(Statements)
      BY <1>1, ShortSeq
    <2> QED BY <1>2, <2>1, ShopsType, ConcatAssociative
  <1>5. DemoShops \o rest \in Seq(Statements)
    BY <1>2, ShopsType, ConcatProperties
  <1> QED BY <1>1, <1>3, <1>4, <1>5, AdminFirst

LEMMA NewAdminFacts == NewAdmin \o DemoShops \in Seq(Statements) /\ AdminNext(NewAdmin \o DemoShops)
  <1> DEFINE s == Insert({IF Taken("admin") THEN "crm-admin" ELSE "admin", "admin@"})
  <1>1. s \in Statements /\ ~s.lookup /\ "admin@" \in s.keys
    <2>1. {IF Taken("admin") THEN "crm-admin" ELSE "admin", "admin@"} \in SUBSET Keys
      BY DEF Keys
    <2> QED BY <2>1, StatementType
  <1>2. NewAdmin = <<s>>
    BY DEF NewAdmin
  <1> HIDE DEF s
  <1> QED BY <1>1, <1>2, ShopsType, AdminFirst

LEMMA BeginType == Begin \in Stages /\ Down \in Stages /\ ~Begin.seeding /\ ~Down.seeding
                   /\ Begin.at = "schema" /\ Down.at = "down"
  <1>1. <<>> \in Seq(Statements)
    OBVIOUS
  <1>2. Begin \in Stages /\ ~Begin.seeding /\ Begin.at = "schema"
    BY <1>1 DEF Begin, Stages
  <1> QED BY <1>2 DEF Down, Stages

LEMMA BootInitially == BootInit => BootInv
  <1> SUFFICES ASSUME BootInit PROVE BootInv
    OBVIOUS
  <1>1. BootType
    BY BeginType DEF BootInit, BootType
  <1>2. HeldApart /\ SeedKnown
    BY DEF BootInit, HeldApart, SeedKnown
  <1>3. AdminOnTheWay
    <2>1. owner["admin@"] = "nobody"
      BY DEF BootInit, Keys
    <2>2. ASSUME NEW r \in Starters PROVE boot[r].at = "schema" /\ ~boot[r].seeding
      BY BeginType DEF BootInit
    <2> QED BY <2>1, <2>2 DEF AdminOnTheWay, AdminFine
  <1> QED BY <1>1, <1>2, <1>3 DEF BootInv

-----------------------------------------------------------------------------
LEMMA AdminKey == "admin@" \in Keys
  BY DEF Keys

\* A step of one replica's own.
LEMMA BootMove ==
  ASSUME BootInv, NEW r \in Starters, NEW b \in Stages, NEW rows \in SUBSET Keys,
         boot' = [boot EXCEPT ![r] = b], held' = [held EXCEPT ![r] = rows],
         UNCHANGED <<owner, seeds>>, AdminFine(b, rows),
         \A k \in rows : k \in held[r] \/ (~Taken(k) /\ k \notin HeldByOthers(r))
  PROVE  BootInv'
  <1>0. /\ boot \in [Starters -> Stages] /\ held \in [Starters -> SUBSET Keys]
        /\ HeldApart /\ AdminOnTheWay /\ SeedKnown
    BY DEF BootInv, BootType
  <1>1. /\ boot'[r] = b /\ held'[r] = rows
        /\ \A q \in Starters \ {r} : boot'[q] = boot[q] /\ held'[q] = held[q]
    BY <1>0
  <1>2. BootType'
    BY DEF BootInv, BootType
  <1>3. HeldApart'
    <2>1. ASSUME NEW q \in Starters, NEW k \in held'[q] PROVE ~Taken(k)
      BY <1>0, <1>1, <2>1 DEF HeldApart
    <2>2. ASSUME NEW k \in rows PROVE \A q \in Starters \ {r} : k \notin held[q]
      BY <1>0, <2>2 DEF HeldApart, HeldByOthers
    <2>3. ASSUME NEW p \in Starters, NEW q \in Starters, p # q PROVE held'[p] \cap held'[q] = {}
      BY <1>0, <1>1, <2>2, <2>3 DEF HeldApart
    <2> QED BY <2>1, <2>3 DEF HeldApart, Taken
  <1>4. AdminOnTheWay'
    BY <1>0, <1>1 DEF AdminOnTheWay, AdminFine, Coming, Taken
  <1>5. SeedKnown'
    BY <1>0 DEF SeedKnown, Taken
  <1> QED BY <1>2, <1>3, <1>4, <1>5 DEF BootInv

LEMMA BootFacts ==
  ASSUME BootInv, NEW r \in Starters
  PROVE  /\ boot[r] \in Stages /\ held[r] \in SUBSET Keys /\ AdminFine(boot[r], held[r])
         /\ held = [held EXCEPT ![r] = held[r]]
  BY DEF BootInv, BootType, AdminOnTheWay

LEMMA Stay ==
  ASSUME BootInv, NEW r \in Starters, NEW b \in Stages, Goto(r, b), UNCHANGED <<owner, seeds, held>>,
         AdminFine(b, held[r])
  PROVE  BootInv'
  BY BootFacts, BootMove DEF Goto

LEMMA CrashStep ==
  ASSUME BootInv, NEW r \in Starters, Crash(r), UNCHANGED <<owner, seeds>>
  PROVE  BootInv'
  <1>1. AdminFine(Down, {})
    BY BeginType DEF AdminFine
  <1>2. boot' = [boot EXCEPT ![r] = Down] /\ held' = [held EXCEPT ![r] = {}]
    BY DEF Crash, Goto
  <1> DEFINE none == {}
  <1>3. none \in SUBSET Keys /\ \A k \in none : FALSE
    OBVIOUS
  <1>4. AdminFine(Down, none) /\ held' = [held EXCEPT ![r] = none]
    BY <1>1, <1>2
  <1> HIDE DEF none
  <1> QED BY <1>2, <1>3, <1>4, BeginType, BootMove

\* Schema and reads.
LEMMA ReadSteps ==
  ASSUME BootInv, NEW r \in Starters,
         CheckSchema(r) \/ LookForUsers(r) \/ FindAdmin(r) \/ ChooseName(r) \/ StartAgain(r)
  PROVE  BootInv'
  <1> DEFINE b == boot[r]
  <1>0. b \in Stages /\ AdminFine(b, held[r])
    BY BootFacts
  <1>s. UNCHANGED <<owner, seeds, held>>
    BY DEF CheckSchema, LookForUsers, FindAdmin, ChooseName, StartAgain
  <1>1. CASE CheckSchema(r)
    <2>1. b.at = "schema" /\ ~b.seeding
      BY <1>0, <1>1 DEF CheckSchema, AdminFine
    <2> DEFINE to == IF b.part = Len(Schema) THEN "users" ELSE "schema"
               d == [b EXCEPT !.part = @ + 1, !.at = to]
               c == [b EXCEPT !.at = "create"]
    <2>2. Goto(r, d) \/ Goto(r, c)
      BY <1>1 DEF CheckSchema
    <2>3. to \in {"users", "schema"}
      OBVIOUS
    <2> HIDE DEF to
    <2>4. d \in Stages /\ d.at = to /\ d.seeding = b.seeding /\ d.plan = b.plan
      <3>1. b.part + 1 \in Nat
        BY <1>0 DEF Stages
      <3> QED BY <1>0, <2>3, <3>1 DEF Stages
    <2>5. c \in Stages /\ c.at = "create" /\ c.seeding = b.seeding
      BY <1>0 DEF Stages
    <2> HIDE DEF c, d
    <2>6. AdminFine(d, held[r]) /\ AdminFine(c, held[r])
      BY <2>1, <2>3, <2>4, <2>5 DEF AdminFine
    <2> QED BY <1>s, <2>2, <2>4, <2>5, <2>6, Stay
  <1>2. CASE LookForUsers(r)
    <2>1. b.at = "users" /\ ~b.seeding
      BY <1>0, <1>2 DEF LookForUsers, AdminFine
    <2> DEFINE e == [b EXCEPT !.at = "email"]
               n == [b EXCEPT !.at = "next", !.plan = SeedPlan, !.seeding = TRUE]
    <2>2. Goto(r, e) \/ Goto(r, n)
      BY <1>2 DEF LookForUsers
    <2>3. e \in Stages /\ e.at = "email" /\ e.seeding = b.seeding
      BY <1>0 DEF Stages
    <2>4. n \in Stages /\ n.at = "next" /\ n.plan = SeedPlan
      BY <1>0, SeedPlanFacts DEF Stages
    <2> HIDE DEF e, n
    <2>5. AdminFine(e, held[r]) /\ AdminFine(n, held[r])
      BY <2>1, <2>3, <2>4, SeedPlanFacts DEF AdminFine, Coming
    <2> QED BY <1>s, <2>2, <2>3, <2>4, <2>5, Stay
  <1>3. CASE FindAdmin(r)
    <2>1. b.at = "email" /\ ~b.seeding
      BY <1>0, <1>3 DEF FindAdmin, AdminFine
    <2> DEFINE m == [b EXCEPT !.at = "name"]
               n == [b EXCEPT !.at = "next", !.plan = DemoShops]
    <2>2. Goto(r, m) \/ (Taken("admin@") /\ Goto(r, n))
      BY <1>3 DEF FindAdmin
    <2>3. m \in Stages /\ m.at = "name" /\ m.seeding = b.seeding
      BY <1>0 DEF Stages
    <2>4. n \in Stages /\ n.at = "next" /\ n.seeding = b.seeding
      BY <1>0, ShopsType DEF Stages
    <2> HIDE DEF m, n
    <2>5. AdminFine(m, held[r]) /\ (Taken("admin@") => AdminFine(n, held[r]))
      BY <2>1, <2>3, <2>4 DEF AdminFine
    <2> QED BY <1>s, <2>2, <2>3, <2>4, <2>5, Stay
  <1>4. CASE ChooseName(r)
    <2>1. b.at = "name" /\ ~b.seeding
      BY <1>0, <1>4 DEF ChooseName, AdminFine
    <2> DEFINE plan == NewAdmin \o DemoShops
               n == [b EXCEPT !.at = "next", !.plan = plan]
    <2>2. Goto(r, n)
      BY <1>4 DEF ChooseName
    <2>3. plan \in Seq(Statements) /\ AdminNext(plan)
      BY NewAdminFacts
    <2> HIDE DEF plan
    <2>4. n \in Stages /\ n.at = "next" /\ n.plan = plan
      BY <1>0, <2>3 DEF Stages
    <2> HIDE DEF n
    <2>5. AdminFine(n, held[r])
      BY <2>3, <2>4 DEF AdminFine, Coming
    <2> QED BY <1>s, <2>2, <2>4, <2>5, Stay
  <1>5. CASE StartAgain(r)
    <2>1. Goto(r, Begin) /\ AdminFine(Begin, held[r])
      BY <1>5, BeginType DEF StartAgain, AdminFine
    <2> QED BY <1>s, <2>1, BeginType, Stay
  <1> QED BY <1>1, <1>2, <1>3, <1>4, <1>5

\* Schema that another replica has made meanwhile, and kills.
LEMMA EndSteps ==
  ASSUME BootInv, NEW r \in Starters, CreateSchema(r) \/ Kill(r)
  PROVE  BootInv'
  <1>0. boot[r] \in Stages /\ AdminFine(boot[r], held[r]) /\ UNCHANGED <<owner, seeds>>
    BY BootFacts DEF CreateSchema, Kill
  <1>1. CASE Crash(r)
    BY <1>0, <1>1, CrashStep
  <1>2. CASE ~Crash(r)
    <2> DEFINE b == [boot[r] EXCEPT !.at = "schema"]
    <2>1. boot[r].at = "create" /\ Goto(r, b) /\ held' = held
      BY <1>2 DEF CreateSchema, Kill
    <2>2. b \in Stages /\ b.at = "schema" /\ b.seeding = boot[r].seeding
      BY <1>0 DEF Stages
    <2> HIDE DEF b
    <2>3. AdminFine(b, held[r])
      BY <1>0, <2>1, <2>2 DEF AdminFine
    <2> QED BY <1>0, <2>1, <2>2, <2>3, Stay
  <1> QED BY <1>1, <1>2

\* The next statement is looked at: a lookup is not the administrator's INSERT.
LEMMA StatementStep ==
  ASSUME BootInv, NEW r \in Starters, NextStatement(r)
  PROVE  BootInv'
  <1> DEFINE b == boot[r]
             skip == [b EXCEPT !.plan = Tail(b.plan)]
             do == [b EXCEPT !.at = "insert"]
  <1>0. /\ b \in Stages /\ AdminFine(b, held[r]) /\ b.plan \in Seq(Statements)
        /\ UNCHANGED <<owner, seeds, held>>
    BY BootFacts DEF NextStatement, Stages
  <1>1. b.at = "next" /\ b.plan # <<>> /\ Tail(b.plan) \in Seq(Statements)
    BY <1>0, HeadTailProperties DEF NextStatement
  <1>2. (Head(b.plan).lookup /\ Goto(r, skip)) \/ Goto(r, do)
    BY DEF NextStatement
  <1>3. /\ do \in Stages /\ do.at = "insert" /\ do.plan = b.plan /\ do.seeding = b.seeding
    BY <1>0 DEF Stages
  <1>4. skip \in Stages /\ skip.at = "next" /\ skip.seeding = b.seeding
    BY <1>0, <1>1 DEF Stages
  <1> HIDE DEF skip, do
  <1>5. AdminFine(do, held[r])
    BY <1>0, <1>1, <1>3 DEF AdminFine, Coming
  <1>6. Head(b.plan).lookup => AdminFine(skip, held[r])
    <2>1. Head(b.plan).lookup => (Coming(b, held[r]) <=> "admin@" \in held[r])
      BY DEF Coming, AdminNext
    <2> QED BY <1>0, <1>1, <1>4, <2>1 DEF AdminFine, Coming
  <1> QED BY <1>0, <1>2, <1>3, <1>4, <1>5, <1>6, Stay

\* The rows of a statement are new, or the start fails.
LEMMA RowsStep ==
  ASSUME BootInv, NEW r \in Starters, InsertRows(r)
  PROVE  BootInv'
  <1> DEFINE b == boot[r]
             keys == Head(b.plan).keys
             rows == held[r] \cup keys
             n == [b EXCEPT !.at = "next", !.plan = Tail(b.plan)]
  <1>0. /\ b \in Stages /\ AdminFine(b, held[r]) /\ b.plan \in Seq(Statements)
        /\ held[r] \in SUBSET Keys /\ UNCHANGED <<owner, seeds>> /\ b.at = "insert"
    BY BootFacts DEF InsertRows, Stages
  <1>1. /\ b.plan # <<>> /\ Tail(b.plan) \in Seq(Statements) /\ Head(b.plan) \in Statements
    BY <1>0, HeadTailProperties DEF AdminFine
  <1>2. CASE Crash(r)
    BY <1>0, <1>2, CrashStep
  <1>3. CASE ~Crash(r)
    <2>1. /\ keys \cap HeldByOthers(r) = {} /\ \A k \in keys : ~Taken(k)
          /\ held' = [held EXCEPT ![r] = rows] /\ boot' = [boot EXCEPT ![r] = n]
      BY <1>3 DEF InsertRows, RowRefused, Goto
    <2>2. keys \in SUBSET Keys
      BY <1>1 DEF Statements
    <2>3. n \in Stages /\ n.at = "next" /\ n.seeding = b.seeding
      BY <1>0, <1>1 DEF Stages
    <2>4. Coming(b, held[r]) => "admin@" \in rows
      BY DEF Coming, AdminNext
    <2>5. /\ rows \in SUBSET Keys
          /\ \A k \in rows : k \in held[r] \/ (~Taken(k) /\ k \notin HeldByOthers(r))
      BY <1>0, <2>1, <2>2
    <2> HIDE DEF n, rows
    <2>6. AdminFine(n, rows)
      BY <1>0, <2>3, <2>4 DEF AdminFine, Coming
    <2> QED BY <1>0, <2>1, <2>3, <2>5, <2>6, BootMove
  <1> QED BY <1>2, <1>3

\* A seeding commits the administrator, whom nobody had committed before.
LEMMA CommitStep ==
  ASSUME BootInv, NEW r \in Starters, CommitBootstrap(r)
  PROVE  BootInv'
  <1> DEFINE b == boot[r]
             n == [b EXCEPT !.at = "ready"]
  <1>0. /\ b \in Stages /\ AdminFine(b, held[r]) /\ held[r] \in SUBSET Keys
        /\ BootType /\ HeldApart /\ AdminOnTheWay /\ SeedKnown
        /\ b.at = "next" /\ b.plan = <<>>
    BY BootFacts DEF CommitBootstrap, BootInv
  <1>1. /\ owner' = [k \in Keys |-> IF k \in held[r] THEN "crm" ELSE owner[k]]
        /\ seeds' = IF b.seeding THEN seeds + 1 ELSE seeds
        /\ boot' = [boot EXCEPT ![r] = n] /\ held' = [held EXCEPT ![r] = {}]
    BY DEF CommitBootstrap, Goto
  <1>2. n \in Stages /\ n.at = "ready" /\ n.seeding = b.seeding
    BY <1>0 DEF Stages
  <1> HIDE DEF n
  <1>3. /\ "admin@" \in held[r] \/ Taken("admin@")
        /\ b.seeding => "admin@" \in held[r] /\ ~Taken("admin@")
    BY <1>0 DEF AdminFine, Coming, AdminNext, HeldApart
  <1>4. \A k \in Keys : Taken(k)' <=> Taken(k) \/ k \in held[r]
    BY <1>1 DEF Taken
  <1>5. /\ boot'[r] = n /\ held'[r] = {}
        /\ \A q \in Starters \ {r} : boot'[q] = boot[q] /\ held'[q] = held[q]
    BY <1>0, <1>1 DEF BootType
  <1>6. BootType'
    <2>1. owner' \in [Keys -> {"nobody", "crm", "other"}] /\ seeds' \in Nat
      BY <1>0, <1>1 DEF BootType
    <2>2. boot' \in [Starters -> Stages] /\ held' \in [Starters -> SUBSET Keys]
      BY <1>0, <1>1, <1>2 DEF BootType
    <2> QED BY <2>1, <2>2 DEF BootType
  <1>7. HeldApart'
    <2>1. ASSUME NEW q \in Starters, NEW k \in held'[q] PROVE ~Taken(k)'
      <3>1. q # r /\ k \in held[q] /\ k \in Keys
        BY <1>0, <1>5, <2>1 DEF BootType
      <3>2. ~Taken(k) /\ k \notin held[r]
        BY <1>0, <3>1 DEF HeldApart
      <3> QED BY <1>4, <3>1, <3>2
    <2>2. ASSUME NEW p \in Starters, NEW q \in Starters, p # q PROVE held'[p] \cap held'[q] = {}
      BY <1>0, <1>5, <2>2 DEF HeldApart
    <2> QED BY <2>1, <2>2 DEF HeldApart
  <1>8. AdminOnTheWay'
    <2>1. owner'["admin@"] # "other" /\ Taken("admin@")'
      BY <1>0, <1>1, <1>3, <1>4, AdminKey DEF AdminOnTheWay
    <2>2. ASSUME NEW q \in Starters PROVE AdminFine(boot[q], held[q])'
      <3>1. CASE q = r
        BY <1>2, <1>5, <2>1, <3>1 DEF AdminFine
      <3>2. CASE q # r
        <4>1. AdminFine(boot[q], held[q]) /\ boot'[q] = boot[q] /\ held'[q] = held[q]
          BY <1>0, <1>5, <3>2 DEF AdminOnTheWay
        <4> QED BY <2>1, <4>1 DEF AdminFine, Coming
      <3> QED BY <3>1, <3>2
    <2> QED BY <2>1, <2>2 DEF AdminOnTheWay
  <1>9. SeedKnown'
    BY <1>0, <1>1, <1>3, <1>4, AdminKey DEF SeedKnown
  <1> QED BY <1>6, <1>7, <1>8, <1>9 DEF BootInv

\* Rows of others: never the administrator's address, nor a key in use.
LEMMA OthersStep ==
  ASSUME BootInv, NEW k \in Keys, OthersInsert(k)
  PROVE  BootInv'
  <1>0. BootType /\ HeldApart /\ AdminOnTheWay /\ SeedKnown
    BY DEF BootInv
  <1>1. /\ k # "admin@" /\ ~Taken(k) /\ \A r \in Starters : k \notin held[r]
        /\ owner' = [owner EXCEPT ![k] = "other"] /\ UNCHANGED <<seeds, boot, held>>
    BY DEF OthersInsert
  <1>2. /\ owner'["admin@"] = owner["admin@"]
        /\ \A j \in Keys : j # k => owner'[j] = owner[j]
    BY <1>0, <1>1, AdminKey DEF BootType
  <1>3. BootType'
    BY <1>0, <1>1 DEF BootType
  <1>4. HeldApart'
    <2>1. ASSUME NEW r \in Starters, NEW j \in held[r] PROVE ~Taken(j)'
      BY <1>0, <1>1, <1>2 DEF HeldApart, BootType, Taken
    <2> QED BY <1>0, <1>1, <2>1 DEF HeldApart
  <1>5. AdminOnTheWay' /\ SeedKnown'
    BY <1>0, <1>1, <1>2 DEF AdminOnTheWay, AdminFine, Coming, SeedKnown, Taken
  <1> QED BY <1>3, <1>4, <1>5 DEF BootInv

LEMMA BootStepLemma == BootInv /\ [BootNext]_bootVars => BootInv'
  <1> SUFFICES ASSUME BootInv, [BootNext]_bootVars PROVE BootInv'
    OBVIOUS
  <1>1. ASSUME NEW r \in Starters, BootStep(r) \/ Kill(r) PROVE BootInv'
    BY <1>1, ReadSteps, EndSteps, StatementStep, RowsStep, CommitStep DEF BootStep
  <1>2. CASE UNCHANGED bootVars
    BY <1>2 DEF bootVars, BootInv, BootType, HeldApart, AdminOnTheWay, AdminFine, Coming, SeedKnown, Taken
  <1> QED BY <1>1, <1>2, OthersStep DEF BootNext

\* Of all replicas that find the database empty and seed it, one commits.
THEOREM SeedsOnce == BootSpec => []SeededOnce
  <1>1. BootInv => SeededOnce
    BY DEF BootInv, SeedKnown, SeededOnce
  <1> QED BY <1>1, BootInitially, BootStepLemma, PTL DEF BootSpec

\* A replica serves only when the administrator's row is one of bootstrap's.
THEOREM ReadyHasAdmin == BootSpec => []AdminWhenReady
  <1>1. BootInv => AdminWhenReady
    BY AdminKey DEF BootInv, BootType, AdminOnTheWay, AdminFine, AdminWhenReady, Taken
  <1> QED BY <1>1, BootInitially, BootStepLemma, PTL DEF BootSpec
=============================================================================
