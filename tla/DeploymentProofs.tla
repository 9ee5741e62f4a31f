-------------------------- MODULE DeploymentProofs --------------------------
(***************************************************************************)
(* Theorems about Deployment, for any treasures, both plans, any other     *)
(* targets and numbers of crashes, retries and fresh starts: what the file *)
(* of addresses says is deployed, and stays recorded; an entry that cannot *)
(* be completed is left only by starting over; and when crosschain has     *)
(* completed, the newest entry is initialized and wired to itself.         *)
(*                                                                         *)
(* For the first results the scripts matter in one way only: each begins   *)
(* by loading the file, starts a new entry right after that or never, and  *)
(* records an address right after the transaction that creates the         *)
(* contract.  The last one takes the order of their operations as a whole. *)
(***************************************************************************)
EXTENDS Deployment, Sums, SequenceTheorems

OpNames == {"load", "loadEntry", "startNewEntry", "require", "code", "minter", "manager", "record",
            "proxy", "install", "noSuchInitializer", "initialize", "sendInitialize", "wire", "price"}
TreasureNames == UNION {{Treasures[i].producer, Treasures[i].data} : i \in DOMAIN Treasures}
Names == OtherNames \cup TreasureNames
Ops == [op : OpNames, key : Names, args : SUBSET Names]
Loads == {"load", "loadEntry"}
Deploys == {"proxy", "install"}

\* The record at j is of the contract just created.
RecordsItsContract(s, j) ==
  s[j].op = "record" => j > 1 /\ s[j - 1].op \in Deploys /\ s[j - 1].key = s[j].key

\* Parts of scripts.
Parts == {s \in Seq(Ops) : \A j \in DOMAIN s : /\ s[j].op \notin Loads \cup {"startNewEntry"}
                                               /\ RecordsItsContract(s, j)}

\* Beginnings of scripts.
Beginnings == {s \in Seq(Ops) : /\ Len(s) >= 1 /\ s[1].op \in Loads
                                /\ \A j \in DOMAIN s : /\ s[j].op \in Loads => j = 1
                                                       /\ s[j].op = "startNewEntry" => j = 2
                                                       /\ RecordsItsContract(s, j)}

\* Parts of scripts join to parts.
LEMMA PartsJoin == \A s, t \in Parts : s \o t \in Parts
<1> SUFFICES ASSUME NEW s \in Parts, NEW t \in Parts PROVE s \o t \in Parts
  OBVIOUS
<1>1. s \in Seq(Ops) /\ t \in Seq(Ops) /\ s \o t \in Seq(Ops) /\ Len(s) \in Nat /\ Len(t) \in Nat
  BY DEF Parts
<1>2. ASSUME NEW j \in DOMAIN (s \o t)
      PROVE  (s \o t)[j].op \notin Loads \cup {"startNewEntry"} /\ RecordsItsContract(s \o t, j)
  <2>1. CASE j <= Len(s)
    <3>1. j \in DOMAIN s /\ (s \o t)[j] = s[j] /\ (j > 1 => (s \o t)[j - 1] = s[j - 1])
      BY <1>1, <2>1
    <3> QED
      BY <3>1 DEF Parts, RecordsItsContract
  <2>2. CASE ~(j <= Len(s))
    <3> DEFINE i == j - Len(s)
    <3>1. i \in DOMAIN t /\ (s \o t)[j] = t[i] /\ (i > 1 => (s \o t)[j - 1] = t[i - 1] /\ j > 1)
      BY <1>1, <2>2
    <3> HIDE DEF i
    <3> QED
      BY <3>1 DEF Parts, RecordsItsContract
  <2> QED
    BY <2>1, <2>2
<1> QED
  BY <1>1, <1>2 DEF Parts

\* A beginning goes on with a part.
LEMMA BeginningsGoOn == \A s \in Beginnings, t \in Parts : s \o t \in Beginnings
<1> SUFFICES ASSUME NEW s \in Beginnings, NEW t \in Parts PROVE s \o t \in Beginnings
  OBVIOUS
<1>1. s \in Seq(Ops) /\ t \in Seq(Ops) /\ s \o t \in Seq(Ops) /\ Len(s) \in Nat /\ Len(t) \in Nat
  BY DEF Parts, Beginnings
<1>2. ASSUME NEW j \in DOMAIN (s \o t)
      PROVE  /\ (s \o t)[j].op \in Loads => j = 1
             /\ (s \o t)[j].op = "startNewEntry" => j = 2
             /\ RecordsItsContract(s \o t, j)
  <2>1. CASE j <= Len(s)
    <3>1. j \in DOMAIN s /\ (s \o t)[j] = s[j] /\ (j > 1 => (s \o t)[j - 1] = s[j - 1])
      BY <1>1, <2>1
    <3> QED
      BY <3>1 DEF Beginnings, RecordsItsContract
  <2>2. CASE ~(j <= Len(s))
    <3> DEFINE i == j - Len(s)
    <3>1. i \in DOMAIN t /\ (s \o t)[j] = t[i] /\ (i > 1 => (s \o t)[j - 1] = t[i - 1] /\ j > 1)
      BY <1>1, <2>2
    <3> HIDE DEF i
    <3> QED
      BY <3>1 DEF Parts, RecordsItsContract
  <2> QED
    BY <2>1, <2>2
<1>3. Len(s \o t) >= 1 /\ (s \o t)[1] = s[1] /\ s[1].op \in Loads
  BY <1>1 DEF Beginnings
<1> QED
  BY <1>1, <1>2, <1>3 DEF Beginnings

\* The helpers of the scripts give parts.
LEMMA SmallParts ==
  ASSUME NEW key \in Names, NEW args \in SUBSET Names
  PROVE  /\ Proxy(key) \in Parts /\ Install(key, args) \in Parts
         /\ Initialize(key, args) \in Parts /\ SendInitialize(key, args) \in Parts
         /\ Wire(key, args) \in Parts
         /\ \A op \in {"code", "minter", "manager", "price", "noSuchInitializer"} :
              <<Op(op, key, args)>> \in Parts
<1>1. ASSUME NEW op \in OpNames PROVE Op(op, key, args) \in Ops /\ Op(op, key, {}) \in Ops
  BY DEF Op, Ops
<1>2. ASSUME NEW op \in Deploys, NEW given \in {args, {}}
      PROVE  <<Op(op, key, given), Op("record", key, {})>> \in Parts
  <2> DEFINE s == <<Op(op, key, given), Op("record", key, {})>>
  <2>0. Op(op, key, given) \in Ops /\ Op("record", key, {}) \in Ops
    BY <1>1 DEF Deploys, OpNames
  <2>1. s \in Seq(Ops) /\ DOMAIN s = 1..2
    BY <2>0
  <2>2. s[1] = Op(op, key, given) /\ s[2] = Op("record", key, {})
    OBVIOUS
  <2> HIDE DEF s
  <2> QED
    BY <2>1, <2>2 DEF Parts, RecordsItsContract, Op, Deploys, Loads, s
<1>3. ASSUME NEW op \in OpNames \ ({"record", "startNewEntry"} \cup Loads)
      PROVE  <<Op(op, key, args)>> \in Parts
  <2> DEFINE s == <<Op(op, key, args)>>
  <2>1. s \in Seq(Ops) /\ DOMAIN s = 1..1 /\ s[1] = Op(op, key, args)
    BY <1>1
  <2> HIDE DEF s
  <2> QED
    BY <2>1 DEF Parts, RecordsItsContract, Op, Loads, s
<1>4. Proxy(key) \in Parts /\ Install(key, args) \in Parts
  BY <1>2 DEF Proxy, Install, Deploys
<1>5. Initialize(key, args) \in Parts /\ SendInitialize(key, args) \in Parts /\ Wire(key, args) \in Parts
  BY <1>3 DEF Initialize, SendInitialize, Wire, Loads, OpNames
<1>6. QED
  BY <1>3, <1>4, <1>5 DEF Loads, OpNames

\* What scripts begin with.
LEMMA SmallBeginnings ==
  ASSUME NEW key \in Names, NEW args \in SUBSET Names, NEW op \in Loads
  PROVE  /\ <<Op(op, key, {})>> \in Beginnings
         /\ \A next \in {"require", "startNewEntry"} :
              <<Op(op, key, {}), Op(next, key, args)>> \in Beginnings
<1>1. ASSUME NEW o \in OpNames PROVE Op(o, key, args) \in Ops /\ Op(o, key, {}) \in Ops
  BY DEF Op, Ops
<1>2. op \in OpNames /\ op \notin {"record", "startNewEntry"}
  BY DEF Loads, OpNames
<1>3. ASSUME NEW next \in {"require", "startNewEntry"}
      PROVE  <<Op(op, key, {}), Op(next, key, args)>> \in Beginnings
  <2> DEFINE s == <<Op(op, key, {}), Op(next, key, args)>>
  <2>0. next \in OpNames /\ next \notin Loads \cup {"record"}
    BY DEF Loads, OpNames
  <2>1. s \in Seq(Ops) /\ Len(s) = 2 /\ DOMAIN s = 1..2
    BY <1>1, <1>2, <2>0
  <2>2. s[1].op = op /\ s[2].op = next
    BY DEF Op
  <2> HIDE DEF s
  <2>3. ASSUME NEW j \in DOMAIN s
        PROVE  /\ s[j].op \in Loads => j = 1
               /\ s[j].op = "startNewEntry" => j = 2
               /\ RecordsItsContract(s, j)
    <3>1. j = 1 \/ j = 2
      BY <2>1
    <3> QED
      BY <1>2, <2>0, <2>2, <3>1 DEF RecordsItsContract
  <2>4. s \in Beginnings
    BY <2>1, <2>2, <2>3 DEF Beginnings
  <2> QED
    BY <2>4 DEF s
<1>4. <<Op(op, key, {})>> \in Beginnings
  <2> DEFINE s == <<Op(op, key, {})>>
  <2>1. s \in Seq(Ops) /\ Len(s) = 1 /\ DOMAIN s = 1..1
    BY <1>1, <1>2
  <2>2. s[1].op = op
    BY DEF Op
  <2> HIDE DEF s
  <2>3. ASSUME NEW j \in DOMAIN s
        PROVE  /\ s[j].op \in Loads => j = 1
               /\ s[j].op = "startNewEntry" => j = 2
               /\ RecordsItsContract(s, j)
    <3>1. j = 1
      BY <2>1
    <3> QED
      BY <1>2, <2>2, <3>1 DEF RecordsItsContract
  <2>4. Len(s) >= 1 /\ s[1].op \in Loads
    BY <2>1, <2>2
  <2>5. s \in Beginnings
    BY <2>1, <2>3, <2>4 DEF Beginnings
  <2> QED
    BY <2>5 DEF s
<1>5. QED
  BY <1>3, <1>4

\* Loading the file begins a script, and base a new entry as well.
LEMMA LoadsBegin ==
  /\ \A required \in SUBSET Names : LoadEntry(required) \in Beginnings
  /\ \A op \in Loads : <<Op(op, "", {})>> \in Beginnings
  /\ <<Op("load", "", {}), Op("startNewEntry", "", {})>> \in Beginnings
<1>1. "" \in Names /\ {} \in SUBSET Names /\ {"load", "loadEntry"} = Loads
  BY DEF Names, OtherNames, Loads
<1>2. QED
  BY <1>1, SmallBeginnings DEF LoadEntry

\* The contracts of a treasure have names.
LEMMA NamesOfTreasures ==
  ASSUME NEW i \in DOMAIN Treasures
  PROVE  Treasures[i].producer \in Names /\ Treasures[i].data \in Names
<1>1. Treasures[i].producer \in TreasureNames /\ Treasures[i].data \in TreasureNames
  BY DEF TreasureNames
<1>2. QED
  BY <1>1 DEF Names, OtherNames

\* So have those there is one of.
LEMMA NamesOfScripts ==
  {"DAO", "MULSIG", "ROLES", "PARAMETER_INFO", "ORACLE", "GOVERNANCE", "TAT", "TCASH", "WTCASH",
   "WUNIT", "TAT_MANAGER", "TCASH_LOAN", "TCASH_AUCTION", "USTN", "USTN_AUCTION", "USTN_FINANCE",
   "CROSSCHAIN_TOKENS", "CROSSCHAIN_BRIDGE", "TOKENLOCKER", "BID"} \in SUBSET Names
BY DEF Names, OtherNames

\* A part for each treasure, one after the other.
LEMMA PartsInARow ==
  ASSUME NEW part, \A i \in DOMAIN Treasures : part[i] \in Parts,
         part = [i \in DOMAIN Treasures |-> part[i]]
  PROVE  FlattenSeq(part) \in Parts
<1>1. Parts \subseteq Seq(Ops) /\ <<>> \in Parts
  BY DEF Parts
<1>2. part \in Seq(Parts)
  BY DeploymentAssumption
<1>3. QED
  BY <1>1, <1>2, PartsJoin, FlattenStays

\* A pair is one operation after another.
LEMMA PairIsConcat == \A x, y : <<x, y>> = <<x>> \o <<y>>
<1> SUFFICES ASSUME NEW x, NEW y PROVE <<x, y>> = <<x>> \o <<y>>
  OBVIOUS
<1> DEFINE s == <<x>> \o <<y>>
<1>1. /\ <<x>> \in Seq({x, y}) /\ <<y>> \in Seq({x, y})
      /\ <<x, y>> \in Seq({x, y}) /\ Len(<<x, y>>) = 2
  OBVIOUS
<1>2. s \in Seq({x, y}) /\ Len(s) = 2
  BY <1>1
<1>3. s[1] = x /\ s[2] = y
  BY <1>1
<1> HIDE DEF s
<1>4. \A j \in 1..2 : s[j] = <<x, y>>[j]
  BY <1>3
<1>5. <<x, y>> = s
  BY <1>1, <1>2, <1>4, SeqEqual
<1>6. QED
  BY <1>5 DEF s

\* Every script begins by loading, and records what it has just created.
LEMMA ScriptsBegin ==
  /\ Base \in Beginnings /\ Producers \in Beginnings /\ TCashStack \in Beginnings
  /\ USTNStack \in Beginnings /\ Crosschain \in Beginnings /\ TokenLocker \in Beginnings
  /\ WrappedTokens \in Beginnings /\ Bid \in Beginnings
<1>1. Base \in Beginnings
  BY BeginningsGoOn, LoadsBegin, SmallParts, NamesOfScripts DEF Base
<1>2. Producers \in Beginnings
  <2> DEFINE names == {"DAO", "MULSIG", "ROLES", "PARAMETER_INFO"}
                        \cup UNION {{Treasures[i].producer, Treasures[i].data} : i \in DOMAIN Treasures}
             proxies == [i \in DOMAIN Treasures |-> Proxy(Treasures[i].producer) \o Proxy(Treasures[i].data)]
             calls == [i \in DOMAIN Treasures |->
                         SendInitialize(Treasures[i].producer, {"MULSIG", "ROLES", Treasures[i].data})
                         \o SendInitialize(Treasures[i].data,
                              {"ORACLE", "ROLES", "PARAMETER_INFO", Treasures[i].producer, "TAT"})]
  <2>1. names \in SUBSET Names
    BY NamesOfScripts DEF Names, OtherNames, TreasureNames
  <2>2. FlattenSeq(proxies) \in Parts
    <3>1. \A i \in DOMAIN Treasures : proxies[i] \in Parts
      BY NamesOfTreasures, SmallParts, PartsJoin
    <3> HIDE DEF proxies
    <3>2. proxies = [i \in DOMAIN Treasures |-> proxies[i]]
      BY DEF proxies
    <3> QED
      BY <3>1, <3>2, PartsInARow
  <2>3. FlattenSeq(calls) \in Parts
    <3>1. \A i \in DOMAIN Treasures : calls[i] \in Parts
      <4> SUFFICES ASSUME NEW i \in DOMAIN Treasures PROVE calls[i] \in Parts
        OBVIOUS
      <4>1. {"MULSIG", "ROLES", Treasures[i].data} \in SUBSET Names
            /\ {"ORACLE", "ROLES", "PARAMETER_INFO", Treasures[i].producer, "TAT"} \in SUBSET Names
        BY NamesOfTreasures, NamesOfScripts
      <4> QED
        BY <4>1, NamesOfTreasures, SmallParts, PartsJoin
    <3> HIDE DEF calls
    <3>2. calls = [i \in DOMAIN Treasures |-> calls[i]]
      BY DEF calls
    <3> QED
      BY <3>1, <3>2, PartsInARow
  <2> HIDE DEF names, proxies, calls
  <2>4. LoadEntry({"MULSIG", "ROLES", "PARAMETER_INFO", "ORACLE"}) \in Beginnings
    BY LoadsBegin, NamesOfScripts
  <2>5. Install("GOVERNANCE", names) \in Parts /\ Install("TAT", {"GOVERNANCE"}) \in Parts
    BY <2>1, SmallParts, NamesOfScripts
  <2>6. LoadEntry({"MULSIG", "ROLES", "PARAMETER_INFO", "ORACLE"}) \o FlattenSeq(proxies)
          \o Install("GOVERNANCE", names) \o Install("TAT", {"GOVERNANCE"}) \o FlattenSeq(calls) \in Beginnings
    BY <2>2, <2>3, <2>4, <2>5, BeginningsGoOn
  <2> QED
    BY <2>6 DEF Producers, names, proxies, calls
<1>3. TCashStack \in Beginnings
  BY BeginningsGoOn, LoadsBegin, SmallParts, NamesOfScripts DEF TCashStack
<1>4. USTNStack \in Beginnings
  BY BeginningsGoOn, LoadsBegin, SmallParts, NamesOfScripts DEF USTNStack
<1>5. Crosschain \in Beginnings
  <2> DEFINE needed == {"DAO", "MULSIG", "ROLES", "PARAMETER_INFO", "ORACLE", "GOVERNANCE",
                         "TCASH", "TCASH_LOAN", "TCASH_AUCTION", "TAT"}
             last == <<Op("manager", "ROLES", {}), Op("price", "ORACLE", {}), Op("price", "ORACLE", {})>>
  <2>1. needed \in SUBSET Names /\ "" \in Names
    BY NamesOfScripts DEF Names, OtherNames
  <2>2. last \in Parts
    <3>1. last = <<Op("manager", "ROLES", {})>> \o <<Op("price", "ORACLE", {})>> \o <<Op("price", "ORACLE", {})>>
      OBVIOUS
    <3> HIDE DEF last
    <3> QED
      BY <3>1, PartsJoin, SmallParts, NamesOfScripts
  <2>3. LoadEntry(needed) \in Beginnings /\ <<Op("code", "", needed)>> \in Parts
    BY <2>1, LoadsBegin, SmallParts
  <2> HIDE DEF needed, last
  <2>4. LoadEntry(needed) \o <<Op("code", "", needed)>> \in Beginnings
    BY <2>3, BeginningsGoOn
  <2>5. /\ Install("CROSSCHAIN_TOKENS", {}) \in Parts
        /\ Install("CROSSCHAIN_BRIDGE", {"CROSSCHAIN_TOKENS", "ROLES"}) \in Parts
        /\ Wire("CROSSCHAIN_TOKENS", {"MULSIG"}) \in Parts /\ Wire("TCASH_LOAN", {"TCASH_AUCTION"}) \in Parts
        /\ Initialize("MULSIG", {"DAO", "GOVERNANCE", "ROLES", "PARAMETER_INFO", "CROSSCHAIN_TOKENS"}) \in Parts
    BY SmallParts, NamesOfScripts
  <2>6. /\ Initialize("ROLES", {"MULSIG", "ORACLE", "CROSSCHAIN_BRIDGE", "TCASH", "TCASH_LOAN",
                                "TCASH_AUCTION", "CROSSCHAIN_TOKENS"}) \in Parts
        /\ Initialize("TCASH_LOAN", {"TCASH", "ROLES", "PARAMETER_INFO", "ORACLE", "TAT"}) \in Parts
        /\ <<Op("minter", "TCASH_LOAN", {})>> \in Parts
    BY SmallParts, NamesOfScripts
  <2> QED
    BY ONLY <2>2, <2>4, <2>5, <2>6, BeginningsGoOn DEF Crosschain, needed, last
<1>6. TokenLocker \in Beginnings
  BY BeginningsGoOn, LoadsBegin, SmallParts, NamesOfScripts DEF TokenLocker, Loads
<1>7. WrappedTokens \in Beginnings
  BY BeginningsGoOn, LoadsBegin, SmallParts, NamesOfScripts DEF WrappedTokens, Loads
<1>8. Bid \in Beginnings
  <2>1. Bid = <<Op("load", "", {})>> \o <<Op("noSuchInitializer", "BID", {})>>
    <3> DEFINE a == Op("load", "", {})
               b == Op("noSuchInitializer", "BID", {})
    <3>1. Bid = <<a, b>>
      BY DEF Bid
    <3> HIDE DEF a, b
    <3>2. <<a, b>> = <<a>> \o <<b>>
      BY PairIsConcat
    <3> QED
      BY <3>1, <3>2 DEF a, b
  <2> QED
    BY <2>1, BeginningsGoOn, LoadsBegin, SmallParts, NamesOfScripts DEF Loads
<1>9. QED
  BY <1>1, <1>2, <1>3, <1>4, <1>5, <1>6, <1>7, <1>8

\* The steps of the plan, by their place.
LEMMA PlanFacts ==
  /\ Plan \in Seq(DOMAIN Script) /\ Len(Plan) \in {5, 7} /\ DOMAIN Plan = 1..Len(Plan)
  /\ Plan[1] = "base" /\ Plan[2] = "producers" /\ Plan[3] = "tcash" /\ Plan[4] = "ustn"
  /\ Plan[5] = "crosschain"
  /\ Len(Plan) = 7 => Plan[6] = "tokenlocker" /\ Plan[7] = "wunit_wtcash"
  /\ \A i \in 2..Len(Plan) : Plan[i] # "base"
<1> DEFINE five(a, b, c, d, e) == <<a, b, c, d, e>>
           two(a, b) == <<a, b>>
           base == five("base", "producers", "tcash", "ustn", "crosschain")
           more == two("tokenlocker", "wunit_wtcash")
<1>1. Plan = base \/ Plan = base \o more
  BY PlanAssumption
<1>2. /\ \A a, b, c, d, e : /\ five(a, b, c, d, e) \in Seq({a, b, c, d, e}) /\ Len(five(a, b, c, d, e)) = 5
                            /\ five(a, b, c, d, e)[1] = a /\ five(a, b, c, d, e)[2] = b
                            /\ five(a, b, c, d, e)[3] = c /\ five(a, b, c, d, e)[4] = d
                            /\ five(a, b, c, d, e)[5] = e
      /\ \A a, b : /\ two(a, b) \in Seq({a, b}) /\ Len(two(a, b)) = 2
                   /\ two(a, b)[1] = a /\ two(a, b)[2] = b
  OBVIOUS
<1> HIDE DEF five, two
<1> DEFINE S == {"base", "producers", "tcash", "ustn", "crosschain"}
           T == {"tokenlocker", "wunit_wtcash"}
<1>3. /\ base \in Seq(S) /\ Len(base) = 5
      /\ base[1] = "base" /\ base[2] = "producers" /\ base[3] = "tcash" /\ base[4] = "ustn"
      /\ base[5] = "crosschain"
      /\ more \in Seq(T) /\ Len(more) = 2 /\ more[1] = "tokenlocker" /\ more[2] = "wunit_wtcash"
  BY ONLY <1>2
<1> HIDE DEF base, more, S, T
<1>4. /\ Len(base \o more) = Len(base) + Len(more)
      /\ \A i \in 1..Len(base) : (base \o more)[i] = base[i]
      /\ \A i \in 1..Len(more) : (base \o more)[Len(base) + i] = more[i]
  <2>1. base \in Seq(S \cup T) /\ more \in Seq(S \cup T)
    BY <1>3
  <2> QED
    BY <2>1
<1>5. /\ Len(base \o more) = 7
      /\ \A i \in 1..5 : (base \o more)[i] = base[i]
      /\ (base \o more)[6] = more[1] /\ (base \o more)[7] = more[2]
  <2>1. 1 \in 1..Len(more) /\ 2 \in 1..Len(more)
    BY <1>3
  <2>2. (base \o more)[Len(base) + 1] = more[1] /\ (base \o more)[Len(base) + 2] = more[2]
    BY <1>4, <2>1
  <2> QED
    BY <1>3, <1>4, <2>2
<1>6. Plan \in Seq(DOMAIN Script) /\ DOMAIN Plan = 1..Len(Plan)
  BY StepsAssumption
<1>7. (\A i \in 2..5 : i \in {2, 3, 4, 5}) /\ (\A i \in 2..7 : i \in {2, 3, 4, 5, 6, 7})
  OBVIOUS
<1>8. CASE Plan = base
  <2>1. /\ Plan[1] = "base" /\ Plan[2] = "producers" /\ Plan[3] = "tcash" /\ Plan[4] = "ustn"
        /\ Plan[5] = "crosschain" /\ Len(Plan) = 5
    BY <1>3, <1>8
  <2>2. Len(Plan) # 7
    BY <2>1
  <2>3. \A i \in 2..Len(Plan) : Plan[i] # "base"
    BY <1>7, <2>1
  <2> QED
    BY <1>6, <2>1, <2>2, <2>3
<1>9. CASE Plan = base \o more
  <2>1. /\ Plan[1] = "base" /\ Plan[2] = "producers" /\ Plan[3] = "tcash" /\ Plan[4] = "ustn"
        /\ Plan[5] = "crosschain" /\ Plan[6] = "tokenlocker" /\ Plan[7] = "wunit_wtcash"
        /\ Len(Plan) = 7
    BY <1>3, <1>5, <1>9
  <2> QED
    BY <1>6, <1>7, <2>1
<1> QED
  BY <1>1, <1>8, <1>9

\* So does every step.
LEMMA StepsBegin == \A step \in DOMAIN Script : Script[step] \in Beginnings
BY ScriptsBegin DEF Script

-----------------------------------------------------------------------------
(***************************************************************************)
(* The inductive invariant.  A transaction to create a contract is mined   *)
(* at the address its script expects, so that what is recorded after       *)
(* waiting for it is there; and what a script holds in memory is the file, *)
(* or the file with a new entry nothing is recorded in.                    *)
(***************************************************************************)

IsList(s) == \E S : s \in Seq(S)
Deployed(a, k) == a \in DOMAIN contracts /\ contracts[a].key = k
Pending(a, k) ==
  \E i \in DOMAIN mempool : mempool[i].op \in Deploys /\ mempool[i].key = k /\ mempool[i].nonce = a

\* The pool continues what has been mined, and addresses are given out once.
ChainInv ==
  /\ nonce \in Nat
  /\ IsList(mempool) /\ Len(mempool) <= nonce
  /\ \A i \in DOMAIN mempool :
       /\ mempool[i].nonce = nonce - Len(mempool) + i
       /\ mempool[i].op \in Deploys => mempool[i].address = mempool[i].nonce
  /\ contracts = [a \in DOMAIN contracts |-> contracts[a]]
  /\ \A a \in DOMAIN contracts : a \in Nat /\ a <= nonce - Len(mempool)

Sound(entries) ==
  /\ IsList(entries)
  /\ \A i \in DOMAIN entries : \A k \in DOMAIN entries[i] : Deployed(entries[i][k], k)

Newer(a, entries) ==
  a \in Nat /\ \A i \in DOMAIN entries : \A k \in DOMAIN entries[i] : entries[i][k] < a

\* What the running script has in memory, waits for, and is about to record.
ScriptInv ==
  /\ script = [step |-> script.step, pc |-> script.pc, entries |-> script.entries,
               address |-> script.address, sent |-> script.sent]
  /\ Running =>
       /\ script.step \in DOMAIN Script
       /\ script.pc \in 1..(Len(Script[script.step]) + 1)
       /\ Sound(script.entries)
       /\ script.pc > 1 => script.entries \in {file, <<NoEntry>> \o file}
       /\ script.pc = 2 => script.entries = file
       /\ script.sent # 0 => ~Finished
       /\ ~Finished /\ script.sent # 0 => At.op \in Creates \cup Calls
       /\ ~Finished /\ script.sent # 0 /\ At.op \in Deploys =>
            /\ script.sent = script.address
            /\ Deployed(script.address, At.key) \/ Pending(script.address, At.key)
            /\ Newer(script.address, script.entries)
       /\ ~Finished /\ At.op = "record" =>
            Deployed(script.address, At.key) /\ Newer(script.address, script.entries)

DeploymentInv ==
  /\ ChainInv
  /\ Sound(file)
  /\ ScriptInv
  /\ todo \in Seq(DOMAIN Script)

-----------------------------------------------------------------------------

\* A file that is missing or torn says nothing wrong.
LEMMA NoMoreIsSound == Sound(<<>>)
<1>1. <<>> \in Seq({}) /\ DOMAIN <<>> = {}
  OBVIOUS
<1>2. QED
  BY <1>1 DEF Sound, IsList

\* A list without its first element.
LEMMA TailOfList ==
  ASSUME NEW s, IsList(s), s # <<>>
  PROVE  /\ IsList(Tail(s)) /\ Len(s) \in Nat \ {0} /\ Len(Tail(s)) = Len(s) - 1
         /\ DOMAIN s = 1..Len(s) /\ DOMAIN Tail(s) = 1..(Len(s) - 1)
         /\ \A i \in DOMAIN Tail(s) : Tail(s)[i] = s[i + 1]
         /\ Head(s) = s[1]
<1>1. PICK S : s \in Seq(S)
  BY DEF IsList
<1>2. Tail(s) \in Seq(S) /\ Len(s) \in Nat \ {0} /\ Len(Tail(s)) = Len(s) - 1
  BY <1>1
<1>3. \A i \in 1..(Len(s) - 1) : Tail(s)[i] = s[i + 1]
  BY <1>1
<1>4. QED
  BY <1>1, <1>2, <1>3 DEF IsList

\* What is deployed stays, and what is mined is deployed.
LEMMA MineKeepsContracts ==
  ASSUME ChainInv, Mine
  PROVE  /\ ChainInv'
         /\ \A a, k : Deployed(a, k) => Deployed(a, k)'
         /\ \A a, k : Pending(a, k) => Pending(a, k)' \/ Deployed(a, k)'
<1> DEFINE tx == Head(mempool)
           n == Len(mempool)
<1>1. /\ IsList(mempool') /\ n \in Nat \ {0} /\ Len(mempool') = n - 1 /\ tx = mempool[1]
      /\ DOMAIN mempool = 1..n /\ DOMAIN mempool' = 1..(n - 1)
      /\ \A i \in 1..(n - 1) : mempool'[i] = mempool[i + 1]
  BY TailOfList DEF ChainInv, Mine
<1>2. /\ nonce \in Nat /\ nonce' = nonce /\ n <= nonce
      /\ tx.nonce = nonce - n + 1 /\ (tx.op \in Deploys => tx.address = tx.nonce)
  BY <1>1 DEF ChainInv, Mine
<1>3. contracts' = IF Succeeds(tx) THEN After(tx) ELSE contracts
  BY DEF Mine
<1> HIDE DEF tx
<1>4. /\ contracts' = [a \in DOMAIN contracts' |-> contracts'[a]]
      /\ DOMAIN contracts' \subseteq DOMAIN contracts \cup {tx.nonce}
      /\ \A a \in DOMAIN contracts :
           a \in DOMAIN contracts' /\ contracts'[a].key = contracts[a].key
      /\ tx.op \in Deploys => tx.nonce \in DOMAIN contracts' /\ contracts'[tx.nonce].key = tx.key
  <2>1. CASE tx.op \in Deploys
    <3> DEFINE new == [key |-> tx.key, init |-> tx.op = "install", wires |-> tx.wires]
    <3>1. Succeeds(tx) /\ After(tx) = Put(contracts, tx.address, new)
      BY <2>1 DEF Succeeds, After, Deploys
    <3> HIDE DEF new
    <3>2. contracts' = [a \in DOMAIN contracts \cup {tx.nonce} |-> IF a = tx.nonce THEN new ELSE contracts[a]]
      BY <1>2, <1>3, <2>1, <3>1 DEF Put, Over
    <3>3. \A a \in DOMAIN contracts : a # tx.nonce
      BY <1>2 DEF ChainInv
    <3>4. new.key = tx.key
      BY DEF new
    <3> QED
      BY <2>1, <3>2, <3>3, <3>4 DEF ChainInv
  <2>2. CASE tx.op \notin Deploys /\ Succeeds(tx) /\ After(tx) # contracts
    <3>1. After(tx) = [contracts EXCEPT ![tx.address] =
                         [key |-> @.key, init |-> TRUE, wires |-> Over(tx.wires, @.wires)]]
      BY <2>2 DEF After, Deploys
    <3> DEFINE new == [key |-> contracts[tx.address].key, init |-> TRUE,
                       wires |-> Over(tx.wires, contracts[tx.address].wires)]
    <3>2. contracts' = [contracts EXCEPT ![tx.address] = new]
      BY <1>3, <2>2, <3>1
    <3>3. new.key = contracts[tx.address].key
      OBVIOUS
    <3> HIDE DEF new
    <3> QED
      BY <2>2, <3>2, <3>3 DEF ChainInv
  <2>3. CASE tx.op \notin Deploys /\ ~(Succeeds(tx) /\ After(tx) # contracts)
    BY <1>3, <2>3 DEF ChainInv
  <2> QED
    BY <2>1, <2>2, <2>3
<1>5. ASSUME NEW i \in DOMAIN mempool'
      PROVE  /\ mempool'[i].nonce = nonce - (n - 1) + i
             /\ mempool'[i].op \in Deploys => mempool'[i].address = mempool'[i].nonce
  <2>1. i + 1 \in DOMAIN mempool /\ mempool'[i] = mempool[i + 1] /\ i \in Nat
    BY <1>1
  <2>2. mempool[i + 1].nonce = nonce - n + (i + 1)
    BY <2>1 DEF ChainInv
  <2> QED
    BY <1>1, <1>2, <2>1, <2>2 DEF ChainInv
<1>6. \A a \in DOMAIN contracts' : a \in Nat /\ a <= nonce - (n - 1)
  BY <1>1, <1>2, <1>4 DEF ChainInv
<1>7. ChainInv'
  BY <1>1, <1>2, <1>4, <1>5, <1>6 DEF ChainInv
<1>8. \A a, k : Deployed(a, k) => Deployed(a, k)'
  BY <1>4 DEF Deployed
<1>9. ASSUME NEW a, NEW k, Pending(a, k)
      PROVE  Pending(a, k)' \/ Deployed(a, k)'
  <2>1. PICK i \in DOMAIN mempool : mempool[i].op \in Deploys /\ mempool[i].key = k /\ mempool[i].nonce = a
    BY <1>9 DEF Pending
  <2>2. CASE i = 1
    BY <1>1, <1>4, <2>1, <2>2 DEF Deployed
  <2>3. CASE i # 1
    <3>1. i - 1 \in DOMAIN mempool' /\ mempool'[i - 1] = mempool[i]
      BY <1>1, <2>3
    <3> QED
      BY <2>1, <3>1 DEF Pending
  <2> QED
    BY <2>2, <2>3
<1>10. QED
  BY <1>7, <1>8, <1>9

\* The running script comes to its next operation, with entries in memory.
Advances(entries) ==
  /\ script' = [step |-> script.step, pc |-> script.pc + 1, entries |-> entries,
                address |-> script.address, sent |-> 0]
  /\ todo' = todo

\* Go moves the script to its next operation, here with other entries in memory.
LEMMA GoAdvances ==
  ASSUME ScriptInv, NEW entries, Go([script EXCEPT !.entries = entries])
  PROVE  Advances(entries)
<1> DEFINE s == [script EXCEPT !.entries = entries]
<1>1. s = [step |-> script.step, pc |-> script.pc, entries |-> entries,
           address |-> script.address, sent |-> script.sent]
  BY DEF ScriptInv
<1>2. script' = [s EXCEPT !.pc = @ + 1, !.sent = 0] /\ todo' = todo
  BY DEF Go
<1> HIDE DEF s
<1>3. QED
  BY <1>1, <1>2 DEF Advances

\* Here with the same.
LEMMA GoAdvancesAlone ==
  ASSUME ScriptInv, Go(script)
  PROVE  Advances(script.entries)
<1>1. script' = [script EXCEPT !.pc = @ + 1, !.sent = 0] /\ todo' = todo
  BY DEF Go
<1>2. QED
  BY <1>1 DEF Advances, ScriptInv

\* A script that throws leaves nothing in memory and nothing to run.
LEMMA FailKeeps ==
  ASSUME Fail
  PROVE  ScriptInv' /\ todo' \in Seq(DOMAIN Script)
<1>1. script' = [step |-> "", pc |-> 0, entries |-> <<>>, address |-> 0, sent |-> 0] /\ todo' = <<>>
  BY DEF Fail, NoScript
<1>2. ~Running'
  BY <1>1 DEF Running
<1>3. script' = [step |-> script'.step, pc |-> script'.pc, entries |-> script'.entries,
                 address |-> script'.address, sent |-> script'.sent]
  BY <1>1
<1>4. todo' = <<>>
  BY DEF Fail
<1>5. todo' \in Seq(DOMAIN Script)
  BY <1>4
<1>6. QED
  BY <1>2, <1>3, <1>5 DEF ScriptInv

\* Where the operations of a script are.
LEMMA Positions ==
  ASSUME ScriptInv, Running, ~Finished
  PROVE  /\ script.pc \in 1..Len(Script[script.step]) /\ Len(Script[script.step]) \in Nat
         /\ At = Script[script.step][script.pc]
         /\ At.op \in Loads <=> script.pc = 1
         /\ At.op = "startNewEntry" => script.pc = 2
         /\ script.pc < Len(Script[script.step]) =>
              LET next == Script[script.step][script.pc + 1]
              IN  /\ next.op = "record" => At.op \in Deploys /\ At.key = next.key
<1>1. Script[script.step] \in Beginnings /\ script.pc \in 1..(Len(Script[script.step]) + 1)
  BY StepsBegin DEF ScriptInv
<1>2. Script[script.step] \in Seq(Ops) /\ Len(Script[script.step]) \in Nat
  BY <1>1 DEF Beginnings
<1>3. script.pc \in 1..Len(Script[script.step])
  BY <1>1, <1>2 DEF Finished
<1>4. script.pc \in DOMAIN Script[script.step]
  BY <1>2, <1>3
<1>5. ASSUME script.pc < Len(Script[script.step]), Script[script.step][script.pc + 1].op = "record"
      PROVE  At.op \in Deploys /\ At.key = Script[script.step][script.pc + 1].key
  <2>1. script.pc + 1 \in DOMAIN Script[script.step] /\ (script.pc + 1) - 1 = script.pc
    BY <1>2, <1>3, <1>5
  <2>2. RecordsItsContract(Script[script.step], script.pc + 1)
    BY <1>1, <2>1 DEF Beginnings
  <2> QED
    BY <1>5, <2>1, <2>2 DEF RecordsItsContract, At
<1>6. QED
  BY <1>1, <1>2, <1>3, <1>4, <1>5 DEF Beginnings, At

\* The next operation finds what the script has created mined, if it records it.
LEMMA AdvanceKeeps ==
  ASSUME ScriptInv, Running, ~Finished, UNCHANGED contracts,
         NEW entries, Advances(entries), Sound(entries),
         entries \in {file', <<NoEntry>> \o file'},
         script.pc = 1 => entries = file',
         At.op \in Deploys => Deployed(script.address, At.key) /\ Newer(script.address, entries)
  PROVE  ScriptInv'
<1>1. /\ script'.step = script.step /\ script'.pc = script.pc + 1 /\ script'.entries = entries
      /\ script'.address = script.address /\ script'.sent = 0
      /\ script' = [step |-> script'.step, pc |-> script'.pc, entries |-> script'.entries,
                    address |-> script'.address, sent |-> script'.sent]
  BY DEF Advances
<1>2. script'.pc \in 1..(Len(Script[script.step]) + 1) /\ script'.pc > 1
  <2>1. script.pc \in 1..Len(Script[script.step]) /\ Len(Script[script.step]) \in Nat
    BY Positions
  <2> QED
    BY <1>1, <2>1
<1>3. Sound(script.entries)'
  BY <1>1 DEF Sound, Deployed
<1>4. ASSUME ~Finished', At'.op = "record"
      PROVE  Deployed(script.address, At.key)' /\ Newer(script.address, entries)
  <2>1. Running' /\ script.pc \in 1..Len(Script[script.step]) /\ Len(Script[script.step]) \in Nat
    BY <1>1, Positions DEF Running
  <2>2. script.pc < Len(Script[script.step]) /\ At' = Script[script.step][script.pc + 1]
    BY <1>1, <1>4, <2>1 DEF Finished, At
  <2>3. At.op \in Deploys /\ At.key = At'.key
    BY <1>4, <2>2, Positions
  <2> QED
    BY <1>1, <2>3 DEF Deployed
<1>5. script.pc = 1 <=> script'.pc = 2
  BY <1>1, Positions
<1>6. script.step \in DOMAIN Script
  BY DEF ScriptInv
<1>7. QED
  BY <1>1, <1>2, <1>3, <1>4, <1>5, <1>6 DEF ScriptInv, Newer

-----------------------------------------------------------------------------

\* Mining (Mine) leaves addresses given once, and what a script waits for on its way.
LEMMA MineKeeps ==
  ASSUME DeploymentInv, Mine
  PROVE  DeploymentInv'
<1>1. /\ ChainInv'
      /\ \A a, k : Deployed(a, k) => Deployed(a, k)'
      /\ \A a, k : Pending(a, k) => Pending(a, k)' \/ Deployed(a, k)'
  BY MineKeepsContracts DEF DeploymentInv
<1>2. script' = script /\ file' = file /\ todo' = todo
  BY DEF Mine
<1>3. ASSUME NEW entries, Sound(entries) PROVE Sound(entries)'
  BY <1>1, <1>3 DEF Sound
<1>4. Running' = Running /\ Finished' = Finished /\ At' = At
  BY <1>2 DEF Running, Finished, At
<1>5. ScriptInv'
  BY <1>1, <1>2, <1>3, <1>4 DEF ScriptInv, DeploymentInv, Newer
<1>6. QED
  BY <1>1, <1>2, <1>3, <1>5 DEF DeploymentInv

\* A script that starts has nothing in memory (StartScript).
LEMMA StartKeeps ==
  ASSUME DeploymentInv, StartScript
  PROVE  DeploymentInv'
<1>1. /\ UNCHANGED <<chain, file>> /\ todo \in Seq(DOMAIN Script) /\ todo # <<>> /\ todo' = Tail(todo)
      /\ script' = [NoScript EXCEPT !.step = Head(todo), !.pc = 1]
  BY DEF StartScript, DeploymentInv
<1>2. script' = [step |-> Head(todo), pc |-> 1, entries |-> <<>>, address |-> 0, sent |-> 0]
  BY <1>1 DEF NoScript
<1>3. Head(todo) \in DOMAIN Script /\ todo' \in Seq(DOMAIN Script)
  BY <1>1
<1>4. Script[Head(todo)] \in Beginnings /\ Len(Script[Head(todo)]) \in Nat
  BY <1>3, StepsBegin DEF Beginnings
<1>5. At'.op \in Loads
  BY <1>2, <1>4 DEF At, Beginnings
<1>6. At'.op # "record"
  BY <1>5 DEF Loads
<1>7. Sound(<<>>)'
  BY NoMoreIsSound, <1>1 DEF Sound, Deployed, chain
<1>8. ScriptInv'
  BY <1>2, <1>3, <1>4, <1>6, <1>7 DEF ScriptInv
<1>9. QED
  BY <1>1, <1>3, <1>8 DEF DeploymentInv, ChainInv, Sound, Deployed, chain

\* loadState takes the file into memory (Load).
LEMMA LoadKeeps ==
  ASSUME DeploymentInv, Load
  PROVE  DeploymentInv'
<1>1. /\ UNCHANGED <<chain, file>> /\ Running /\ ~Finished /\ At.op \in Loads
      /\ Fail \/ Go([script EXCEPT !.entries = file])
  BY DEF Load, Executing, Loads
<1>2. CASE Fail
  BY <1>1, <1>2, FailKeeps DEF DeploymentInv, ChainInv, Sound, Deployed, chain
<1>3. CASE Go([script EXCEPT !.entries = file])
  <2>1. Advances(file)
    BY <1>3, GoAdvances DEF DeploymentInv
  <2>2. At.op \notin Deploys
    BY <1>1 DEF Loads, Deploys
  <2>3. ScriptInv'
    BY <1>1, <2>1, <2>2, AdvanceKeeps DEF DeploymentInv, chain
  <2> QED
    BY <1>1, <2>1, <2>3 DEF DeploymentInv, ChainInv, Sound, Deployed, chain, Advances
<1>4. QED
  BY <1>1, <1>2, <1>3

\* startNewEntry puts an empty entry before it (StartNewEntry).
LEMMA StartNewEntryKeeps ==
  ASSUME DeploymentInv, StartNewEntry
  PROVE  DeploymentInv'
<1> DEFINE entries == <<NoEntry>> \o script.entries
<1>1. /\ UNCHANGED <<chain, file>> /\ Running /\ ~Finished /\ At.op = "startNewEntry"
      /\ Go([script EXCEPT !.entries = <<NoEntry>> \o @])
  BY DEF StartNewEntry, Executing
<1>2. Go([script EXCEPT !.entries = entries])
  BY <1>1 DEF DeploymentInv, ScriptInv
<1> HIDE DEF entries
<1>3. Advances(entries)
  BY <1>2, GoAdvances DEF DeploymentInv
<1>4. At.op \notin Deploys
  BY <1>1 DEF Deploys
<1>5. script.pc = 2 /\ script.entries = file /\ file' = file
  BY <1>1, Positions DEF DeploymentInv, ScriptInv
<1>6. Sound(entries)
  <2>1. PICK S : file \in Seq(S)
    BY DEF DeploymentInv, Sound, IsList
  <2>2. <<NoEntry>> \in Seq(S \cup {NoEntry}) /\ file \in Seq(S \cup {NoEntry})
    BY <2>1
  <2>3. entries \in Seq(S \cup {NoEntry}) /\ Len(entries) = Len(file) + 1 /\ Len(file) \in Nat
    BY <2>2, <1>5 DEF entries
  <2>4. entries[1] = NoEntry /\ \A i \in 2..Len(entries) : entries[i] = file[i - 1] /\ i - 1 \in DOMAIN file
    BY <2>2, <2>3, <1>5 DEF entries
  <2>5. DOMAIN NoEntry = {}
    BY DEF NoEntry
  <2>6. ASSUME NEW i \in DOMAIN entries, NEW k \in DOMAIN entries[i]
        PROVE  Deployed(entries[i][k], k)
    <3>1. i # 1 /\ i \in 2..Len(entries)
      BY <2>3, <2>4, <2>5, <2>6
    <3> QED
      BY <2>4, <3>1 DEF DeploymentInv, Sound
  <2> QED
    BY <2>3, <2>6 DEF Sound, IsList
<1>7. entries \in {file', <<NoEntry>> \o file'} /\ script.pc # 1 /\ UNCHANGED contracts /\ ScriptInv
  BY <1>1, <1>5 DEF entries, chain, DeploymentInv
<1>8. ScriptInv'
  BY <1>1, <1>3, <1>4, <1>6, <1>7, AdvanceKeeps
<1>9. QED
  BY <1>1, <1>3, <1>8 DEF DeploymentInv, ChainInv, Sound, Deployed, chain, Advances

\* A check changes nothing (Check).
LEMMA CheckKeeps ==
  ASSUME DeploymentInv, Check
  PROVE  DeploymentInv'
<1>1. /\ UNCHANGED <<chain, file>> /\ Running /\ ~Finished
      /\ At.op \in {"require", "code", "minter", "manager"}
      /\ Fail \/ Go(script)
  BY DEF Check, Executing
<1>2. CASE Fail
  BY <1>1, <1>2, FailKeeps DEF DeploymentInv, ChainInv, Sound, Deployed, chain
<1>3. CASE Go(script)
  <2>1. Advances(script.entries)
    BY <1>3, GoAdvancesAlone DEF DeploymentInv
  <2>2. At.op \notin Deploys /\ At.op \notin Loads
    BY <1>1 DEF Loads, Deploys
  <2>3. script.pc # 1 /\ script.pc > 1
    BY <1>1, <2>2, Positions DEF DeploymentInv
  <2>4. Sound(script.entries) /\ script.entries \in {file, <<NoEntry>> \o file}
    BY <1>1, <2>3 DEF DeploymentInv, ScriptInv
  <2>5. ScriptInv'
    BY <1>1, <2>1, <2>2, <2>3, <2>4, AdvanceKeeps DEF DeploymentInv, chain
  <2> QED
    BY <1>1, <2>1, <2>5 DEF DeploymentInv, ChainInv, Sound, Deployed, chain, Advances
<1>4. QED
  BY <1>1, <1>2, <1>3

\* The entries after an address is recorded under a name, and that nothing
\* recorded before is lost or goes back.
LEMMA RecordedIsSound ==
  ASSUME NEW entries, Sound(entries), entries # <<>>, NEW a, NEW key, Deployed(a, key),
         Newer(a, entries), ChainInv,
         NEW after, after = <<Put(entries[1], key, a)>> \o Tail(entries)
  PROVE  /\ Sound(after) /\ Len(after) = Len(entries) /\ Len(entries) \in Nat
         /\ \A i \in DOMAIN entries : \A k \in DOMAIN entries[i] :
              k \in DOMAIN after[i] /\ after[i][k] >= entries[i][k]
<1> DEFINE first == Put(entries[1], key, a)
<1>1. /\ IsList(Tail(entries)) /\ Len(entries) \in Nat \ {0} /\ Len(Tail(entries)) = Len(entries) - 1
      /\ DOMAIN entries = 1..Len(entries)
      /\ \A i \in 1..(Len(entries) - 1) : Tail(entries)[i] = entries[i + 1]
  BY TailOfList DEF Sound
<1>2. PICK S : Tail(entries) \in Seq(S)
  BY <1>1 DEF IsList
<1>3. /\ DOMAIN first = DOMAIN entries[1] \cup {key} /\ first[key] = a
      /\ \A k \in DOMAIN entries[1] : k # key => first[k] = entries[1][k]
  BY DEF Put, Over
<1> HIDE DEF first
<1>4. <<first>> \in Seq(S \cup {first}) /\ Tail(entries) \in Seq(S \cup {first})
  BY <1>2
<1>5. after \in Seq(S \cup {first}) /\ Len(after) = Len(entries) /\ after[1] = first
  BY <1>1, <1>4 DEF first
<1>6. ASSUME NEW i \in 2..Len(entries) PROVE after[i] = entries[i]
  <2>1. i - 1 \in 1..(Len(entries) - 1) /\ (i - 1) + 1 = i
    BY <1>1
  <2>2. after[i] = Tail(entries)[i - 1]
    BY <1>1, <1>4, <2>1 DEF first
  <2> QED
    BY <1>1, <2>1, <2>2
<1>7. DOMAIN after = DOMAIN entries /\ \A i \in DOMAIN entries : i = 1 \/ i \in 2..Len(entries)
  BY <1>1, <1>5
<1>8. \A i \in DOMAIN entries : \A k \in DOMAIN entries[i] :
        Deployed(entries[i][k], k) /\ entries[i][k] \in Nat /\ entries[i][k] < a
  BY DEF Sound, Newer, Deployed, ChainInv
<1>9. ASSUME NEW i \in DOMAIN after, NEW k \in DOMAIN after[i] PROVE Deployed(after[i][k], k)
  BY <1>3, <1>5, <1>6, <1>7, <1>8
<1>10. ASSUME NEW i \in DOMAIN entries, NEW k \in DOMAIN entries[i]
       PROVE  k \in DOMAIN after[i] /\ after[i][k] >= entries[i][k]
  <2>1. a \in Nat
    BY DEF Newer
  <2>2. CASE i = 1
    BY <1>3, <1>5, <1>8, <2>1, <2>2
  <2>3. CASE i \in 2..Len(entries)
    BY <1>6, <1>8, <2>3
  <2> QED
    BY <1>7, <2>2, <2>3
<1>11. QED
  BY <1>1, <1>5, <1>9, <1>10 DEF Sound, IsList

\* record saves an address that is newer than all others (Record).
LEMMA RecordKeeps ==
  ASSUME DeploymentInv, Record
  PROVE  DeploymentInv'
<1>1. UNCHANGED <<chain>> /\ Running /\ ~Finished /\ At.op = "record"
  BY DEF Record, Executing
<1>2. CASE script.entries = <<>>
  <2>1. Fail /\ UNCHANGED file
    BY <1>2 DEF Record
  <2> QED
    BY <1>1, <2>1, FailKeeps DEF DeploymentInv, ChainInv, Sound, Deployed, chain
<1>3. CASE script.entries # <<>>
  <2> DEFINE entries == <<Put(Entry, At.key, script.address)>> \o Tail(script.entries)
  <2>1. file' = entries /\ Go([script EXCEPT !.entries = entries])
    BY <1>3 DEF Record
  <2>2. Sound(script.entries) /\ Deployed(script.address, At.key) /\ Newer(script.address, script.entries)
    BY <1>1 DEF DeploymentInv, ScriptInv
  <2>3. Sound(entries)
    BY <1>3, <2>2, RecordedIsSound DEF DeploymentInv, Entry
  <2> HIDE DEF entries
  <2>4. Advances(entries)
    BY <2>1, GoAdvances DEF DeploymentInv
  <2>5. At.op \notin Deploys
    BY <1>1 DEF Deploys
  <2>6. ScriptInv'
    BY <1>1, <2>1, <2>3, <2>4, <2>5, AdvanceKeeps DEF DeploymentInv, chain
  <2>7. Sound(file)'
    BY <1>1, <2>1, <2>3 DEF Sound, Deployed, chain
  <2> QED
    BY <1>1, <2>4, <2>6, <2>7 DEF DeploymentInv, ChainInv, chain, Advances
<1>4. QED
  BY <1>2, <1>3

\* What the running script sends.
Sent ==
  Transaction(IF At.op = "sendInitialize" THEN "initialize" ELSE At.op, At.key,
              IF At.op \in Creates THEN nonce + 1 ELSE Entry[At.key],
              [k \in At.args |-> Entry[k]])

\* What is sent comes last in the pool, a contract at the address of its nonce.
LEMMA SentIsPending ==
  ASSUME ChainInv, mempool' = Append(mempool, Sent), nonce' = nonce + 1, UNCHANGED contracts
  PROVE  /\ ChainInv'
         /\ \A a, k : Pending(a, k) => Pending(a, k)'
         /\ At.op \in Deploys =>
              /\ Sent.address = nonce + 1
              /\ \E i \in DOMAIN mempool' : /\ mempool'[i].op \in Deploys /\ mempool'[i].key = At.key
                                           /\ mempool'[i].nonce = nonce + 1
<1> DEFINE tx == Sent
           n == Len(mempool)
<1>1. /\ tx.nonce = nonce + 1 /\ tx.key = At.key
      /\ tx.op \in Deploys <=> At.op \in Deploys
      /\ At.op \in Deploys => tx.address = nonce + 1
  BY DEF Sent, Transaction, Deploys, Creates
<1> HIDE DEF tx
<1>2. PICK S : mempool \in Seq(S)
  BY DEF ChainInv, IsList
<1>3. mempool \in Seq(S \cup {tx}) /\ n \in Nat /\ DOMAIN mempool = 1..n
  BY <1>2
<1>4. /\ mempool' \in Seq(S \cup {tx}) /\ Len(mempool') = n + 1 /\ DOMAIN mempool' = 1..(n + 1)
      /\ mempool'[n + 1] = tx /\ \A i \in 1..n : mempool'[i] = mempool[i]
  BY <1>3 DEF tx
<1>5. nonce \in Nat /\ nonce' = nonce + 1 /\ n <= nonce
  BY DEF ChainInv
<1>6. ASSUME NEW i \in DOMAIN mempool'
      PROVE  /\ mempool'[i].nonce = nonce' - (n + 1) + i
             /\ mempool'[i].op \in Deploys => mempool'[i].address = mempool'[i].nonce
  <2>1. CASE i = n + 1
    BY <1>1, <1>3, <1>4, <1>5, <2>1
  <2>2. CASE i # n + 1
    <3>1. i \in DOMAIN mempool /\ mempool'[i] = mempool[i] /\ i \in Nat
      BY <1>3, <1>4, <2>2
    <3>2. /\ mempool[i].nonce = nonce - n + i
          /\ mempool[i].op \in Deploys => mempool[i].address = mempool[i].nonce
      BY <3>1 DEF ChainInv
    <3> QED
      BY <1>3, <1>5, <3>1, <3>2
  <2> QED
    BY <2>1, <2>2
<1>7. \A a \in DOMAIN contracts : a \in Nat /\ a <= nonce' - (n + 1)
  BY <1>3, <1>5 DEF ChainInv
<1>8. ChainInv'
  BY <1>3, <1>4, <1>5, <1>6, <1>7 DEF ChainInv, IsList
<1>9. ASSUME NEW a, NEW k, Pending(a, k) PROVE Pending(a, k)'
  <2>1. PICK i \in DOMAIN mempool : mempool[i].op \in Deploys /\ mempool[i].key = k /\ mempool[i].nonce = a
    BY <1>9 DEF Pending
  <2>2. i \in DOMAIN mempool' /\ mempool'[i] = mempool[i]
    BY <1>3, <1>4
  <2> QED
    BY <2>1, <2>2 DEF Pending
<1>10. ASSUME At.op \in Deploys
       PROVE  \E i \in DOMAIN mempool' : /\ mempool'[i].op \in Deploys
                                         /\ mempool'[i].key = At.key /\ mempool'[i].nonce = nonce + 1
  <2>1. n + 1 \in DOMAIN mempool'
    BY <1>3, <1>4
  <2>2. /\ mempool'[n + 1].op \in Deploys
        /\ mempool'[n + 1].key = At.key /\ mempool'[n + 1].nonce = nonce + 1
    BY <1>1, <1>4, <1>10
  <2> QED
    BY <2>1, <2>2
<1>11. QED
  BY <1>1, <1>5, <1>8, <1>9, <1>10 DEF Pending, tx

\* Sending a transaction (Send).
LEMMA SendKeeps ==
  ASSUME DeploymentInv, Send
  PROVE  DeploymentInv'
<1>1. /\ UNCHANGED <<contracts, file>> /\ Running /\ ~Finished
      /\ At.op \in Creates \cup Calls /\ script.sent = 0
  BY DEF Send, Executing
<1>2. \/ Fail /\ UNCHANGED <<mempool, nonce>>
      \/ /\ At.op # "noSuchInitializer"
         /\ mempool' = Append(mempool, Sent) /\ nonce' = nonce + 1
         /\ \/ At.op = "sendInitialize" /\ Go(script)
            \/ /\ At.op # "sendInitialize" /\ UNCHANGED todo
               /\ script' = [script EXCEPT !.sent = nonce + 1, !.address = Sent.address]
  BY DEF Send, Sent
<1>3. CASE Fail /\ UNCHANGED <<mempool, nonce>>
  BY <1>1, <1>3, FailKeeps DEF DeploymentInv, ChainInv, Sound, Deployed
<1>4. CASE mempool' = Append(mempool, Sent) /\ nonce' = nonce + 1
  <2>1. /\ ChainInv' /\ nonce \in Nat
        /\ \A a, k : Pending(a, k) => Pending(a, k)'
        /\ At.op \in Deploys =>
             /\ Sent.address = nonce + 1
             /\ \E i \in DOMAIN mempool' : /\ mempool'[i].op \in Deploys /\ mempool'[i].key = At.key
                                          /\ mempool'[i].nonce = nonce + 1
    BY <1>1, <1>4, SentIsPending DEF DeploymentInv, ChainInv
  <2>2. At.op \notin Loads \cup {"startNewEntry", "record"}
    BY <1>1 DEF Creates, Calls, Loads
  <2>3. script.pc # 1 /\ script.pc > 1
    BY <1>1, <2>2, Positions DEF DeploymentInv
  <2>4. Sound(script.entries) /\ script.entries \in {file, <<NoEntry>> \o file}
    BY <1>1, <2>3 DEF DeploymentInv, ScriptInv
  <2>5. CASE At.op = "sendInitialize" /\ Go(script)
    <3>1. Advances(script.entries)
      BY <2>5, GoAdvancesAlone DEF DeploymentInv
    <3>2. At.op \notin Deploys
      BY <2>5 DEF Deploys
    <3>3. ScriptInv'
      BY <1>1, <2>3, <2>4, <3>1, <3>2, AdvanceKeeps DEF DeploymentInv
    <3> QED
      BY <1>1, <2>1, <3>1, <3>3 DEF DeploymentInv, Sound, Deployed, Advances
  <2>6. CASE /\ UNCHANGED todo
             /\ script' = [script EXCEPT !.sent = nonce + 1, !.address = Sent.address]
    <3>1. script' = [step |-> script.step, pc |-> script.pc, entries |-> script.entries,
                     address |-> Sent.address, sent |-> nonce + 1]
      BY <2>6 DEF DeploymentInv, ScriptInv
    <3>2. /\ script'.step = script.step /\ script'.pc = script.pc /\ script'.entries = script.entries
          /\ script'.address = Sent.address /\ script'.sent = nonce + 1
          /\ script' = [step |-> script'.step, pc |-> script'.pc, entries |-> script'.entries,
                        address |-> script'.address, sent |-> script'.sent]
      BY <3>1
    <3>3. Running' /\ ~Finished' /\ At' = At
      BY <1>1, <3>2 DEF Running, Finished, At
    <3>4. Sound(script.entries)'
      BY <1>1, <2>4, <3>2 DEF Sound, Deployed
    <3>5. ASSUME At.op \in Deploys
          PROVE  /\ script'.sent = script'.address
                 /\ script'.address = nonce + 1
                 /\ \E i \in DOMAIN mempool' : /\ mempool'[i].op \in Deploys /\ mempool'[i].key = At.key
                                              /\ mempool'[i].nonce = nonce + 1
                 /\ Newer(nonce + 1, script.entries)
      <4>2. Newer(nonce + 1, script.entries)
        <5>1. \A a, k : Deployed(a, k) => a \in Nat /\ a <= nonce - Len(mempool) /\ Len(mempool) \in Nat
          BY LenProperties DEF DeploymentInv, ChainInv, Deployed, IsList
        <5> QED
          BY <2>1, <2>4, <5>1 DEF Newer, Sound
      <4> QED
        BY <2>1, <3>2, <3>5, <4>2
    <3>6. ScriptInv'
      BY <1>1, <2>2, <2>3, <2>4, <3>2, <3>3, <3>4, <3>5 DEF DeploymentInv, ScriptInv, Newer, Pending
    <3> QED
      BY <1>1, <2>1, <2>6, <3>6 DEF DeploymentInv, Sound, Deployed
  <2> QED
    BY <1>2, <1>4, <2>5, <2>6
<1>5. QED
  BY <1>2, <1>3, <1>4

\* Waiting for it (Await): once it has left the pool, its contract is there.
LEMMA AwaitKeeps ==
  ASSUME DeploymentInv, Await
  PROVE  DeploymentInv'
<1>1. /\ UNCHANGED <<chain, file>> /\ Running /\ script.sent # 0
      /\ \A i \in DOMAIN mempool : mempool[i].nonce # script.sent
      /\ Fail \/ Go(script)
  BY DEF Await
<1>2. CASE Fail
  BY <1>1, <1>2, FailKeeps DEF DeploymentInv, ChainInv, Sound, Deployed, chain
<1>3. CASE Go(script)
  <2>1. Advances(script.entries)
    BY <1>3, GoAdvancesAlone DEF DeploymentInv
  <2>2. ~Finished /\ At.op \in Creates \cup Calls
    BY <1>1 DEF DeploymentInv, ScriptInv
  <2>3. At.op \notin Loads
    BY <2>2 DEF Loads, Creates, Calls
  <2>4. script.pc # 1 /\ script.pc > 1
    BY <1>1, <2>2, <2>3, Positions DEF DeploymentInv
  <2>5. Sound(script.entries) /\ script.entries \in {file, <<NoEntry>> \o file}
    BY <1>1, <2>4 DEF DeploymentInv, ScriptInv
  <2>6. ASSUME At.op \in Deploys
        PROVE  Deployed(script.address, At.key) /\ Newer(script.address, script.entries)
    <3>1. /\ script.sent = script.address
          /\ Deployed(script.address, At.key) \/ Pending(script.address, At.key)
          /\ Newer(script.address, script.entries)
      BY <1>1, <2>2, <2>6 DEF DeploymentInv, ScriptInv
    <3>2. ~Pending(script.address, At.key)
      BY <1>1, <3>1 DEF Pending
    <3> QED
      BY <3>1, <3>2
  <2>7. ScriptInv'
    BY <1>1, <2>1, <2>2, <2>4, <2>5, <2>6, AdvanceKeeps DEF DeploymentInv, chain
  <2> QED
    BY <1>1, <2>1, <2>7 DEF DeploymentInv, ChainInv, Sound, Deployed, chain, Advances
<1>4. QED
  BY <1>1, <1>2, <1>3

\* Between scripts there is the chain and the file only.
LEMMA NoScriptKeeps ==
  ASSUME DeploymentInv, UNCHANGED chain, script' = NoScript,
         file' = file \/ file' = <<>>, todo' \in Seq(DOMAIN Script)
  PROVE  DeploymentInv'
<1>1. ScriptInv'
  <2>1. ~Running'
    BY DEF Running, NoScript
  <2>2. script' = [step |-> script'.step, pc |-> script'.pc, entries |-> script'.entries,
                   address |-> script'.address, sent |-> script'.sent]
    BY DEF NoScript
  <2> QED
    BY <2>1, <2>2 DEF ScriptInv
<1>2. Sound(file)'
  BY NoMoreIsSound DEF Sound, Deployed, chain, DeploymentInv
<1>3. QED
  BY <1>1, <1>2 DEF DeploymentInv, ChainInv, chain

\* The end of a script, a crash and the operator change neither.
LEMMA OthersKeep ==
  ASSUME DeploymentInv,
         \/ Finish \/ Crash \/ StartOver \/ UNCHANGED vars
         \/ \E i \in 2..Len(Plan) : Resume(i)
         \/ \E steps \in SideTargets : RunTarget(steps)
  PROVE  DeploymentInv'
<1>1. CASE Finish
  BY <1>1, NoScriptKeeps DEF Finish, DeploymentInv
<1>2. CASE Crash
  <2>1. /\ UNCHANGED chain /\ script' = NoScript /\ todo' = <<>>
        /\ file' \in {file} \cup IF Executing({"record"}) THEN {<<>>} ELSE {}
    BY <1>2 DEF Crash, Fail
  <2>2. (file' = file \/ file' = <<>>) /\ todo' \in Seq(DOMAIN Script)
    BY <2>1
  <2> QED
    BY <2>1, <2>2, NoScriptKeeps
<1>3. ASSUME UNCHANGED <<chain, script, file>>, todo' \in Seq(DOMAIN Script)
      PROVE  DeploymentInv'
  BY <1>3 DEF DeploymentInv, ChainInv, ScriptInv, Sound, Deployed, Pending, Running, Finished, At,
              Newer, chain, IsList
<1>4. CASE StartOver
  BY <1>3, <1>4, StepsAssumption DEF StartOver
<1>5. ASSUME NEW i \in 2..Len(Plan), Resume(i) PROVE DeploymentInv'
  <2>1. UNCHANGED <<chain, script, file>> /\ todo' = SubSeq(Plan, i, Len(Plan))
    BY <1>5 DEF Resume
  <2>2. SubSeq(Plan, i, Len(Plan)) \in Seq(DOMAIN Script)
    BY StepsAssumption
  <2> QED
    BY <1>3, <2>1, <2>2
<1>6. ASSUME NEW steps \in SideTargets, RunTarget(steps) PROVE DeploymentInv'
  <2>1. UNCHANGED <<chain, script, file>> /\ todo' = steps
    BY <1>6 DEF RunTarget
  <2>2. steps \in Seq(DOMAIN Script)
    BY StepsAssumption
  <2> QED
    BY <1>3, <2>1, <2>2
<1>7. CASE UNCHANGED vars
  BY <1>3, <1>7 DEF vars, DeploymentInv
<1>8. QED
  BY <1>1, <1>2, <1>4, <1>5, <1>6, <1>7

-----------------------------------------------------------------------------

\* What is recorded is deployed, and what a script waits for is on its way.
THEOREM DeploymentInvariant == Spec => []DeploymentInv
<1>1. Init => DeploymentInv
  <2> SUFFICES ASSUME Init PROVE DeploymentInv
    OBVIOUS
  <2>1. ~Running
    BY DEF Init, NoScript, Running
  <2>2. script = [step |-> script.step, pc |-> script.pc, entries |-> script.entries,
                  address |-> script.address, sent |-> script.sent]
    BY DEF Init, NoScript
  <2>3. ScriptInv
    BY <2>1, <2>2 DEF ScriptInv
  <2>4. /\ mempool = <<>> /\ nonce = 0 /\ file = <<>> /\ todo = <<>>
        /\ contracts = [a \in {} |-> NoEntry]
    BY DEF Init
  <2>5. ChainInv
    <3>1. <<>> \in Seq({}) /\ Len(<<>>) = 0 /\ DOMAIN <<>> = {}
      OBVIOUS
    <3>2. contracts = [a \in DOMAIN contracts |-> contracts[a]] /\ DOMAIN contracts = {}
      BY <2>4
    <3> QED
      BY <2>4, <3>1, <3>2 DEF ChainInv, IsList
  <2>6. Sound(file) /\ todo \in Seq(DOMAIN Script)
    BY <2>4, NoMoreIsSound
  <2> QED
    BY <2>3, <2>5, <2>6 DEF DeploymentInv
<1>2. DeploymentInv /\ [Next]_vars => DeploymentInv'
  BY MineKeeps, StartKeeps, LoadKeeps, StartNewEntryKeeps, CheckKeeps, RecordKeeps, SendKeeps,
     AwaitKeeps, OthersKeep DEF Next, ScriptStep, OperatorStep
<1>3. QED
  BY <1>1, <1>2, PTL DEF Spec

\* Every address in every entry of deployments/<network>.json is that of a
\* contract of the name it is recorded under, whatever scripts crashed, which
\* transactions were mined after they did, and what was run again.
THEOREM RecordsAreAlwaysDeployed == Spec => []RecordsAreDeployed
<1>1. DeploymentInv => RecordsAreDeployed
  BY DEF DeploymentInv, Sound, Deployed, RecordsAreDeployed
<1>2. QED
  BY <1>1, DeploymentInvariant, PTL

\* record overwrites the file with what its script holds in memory, and loses
\* nothing by it: the entry of the run is the file's newest, or a new one before
\* it, and an address is replaced by a newer one only.
THEOREM RecordsAreAlwaysKept == Spec => RecordsAreKept
<1> DEFINE fresh == Len(file') - Len(file)
           Kept == \/ file' = <<>>
                   \/ /\ fresh \in {0, 1}
                      /\ \A i \in DOMAIN file : \A k \in DOMAIN file[i] :
                           k \in DOMAIN file'[i + fresh] /\ file'[i + fresh][k] >= file[i][k]
<1>1. ASSUME DeploymentInv, Record, file' # file PROVE Kept
  <2> DEFINE entries == script.entries
             after == <<Put(Entry, At.key, script.address)>> \o Tail(script.entries)
  <2>1. Running /\ ~Finished /\ At.op = "record" /\ entries # <<>> /\ file' = after
    BY <1>1 DEF Record, Executing
  <2>2. Sound(entries) /\ Deployed(script.address, At.key) /\ Newer(script.address, entries)
    BY <2>1, <1>1 DEF DeploymentInv, ScriptInv
  <2>3. /\ Len(after) = Len(entries) /\ Len(entries) \in Nat
        /\ \A i \in DOMAIN entries : \A k \in DOMAIN entries[i] :
             k \in DOMAIN after[i] /\ after[i][k] >= entries[i][k]
    BY <2>1, <2>2, <1>1, RecordedIsSound DEF DeploymentInv, Entry
  <2>4. script.pc # 1
    BY <1>1, <2>1, Positions DEF DeploymentInv, Loads
  <2>5. entries = file \/ entries = <<NoEntry>> \o file
    BY <1>1, <2>1, <2>4, Positions DEF DeploymentInv, ScriptInv
  <2> HIDE DEF entries, after
  <2>6. CASE entries = file
    <3>1. fresh = 0 /\ \A i \in DOMAIN file : i + fresh = i
      <4>1. PICK S : file \in Seq(S)
        BY <1>1 DEF DeploymentInv, Sound, IsList
      <4> QED
        BY <2>1, <2>3, <2>6, <4>1
    <3> QED
      BY <2>1, <2>3, <2>6, <3>1
  <2>7. CASE entries = <<NoEntry>> \o file
    <3>1. PICK S : file \in Seq(S)
      BY <1>1 DEF DeploymentInv, Sound, IsList
    <3>2. <<NoEntry>> \in Seq(S \cup {NoEntry}) /\ file \in Seq(S \cup {NoEntry})
      BY <3>1
    <3>3. Len(entries) = Len(file) + 1 /\ Len(file) \in Nat
      BY <2>7, <3>2
    <3>4. ASSUME NEW i \in DOMAIN file
          PROVE  i + 1 \in DOMAIN entries /\ entries[i + 1] = file[i]
      BY <2>7, <3>2
    <3>5. fresh = 1
      BY <2>1, <2>3, <3>3
    <3> HIDE DEF fresh
    <3> QED
      BY <2>1, <2>3, <3>4, <3>5
  <2> QED
    BY <2>5, <2>6, <2>7
<1>2. ASSUME Next, file' # file PROVE Record \/ file' = <<>>
  <2>1. CASE Crash
    BY <1>2, <2>1 DEF Crash
  <2>2. CASE ~Crash
    BY <1>2, <2>2 DEF Next, Mine, ScriptStep, StartScript, Load, StartNewEntry, Check, Send, Await, Finish,
                      OperatorStep, StartOver, Resume, RunTarget
  <2> QED
    BY <2>1, <2>2
<1>3. DeploymentInv /\ [Next]_vars => [Kept]_file
  <2> SUFFICES ASSUME DeploymentInv, [Next]_vars, file' # file PROVE Kept
    OBVIOUS
  <2>1. Next
    BY DEF vars
  <2> HIDE DEF Kept
  <2>2. file' = <<>> => Kept
    BY DEF Kept
  <2> QED
    BY <1>1, <1>2, <2>1, <2>2
<1> HIDE DEF Kept
<1>4. Spec => [][Kept]_file
  BY <1>3, DeploymentInvariant, PTL DEF Spec
<1>5. QED
  BY <1>4, PTL DEF RecordsAreKept, Kept

-----------------------------------------------------------------------------
(***************************************************************************)
(* An entry whose multisig was initialized without the step crosschain     *)
(* completing.  Only base records a multisig, and nothing but the new      *)
(* entry of base puts another one first in the file; so until the operator *)
(* starts over, crosschain stops at the latest where it initializes the    *)
(* multisig.                                                               *)
(***************************************************************************)

\* What only base does.
Ordinary == {op \in Ops : /\ op.op # "startNewEntry"
                          /\ op.op = "record" => op.key # "MULSIG"}

\* Parts of scripts that begin no entry and record no multisig.
LEMMA OrdinaryParts ==
  ASSUME NEW key \in Names, NEW args \in SUBSET Names
  PROVE  /\ key # "MULSIG" => Proxy(key) \in Seq(Ordinary) /\ Install(key, args) \in Seq(Ordinary)
         /\ \A op \in OpNames \ {"record", "startNewEntry"} : <<Op(op, key, args)>> \in Seq(Ordinary)
<1>1. \A op \in OpNames : Op(op, key, args) \in Ops /\ Op(op, key, {}) \in Ops
  BY DEF Op, Ops
<1>2. \A op \in OpNames \ {"record", "startNewEntry"} :
        Op(op, key, args) \in Ordinary /\ Op(op, key, {}) \in Ordinary
  BY <1>1 DEF Ordinary, Op
<1>3. key # "MULSIG" => Op("record", key, {}) \in Ordinary
  BY <1>1 DEF Ordinary, Op, OpNames
<1>4. {"proxy", "install"} \subseteq OpNames \ {"record", "startNewEntry"}
  BY DEF OpNames
<1>5. Op("proxy", key, {}) \in Ordinary /\ Op("install", key, args) \in Ordinary
  BY <1>2, <1>4
<1>6. key # "MULSIG" => Proxy(key) \in Seq(Ordinary) /\ Install(key, args) \in Seq(Ordinary)
  BY <1>3, <1>5 DEF Proxy, Install
<1>7. ASSUME NEW op \in OpNames \ {"record", "startNewEntry"}
      PROVE  <<Op(op, key, args)>> \in Seq(Ordinary)
  BY <1>2
<1>8. QED
  BY <1>6, <1>7

\* Their operations.
LEMMA OrdinaryOps ==
  ASSUME NEW key \in Names, NEW args \in SUBSET Names
  PROVE  \A op \in OpNames \ {"record", "startNewEntry"} : Op(op, key, args) \in Ordinary
BY DEF Op, Ops, Ordinary

\* Such a part for each treasure.
LEMMA OrdinariesInARow ==
  ASSUME NEW part, \A i \in DOMAIN Treasures : part[i] \in Seq(Ordinary),
         part = [i \in DOMAIN Treasures |-> part[i]]
  PROVE  FlattenSeq(part) \in Seq(Ordinary)
<1>1. <<>> \in Seq(Ordinary) /\ \A s, t \in Seq(Ordinary) : s \o t \in Seq(Ordinary)
  OBVIOUS
<1>2. part \in Seq(Seq(Ordinary))
  BY DeploymentAssumption
<1>3. QED
  BY <1>1, <1>2, FlattenStays

\* No script but base begins an entry or records a multisig.
LEMMA OrdinaryScripts ==
  \A step \in DOMAIN Script \ {"base"} : Script[step] \in Seq(Ordinary)
<1>0. \A op \in {"load", "loadEntry", "require", "code", "minter", "manager", "initialize", "wire",
                 "sendInitialize", "price", "noSuchInitializer"} : op \in OpNames \ {"record", "startNewEntry"}
  BY DEF OpNames
<1>1. ASSUME NEW key \in Names, NEW args \in SUBSET Names
      PROVE  /\ LoadEntry(args) \in Seq(Ordinary) /\ SendInitialize(key, args) \in Seq(Ordinary)
             /\ Initialize(key, args) \in Seq(Ordinary) /\ Wire(key, args) \in Seq(Ordinary)
             /\ key # "MULSIG" => Proxy(key) \in Seq(Ordinary) /\ Install(key, args) \in Seq(Ordinary)
  <2>1. Op("loadEntry", "", {}) \in Ordinary /\ Op("require", "", args) \in Ordinary
    BY <1>0, OrdinaryOps DEF Names, OtherNames
  <2>2. \A x, y \in Ordinary : <<x, y>> \in Seq(Ordinary)
    OBVIOUS
  <2>3. LoadEntry(args) \in Seq(Ordinary)
    BY <2>1, <2>2 DEF LoadEntry
  <2>4. /\ SendInitialize(key, args) \in Seq(Ordinary) /\ Initialize(key, args) \in Seq(Ordinary)
        /\ Wire(key, args) \in Seq(Ordinary)
    BY <1>0, OrdinaryParts DEF SendInitialize, Initialize, Wire
  <2> QED
    BY <2>3, <2>4, OrdinaryParts
<1>2. Producers \in Seq(Ordinary)
  <2> DEFINE names == {"DAO", "MULSIG", "ROLES", "PARAMETER_INFO"}
                        \cup UNION {{Treasures[i].producer, Treasures[i].data} : i \in DOMAIN Treasures}
             proxies == [i \in DOMAIN Treasures |-> Proxy(Treasures[i].producer) \o Proxy(Treasures[i].data)]
             calls == [i \in DOMAIN Treasures |->
                         SendInitialize(Treasures[i].producer, {"MULSIG", "ROLES", Treasures[i].data})
                         \o SendInitialize(Treasures[i].data,
                              {"ORACLE", "ROLES", "PARAMETER_INFO", Treasures[i].producer, "TAT"})]
  <2>1. names \in SUBSET Names
    BY NamesOfScripts DEF Names, OtherNames, TreasureNames
  <2>2. ASSUME NEW i \in DOMAIN Treasures
        PROVE  Treasures[i].producer # "MULSIG" /\ Treasures[i].data # "MULSIG"
    BY NamesAssumption DEF OtherNames
  <2>3. FlattenSeq(proxies) \in Seq(Ordinary)
    <3>1. \A i \in DOMAIN Treasures : proxies[i] \in Seq(Ordinary)
      <4> SUFFICES ASSUME NEW i \in DOMAIN Treasures PROVE proxies[i] \in Seq(Ordinary)
        OBVIOUS
      <4>1. Proxy(Treasures[i].producer) \in Seq(Ordinary) /\ Proxy(Treasures[i].data) \in Seq(Ordinary)
        BY <1>1, <2>2, NamesOfTreasures
      <4> QED
        BY <4>1
    <3> HIDE DEF proxies
    <3>2. proxies = [i \in DOMAIN Treasures |-> proxies[i]]
      BY DEF proxies
    <3> QED
      BY <3>1, <3>2, OrdinariesInARow
  <2>4. FlattenSeq(calls) \in Seq(Ordinary)
    <3>1. \A i \in DOMAIN Treasures : calls[i] \in Seq(Ordinary)
      <4> SUFFICES ASSUME NEW i \in DOMAIN Treasures PROVE calls[i] \in Seq(Ordinary)
        OBVIOUS
      <4>1. {"MULSIG", "ROLES", Treasures[i].data} \in SUBSET Names
            /\ {"ORACLE", "ROLES", "PARAMETER_INFO", Treasures[i].producer, "TAT"} \in SUBSET Names
        BY NamesOfTreasures, NamesOfScripts
      <4>2. /\ SendInitialize(Treasures[i].producer, {"MULSIG", "ROLES", Treasures[i].data}) \in Seq(Ordinary)
            /\ SendInitialize(Treasures[i].data,
                 {"ORACLE", "ROLES", "PARAMETER_INFO", Treasures[i].producer, "TAT"}) \in Seq(Ordinary)
        BY <1>1, <4>1, NamesOfTreasures
      <4> QED
        BY <4>2
    <3> HIDE DEF calls
    <3>2. calls = [i \in DOMAIN Treasures |-> calls[i]]
      BY DEF calls
    <3> QED
      BY <3>1, <3>2, OrdinariesInARow
  <2> HIDE DEF names, proxies, calls
  <2>5. LoadEntry({"MULSIG", "ROLES", "PARAMETER_INFO", "ORACLE"}) \in Seq(Ordinary)
    BY <1>1, NamesOfScripts
  <2>6. Install("GOVERNANCE", names) \in Seq(Ordinary) /\ Install("TAT", {"GOVERNANCE"}) \in Seq(Ordinary)
    BY <1>1, <2>1, NamesOfScripts
  <2>7. LoadEntry({"MULSIG", "ROLES", "PARAMETER_INFO", "ORACLE"}) \o FlattenSeq(proxies)
          \o Install("GOVERNANCE", names) \o Install("TAT", {"GOVERNANCE"}) \o FlattenSeq(calls) \in Seq(Ordinary)
    BY <2>3, <2>4, <2>5, <2>6
  <2> QED
    BY <2>7 DEF Producers, names, proxies, calls
<1>3. TCashStack \in Seq(Ordinary)
  <2>1. /\ LoadEntry({"ROLES", "ORACLE", "TAT"}) \in Seq(Ordinary)
        /\ Install("TCASH", {}) \in Seq(Ordinary) /\ Install("WTCASH", {}) \in Seq(Ordinary)
        /\ Install("WUNIT", {}) \in Seq(Ordinary) /\ Install("TAT_MANAGER", {"ROLES"}) \in Seq(Ordinary)
        /\ Proxy("TCASH_LOAN") \in Seq(Ordinary)
        /\ Install("TCASH_AUCTION", {"ROLES", "TCASH", "TCASH_LOAN"}) \in Seq(Ordinary)
        /\ Wire("TCASH", {"ROLES"}) \in Seq(Ordinary) /\ Wire("TCASH", {"ORACLE"}) \in Seq(Ordinary)
    BY <1>1, NamesOfScripts
  <2> QED
    BY <2>1 DEF TCashStack
<1>4. USTNStack \in Seq(Ordinary)
  <2>1. /\ LoadEntry({"ROLES", "ORACLE", "PARAMETER_INFO"}) \in Seq(Ordinary)
        /\ Proxy("USTN") \in Seq(Ordinary) /\ Proxy("USTN_AUCTION") \in Seq(Ordinary)
        /\ Proxy("USTN_FINANCE") \in Seq(Ordinary)
        /\ SendInitialize("USTN_AUCTION", {"ROLES", "USTN", "USTN_FINANCE"}) \in Seq(Ordinary)
        /\ SendInitialize("USTN_FINANCE", {"ROLES", "PARAMETER_INFO", "ORACLE", "USTN", "USTN_AUCTION"})
             \in Seq(Ordinary)
        /\ SendInitialize("USTN", {"ROLES", "ORACLE", "USTN_AUCTION", "USTN_FINANCE"}) \in Seq(Ordinary)
    BY <1>1, NamesOfScripts
  <2> QED
    BY <2>1 DEF USTNStack
<1>5. Crosschain \in Seq(Ordinary)
  <2> DEFINE needed == {"DAO", "MULSIG", "ROLES", "PARAMETER_INFO", "ORACLE", "GOVERNANCE",
                         "TCASH", "TCASH_LOAN", "TCASH_AUCTION", "TAT"}
  <2>1. needed \in SUBSET Names /\ "" \in Names
    BY NamesOfScripts DEF Names, OtherNames
  <2> HIDE DEF needed
  <2>2. /\ LoadEntry(needed) \in Seq(Ordinary)
        /\ Install("CROSSCHAIN_TOKENS", {}) \in Seq(Ordinary)
        /\ Install("CROSSCHAIN_BRIDGE", {"CROSSCHAIN_TOKENS", "ROLES"}) \in Seq(Ordinary)
        /\ Wire("CROSSCHAIN_TOKENS", {"MULSIG"}) \in Seq(Ordinary)
        /\ Wire("TCASH_LOAN", {"TCASH_AUCTION"}) \in Seq(Ordinary)
    BY <1>1, <2>1, NamesOfScripts
  <2>3. /\ Initialize("MULSIG", {"DAO", "GOVERNANCE", "ROLES", "PARAMETER_INFO", "CROSSCHAIN_TOKENS"})
             \in Seq(Ordinary)
        /\ Initialize("ROLES", {"MULSIG", "ORACLE", "CROSSCHAIN_BRIDGE", "TCASH", "TCASH_LOAN",
                                "TCASH_AUCTION", "CROSSCHAIN_TOKENS"}) \in Seq(Ordinary)
        /\ Initialize("TCASH_LOAN", {"TCASH", "ROLES", "PARAMETER_INFO", "ORACLE", "TAT"}) \in Seq(Ordinary)
    BY <1>1, <2>1, NamesOfScripts
  <2>4. /\ Op("code", "", needed) \in Ordinary /\ Op("minter", "TCASH_LOAN", {}) \in Ordinary
        /\ Op("manager", "ROLES", {}) \in Ordinary /\ Op("price", "ORACLE", {}) \in Ordinary
    BY <1>0, <2>1, OrdinaryOps, NamesOfScripts
  <2>5. /\ \A x \in Ordinary : <<x>> \in Seq(Ordinary)
        /\ \A x, y \in Ordinary : <<x, y, y>> \in Seq(Ordinary)
        /\ \A s, t \in Seq(Ordinary) : s \o t \in Seq(Ordinary)
    OBVIOUS
  <2>6. /\ <<Op("code", "", needed)>> \in Seq(Ordinary) /\ <<Op("minter", "TCASH_LOAN", {})>> \in Seq(Ordinary)
        /\ <<Op("manager", "ROLES", {}), Op("price", "ORACLE", {}), Op("price", "ORACLE", {})>> \in Seq(Ordinary)
    BY <2>4, <2>5
  <2> QED
    BY ONLY <2>2, <2>3, <2>5, <2>6 DEF Crosschain, needed
<1>6. TokenLocker \in Seq(Ordinary) /\ WrappedTokens \in Seq(Ordinary) /\ Bid \in Seq(Ordinary)
  <2>1. /\ Op("load", "", {}) \in Ordinary /\ Op("loadEntry", "", {}) \in Ordinary
        /\ Op("noSuchInitializer", "BID", {}) \in Ordinary
    BY <1>0, OrdinaryOps, NamesOfScripts DEF Names, OtherNames
  <2>2. /\ Install("TOKENLOCKER", {}) \in Seq(Ordinary) /\ Install("WTCASH", {}) \in Seq(Ordinary)
        /\ Install("WUNIT", {}) \in Seq(Ordinary)
    BY <1>1, NamesOfScripts
  <2>3. /\ \A x \in Ordinary : <<x>> \in Seq(Ordinary)
        /\ \A x, y \in Ordinary : <<x, y>> \in Seq(Ordinary)
        /\ \A s, t \in Seq(Ordinary) : s \o t \in Seq(Ordinary)
    OBVIOUS
  <2>4. <<Op("load", "", {})>> \in Seq(Ordinary) /\ <<Op("loadEntry", "", {})>> \in Seq(Ordinary)
    BY <2>1, <2>3
  <2> QED
    BY <2>1, <2>2, <2>3, <2>4 DEF TokenLocker, WrappedTokens, Bid
<1>7. QED
  BY <1>2, <1>3, <1>4, <1>5, <1>6 DEF Script

\* What crosschain begins with, and that it initializes the multisig.
NeedsEntry(s) == s \in Seq(Ops) /\ Len(s) >= 1 /\ s[1].op = "loadEntry"
IsMulSigCall(op) == op.op = "initialize" /\ op.key = "MULSIG"
InitializesMulSig(s) == \E n \in 1..Len(s) : IsMulSigCall(s[n])

\* Joining keeps how a script begins, and that it initializes the multisig.
LEMMA Joined ==
  ASSUME NEW s \in Seq(Ops), NEW t \in Seq(Ops)
  PROVE  /\ s \o t \in Seq(Ops)
         /\ NeedsEntry(s) => NeedsEntry(s \o t)
         /\ InitializesMulSig(s) \/ InitializesMulSig(t) => InitializesMulSig(s \o t)
<1>1. /\ s \o t \in Seq(Ops) /\ Len(s \o t) = Len(s) + Len(t) /\ Len(s) \in Nat /\ Len(t) \in Nat
      /\ \A i \in 1..Len(s) : (s \o t)[i] = s[i]
      /\ \A i \in 1..Len(t) : (s \o t)[Len(s) + i] = t[i]
  OBVIOUS
<1>2. NeedsEntry(s) => NeedsEntry(s \o t)
  BY <1>1 DEF NeedsEntry
<1>3. ASSUME NEW n \in 1..Len(s), IsMulSigCall(s[n])
      PROVE  InitializesMulSig(s \o t)
  <2>1. n \in 1..Len(s \o t) /\ (s \o t)[n] = s[n]
    BY <1>1
  <2> QED
    BY <1>3, <2>1 DEF InitializesMulSig
<1>4. ASSUME NEW n \in 1..Len(t), IsMulSigCall(t[n])
      PROVE  InitializesMulSig(s \o t)
  <2>1. Len(s) + n \in 1..Len(s \o t) /\ (s \o t)[Len(s) + n] = t[n]
    BY <1>1
  <2> QED
    BY <1>4, <2>1 DEF InitializesMulSig
<1>5. QED
  BY <1>1, <1>2, <1>3, <1>4 DEF InitializesMulSig

\* crosschain needs an entry, and initializes the multisig of it.
LEMMA CrosschainInitializesMulSig == NeedsEntry(Crosschain) /\ InitializesMulSig(Crosschain)
<1> DEFINE needed == {"DAO", "MULSIG", "ROLES", "PARAMETER_INFO", "ORACLE", "GOVERNANCE",
                       "TCASH", "TCASH_LOAN", "TCASH_AUCTION", "TAT"}
           given == {"DAO", "GOVERNANCE", "ROLES", "PARAMETER_INFO", "CROSSCHAIN_TOKENS"}
           roles == {"MULSIG", "ORACLE", "CROSSCHAIN_BRIDGE", "TCASH", "TCASH_LOAN",
                     "TCASH_AUCTION", "CROSSCHAIN_TOKENS"}
           loan == {"TCASH", "ROLES", "PARAMETER_INFO", "ORACLE", "TAT"}
           a == LoadEntry(needed)
           b == <<Op("code", "", needed)>>
           c == Install("CROSSCHAIN_TOKENS", {})
           d == Install("CROSSCHAIN_BRIDGE", {"CROSSCHAIN_TOKENS", "ROLES"})
           e == Wire("CROSSCHAIN_TOKENS", {"MULSIG"})
           f == Initialize("MULSIG", given)
           g == Initialize("ROLES", roles)
           h == <<Op("minter", "TCASH_LOAN", {})>>
           k == Initialize("TCASH_LOAN", loan)
           l == Wire("TCASH_LOAN", {"TCASH_AUCTION"})
           m == <<Op("manager", "ROLES", {}), Op("price", "ORACLE", {}), Op("price", "ORACLE", {})>>
<1>1. /\ needed \in SUBSET Names /\ given \in SUBSET Names /\ roles \in SUBSET Names /\ loan \in SUBSET Names
      /\ "" \in Names
  BY NamesOfScripts DEF Names, OtherNames
<1>2. /\ \A op \in OpNames, key \in Names, args \in SUBSET Names : Op(op, key, args) \in Ops
      /\ \A op, key, args : Op(op, key, args).op = op /\ Op(op, key, args).key = key
      /\ {"loadEntry", "require", "code", "install", "record", "wire", "initialize", "minter", "manager", "price"}
           \subseteq OpNames
  BY DEF Op, Ops, OpNames
<1>3. /\ \A x \in Ops : <<x>> \in Seq(Ops) /\ Len(<<x>>) = 1 /\ <<x>>[1] = x
      /\ \A x, y \in Ops : <<x, y>> \in Seq(Ops) /\ Len(<<x, y>>) = 2 /\ <<x, y>>[1] = x
      /\ \A x, y, z \in Ops : <<x, y, z>> \in Seq(Ops)
  OBVIOUS
<1>4. NeedsEntry(a)
  <2> DEFINE x == Op("loadEntry", "", {})
             y == Op("require", "", needed)
  <2>1. x \in Ops /\ y \in Ops /\ x.op = "loadEntry"
    BY <1>1, <1>2
  <2>2. a = <<x, y>>
    BY DEF LoadEntry
  <2> HIDE DEF a, x, y
  <2>3. a \in Seq(Ops) /\ Len(a) = 2 /\ a[1] = x
    BY <1>3, <2>1, <2>2
  <2> QED
    BY <2>1, <2>3 DEF NeedsEntry
<1>5. f \in Seq(Ops) /\ InitializesMulSig(f)
  <2>1. /\ Op("initialize", "MULSIG", given) \in Ops
        /\ Op("initialize", "MULSIG", given).op = "initialize"
        /\ Op("initialize", "MULSIG", given).key = "MULSIG"
    BY <1>1, <1>2, NamesOfScripts
  <2> QED
    BY <1>3, <2>1 DEF Initialize, InitializesMulSig, IsMulSigCall
<1>6. b \in Seq(Ops) /\ h \in Seq(Ops) /\ m \in Seq(Ops)
  <2>1. /\ Op("code", "", needed) \in Ops /\ Op("minter", "TCASH_LOAN", {}) \in Ops
        /\ Op("manager", "ROLES", {}) \in Ops /\ Op("price", "ORACLE", {}) \in Ops
    BY <1>1, <1>2, NamesOfScripts
  <2> QED
    BY <1>3, <2>1
<1>7. /\ c \in Seq(Ops) /\ d \in Seq(Ops) /\ e \in Seq(Ops) /\ l \in Seq(Ops)
      /\ g \in Seq(Ops) /\ k \in Seq(Ops)
  <2>1. Parts \subseteq Seq(Ops)
    BY DEF Parts
  <2>2. {"CROSSCHAIN_TOKENS", "CROSSCHAIN_BRIDGE", "TCASH_LOAN", "ROLES"} \subseteq Names
        /\ {"CROSSCHAIN_TOKENS", "ROLES"} \in SUBSET Names /\ {"MULSIG"} \in SUBSET Names
        /\ {"TCASH_AUCTION"} \in SUBSET Names /\ {} \in SUBSET Names
    BY NamesOfScripts
  <2> HIDE DEF roles, loan
  <2> QED
    BY <1>1, <2>1, <2>2, SmallParts
<1>8. Crosschain = a \o b \o c \o d \o e \o f \o g \o h \o k \o l \o m
  BY DEF Crosschain
<1> HIDE DEF a, b, c, d, e, f, g, h, k, l, m
<1>9. a \in Seq(Ops)
  BY <1>4 DEF NeedsEntry
<1> DEFINE first == a \o b \o c \o d \o e
<1>10. first \in Seq(Ops) /\ NeedsEntry(first)
  BY <1>4, <1>6, <1>7, <1>9, Joined
<1> HIDE DEF first
<1>11. NeedsEntry(first \o f) /\ InitializesMulSig(first \o f) /\ first \o f \in Seq(Ops)
  BY <1>5, <1>10, Joined
<1> DEFINE last == first \o f
<1> HIDE DEF last
<1>12. NeedsEntry(last \o g \o h \o k \o l \o m) /\ InitializesMulSig(last \o g \o h \o k \o l \o m)
  BY <1>6, <1>7, <1>11, Joined DEF last
<1>13. QED
  BY <1>8, <1>12 DEF first, last

\* Of the plan and of what is in memory, nothing can make another entry the
\* newest, or go past the call that initializes the multisig.
Stuck ==
  /\ ~CrosschainDone
  /\ todo \in Seq(DOMAIN Script \ {"base"})
  /\ file # <<>> => "MULSIG" \in DOMAIN file[1] /\ IsLive(file[1]["MULSIG"])
  /\ Running =>
       /\ script.step # "base"
       /\ script.pc > 1 => script.entries = file
       /\ script.step = "crosschain" =>
            /\ script.pc > 1 => file # <<>>
            /\ \A n \in 1..(script.pc - 1) : ~IsMulSigCall(Crosschain[n])
            /\ script.sent # 0 => ~IsMulSigCall(Crosschain[script.pc])

\* Where the running script is, when it is not base.
LEMMA OrdinaryPosition ==
  ASSUME DeploymentInv, Running, ~Finished, script.step # "base"
  PROVE  /\ script.pc \in Nat \ {0} /\ At.op # "startNewEntry" /\ (At.op = "record" => At.key # "MULSIG")
         /\ script.pc = 1 => At.op \in Loads
         /\ script.pc # 1 => At.op \notin Loads /\ script.pc > 1
         /\ script.step = "crosschain" => At = Crosschain[script.pc] /\ (script.pc = 1 => At.op = "loadEntry")
<1>1. /\ script.pc \in 1..Len(Script[script.step]) /\ Len(Script[script.step]) \in Nat
      /\ At = Script[script.step][script.pc] /\ (At.op \in Loads <=> script.pc = 1)
      /\ script.step \in DOMAIN Script
  BY Positions DEF DeploymentInv, ScriptInv
<1>2. Script[script.step] \in Seq(Ordinary)
  BY <1>1, OrdinaryScripts
<1>3. At \in Ordinary
  BY <1>1, <1>2
<1>4. Script["crosschain"] = Crosschain
  BY DEF Script
<1>5. script.step = "crosschain" /\ script.pc = 1 => At.op = "loadEntry"
  BY <1>1, <1>4, CrosschainInitializesMulSig DEF NeedsEntry
<1>6. QED
  BY <1>1, <1>3, <1>4, <1>5 DEF Ordinary

\* A script that stops completes nothing.
LEMMA StoppedIsStuck ==
  ASSUME Stuck, Fail, UNCHANGED <<contracts, done>>, file' = file \/ file' = <<>>
  PROVE  Stuck'
<1>1. script' = NoScript /\ todo' = <<>> /\ ~Running'
  BY DEF Fail, Running, NoScript
<1>2. (file # <<>> => "MULSIG" \in DOMAIN file[1] /\ IsLive(file[1]["MULSIG"]))'
  BY DEF Stuck, IsLive
<1>3. ~CrosschainDone'
  BY DEF CrosschainDone, Stuck
<1>4. <<>> \in Seq(DOMAIN Script \ {"base"})
  OBVIOUS
<1>5. QED
  BY <1>1, <1>2, <1>3, <1>4 DEF Stuck

\* The running script comes to its next operation, which is not after the call.
LEMMA AdvanceIsStuck ==
  ASSUME DeploymentInv, Stuck, Running, ~Finished, UNCHANGED <<contracts, done>>,
         ~(script.step = "crosschain" /\ IsMulSigCall(At)),
         NEW entries, Advances(entries), file' = entries,
         script.step = "crosschain" => file' # <<>>,
         file' # <<>> => "MULSIG" \in DOMAIN file'[1] /\ IsLive(file'[1]["MULSIG"])
  PROVE  Stuck'
<1>1. /\ script'.step = script.step /\ script'.pc = script.pc + 1 /\ script'.entries = entries
      /\ script'.sent = 0 /\ todo' = todo
  BY DEF Advances
<1>2. script.pc \in Nat \ {0} /\ script.step # "base"
      /\ (script.step = "crosschain" => At = Crosschain[script.pc])
  BY OrdinaryPosition DEF Stuck
<1>3. ASSUME script.step = "crosschain", NEW n \in 1..(script'.pc - 1)
      PROVE  ~IsMulSigCall(Crosschain[n])
  <2>1. n = script.pc \/ n \in 1..(script.pc - 1)
    BY <1>1, <1>2
  <2> QED
    BY <1>2, <1>3, <2>1 DEF Stuck
<1>4. ~CrosschainDone'
  BY DEF CrosschainDone, Stuck
<1>5. (file # <<>> => "MULSIG" \in DOMAIN file[1] /\ IsLive(file[1]["MULSIG"]))'
  BY DEF IsLive
<1>6. QED
  BY <1>1, <1>2, <1>3, <1>4, <1>5 DEF Stuck

\* The multisig stays initialized, whatever is mined.
LEMMA MineStaysStuck ==
  ASSUME DeploymentInv, Stuck, Mine
  PROVE  Stuck'
<1> DEFINE tx == Head(mempool)
<1>1. /\ script' = script /\ file' = file /\ todo' = todo /\ done' = done
      /\ contracts' = IF Succeeds(tx) THEN After(tx) ELSE contracts
      /\ mempool # <<>>
  BY DEF Mine, operator
<1>2. tx.op \in Deploys => tx.address \notin DOMAIN contracts
  <2>1. /\ tx = mempool[1] /\ Len(mempool) \in Nat \ {0} /\ DOMAIN mempool = 1..Len(mempool)
    BY <1>1, TailOfList DEF DeploymentInv, ChainInv
  <2>2. 1 \in DOMAIN mempool
    BY <2>1
  <2>3. nonce \in Nat /\ tx.nonce = nonce - Len(mempool) + 1 /\ (tx.op \in Deploys => tx.address = tx.nonce)
    BY <2>1, <2>2 DEF DeploymentInv, ChainInv
  <2>4. \A a \in DOMAIN contracts : a \in Nat /\ a <= nonce - Len(mempool)
    BY DEF DeploymentInv, ChainInv
  <2> HIDE DEF tx
  <2>5. ASSUME tx.op \in Deploys, tx.address \in DOMAIN contracts PROVE FALSE
    BY <2>1, <2>3, <2>4, <2>5
  <2> QED
    BY <2>5
<1> HIDE DEF tx
<1>3. ASSUME NEW a, IsLive(a) PROVE IsLive(a)'
  <2>1. a \in DOMAIN contracts /\ contracts[a].init
    BY <1>3 DEF IsLive
  <2>2. CASE tx.op \in Deploys
    <3> DEFINE new == [key |-> tx.key, init |-> tx.op = "install", wires |-> tx.wires]
    <3>1. After(tx) = Put(contracts, tx.address, new)
      BY <2>2 DEF After, Deploys
    <3> HIDE DEF new
    <3>2. Succeeds(tx)
      BY <2>2 DEF Succeeds, Deploys
    <3> QED
      BY <1>1, <1>2, <2>1, <2>2, <3>1, <3>2 DEF IsLive, Put, Over
  <2>3. CASE tx.op \notin Deploys /\ Succeeds(tx) /\ After(tx) # contracts
    <3>1. After(tx) = [contracts EXCEPT ![tx.address] =
                         [key |-> @.key, init |-> TRUE, wires |-> Over(tx.wires, @.wires)]]
      BY <2>3 DEF After, Deploys
    <3> DEFINE new == [key |-> contracts[tx.address].key, init |-> TRUE,
                       wires |-> Over(tx.wires, contracts[tx.address].wires)]
    <3>2. contracts' = [contracts EXCEPT ![tx.address] = new]
      BY <1>1, <2>3, <3>1
    <3>3. new.init
      OBVIOUS
    <3> HIDE DEF new
    <3> QED
      BY <2>1, <3>2, <3>3 DEF IsLive, DeploymentInv, ChainInv
  <2>4. CASE tx.op \notin Deploys /\ ~(Succeeds(tx) /\ After(tx) # contracts)
    BY <1>1, <2>1, <2>4 DEF IsLive
  <2> QED
    BY <2>2, <2>3, <2>4
<1>4. Running' = Running /\ CrosschainDone' = CrosschainDone
  BY <1>1 DEF Running, CrosschainDone
<1>5. QED
  BY <1>1, <1>3, <1>4 DEF Stuck

\* No operation of a script gets past the call to it.
LEMMA ScriptStaysStuck ==
  ASSUME DeploymentInv, Stuck, StartScript \/ Load \/ StartNewEntry \/ Check \/ Record \/ Send \/ Await
  PROVE  Stuck'
<1>0. UNCHANGED <<contracts, done>>
  BY DEF StartScript, Load, StartNewEntry, Check, Record, Send, Await, chain, operator
<1>1. CASE StartScript
  <2>1. /\ UNCHANGED file /\ todo # <<>> /\ todo' = Tail(todo)
        /\ script' = [NoScript EXCEPT !.step = Head(todo), !.pc = 1]
    BY <1>1 DEF StartScript
  <2>2. script' = [step |-> Head(todo), pc |-> 1, entries |-> <<>>, address |-> 0, sent |-> 0]
    BY <2>1 DEF NoScript
  <2>3. todo \in Seq(DOMAIN Script \ {"base"})
    BY DEF Stuck
  <2>4. Head(todo) # "base" /\ todo' \in Seq(DOMAIN Script \ {"base"})
    BY <2>1, <2>3
  <2>5. script'.step = Head(todo) /\ script'.pc = 1 /\ script'.sent = 0
    BY <2>2
  <2>6. \A n \in 1..(script'.pc - 1) : FALSE
    BY <2>5
  <2>7. (file # <<>> => "MULSIG" \in DOMAIN file[1] /\ IsLive(file[1]["MULSIG"]))' /\ ~CrosschainDone'
    BY <1>0, <2>1 DEF Stuck, CrosschainDone, IsLive
  <2> QED
    BY <2>4, <2>5, <2>6, <2>7 DEF Stuck
<1>2. CASE Load
  <2>1. /\ UNCHANGED file /\ Running /\ ~Finished /\ At.op \in Loads
        /\ At.op = "loadEntry" /\ file = <<>> => Fail
        /\ Fail \/ Go([script EXCEPT !.entries = file])
    BY <1>2 DEF Load, Executing, Loads
  <2>2. CASE Fail
    BY <1>0, <2>1, <2>2, StoppedIsStuck
  <2>3. CASE ~Fail /\ Go([script EXCEPT !.entries = file])
    <3>1. Advances(file)
      BY <2>3, GoAdvances DEF DeploymentInv
    <3>2. script.step = "crosschain" => file # <<>>
      <4>1. script.pc = 1
        BY <2>1, OrdinaryPosition DEF Stuck
      <4> QED
        BY <2>1, <2>3, <4>1, OrdinaryPosition DEF Stuck
    <3>3. ~IsMulSigCall(At)
      BY <2>1 DEF Loads, IsMulSigCall
    <3> QED
      BY <1>0, <2>1, <3>1, <3>2, <3>3, AdvanceIsStuck DEF Stuck
  <2> QED
    BY <2>1, <2>2, <2>3
<1>3. CASE StartNewEntry
  <2>1. Running /\ ~Finished /\ At.op = "startNewEntry"
    BY <1>3 DEF StartNewEntry, Executing
  <2> QED
    BY <2>1, OrdinaryPosition DEF Stuck
<1>4. ASSUME Running, ~Finished, UNCHANGED file, At.op \notin Loads,
             ~(script.step = "crosschain" /\ IsMulSigCall(At)), Go(script)
      PROVE  Stuck'
  <2>1. Advances(script.entries)
    BY <1>4, GoAdvancesAlone DEF DeploymentInv
  <2>2. script.pc > 1 /\ script.entries = file
    BY <1>4, OrdinaryPosition DEF Stuck
  <2> QED
    BY <1>0, <1>4, <2>1, <2>2, AdvanceIsStuck DEF Stuck
<1>5. CASE Check
  <2>1. /\ UNCHANGED file /\ Running /\ ~Finished
        /\ At.op \in {"require", "code", "minter", "manager"}
        /\ Fail \/ Go(script)
    BY <1>5 DEF Check, Executing
  <2>2. At.op \notin Loads /\ ~IsMulSigCall(At)
    BY <2>1 DEF Loads, IsMulSigCall
  <2> QED
    BY <1>0, <1>4, <2>1, <2>2, StoppedIsStuck
<1>6. CASE Record
  <2>1. Running /\ ~Finished /\ At.op = "record"
    BY <1>6 DEF Record, Executing
  <2>2. CASE script.entries = <<>>
    BY <1>0, <1>6, <2>2, StoppedIsStuck DEF Record
  <2>3. CASE script.entries # <<>>
    <3> DEFINE entries == <<Put(Entry, At.key, script.address)>> \o Tail(script.entries)
    <3>1. file' = entries /\ Go([script EXCEPT !.entries = entries])
      BY <1>6, <2>3 DEF Record
    <3>2. At.key # "MULSIG" /\ At.op \notin Loads /\ script.pc > 1 /\ script.entries = file
      BY <2>1, OrdinaryPosition DEF Stuck, Loads
    <3>3. entries[1] = Put(Entry, At.key, script.address) /\ entries # <<>>
      <4>1. IsList(Tail(script.entries))
        BY <2>1, <2>3, TailOfList DEF DeploymentInv, ScriptInv, Sound
      <4>2. PICK S : Tail(script.entries) \in Seq(S)
        BY <4>1 DEF IsList
      <4> DEFINE first == Put(Entry, At.key, script.address)
      <4> HIDE DEF first
      <4>3. <<first>> \in Seq(S \cup {first}) /\ Tail(script.entries) \in Seq(S \cup {first})
        BY <4>2
      <4>4. /\ (<<first>> \o Tail(script.entries))[1] = first
            /\ <<first>> \o Tail(script.entries) # <<>>
        BY <4>3
      <4> QED
        BY <4>4 DEF first
    <3> HIDE DEF entries
    <3>4. Advances(entries)
      BY <3>1, GoAdvances DEF DeploymentInv
    <3>5. "MULSIG" \in DOMAIN entries[1] /\ entries[1]["MULSIG"] = file[1]["MULSIG"]
      BY <2>3, <3>2, <3>3 DEF Put, Over, Entry, Stuck
    <3>6. ~IsMulSigCall(At)
      BY <2>1 DEF IsMulSigCall
    <3> QED
      BY <1>0, <2>1, <2>3, <3>1, <3>2, <3>3, <3>4, <3>5, <3>6, AdvanceIsStuck DEF Stuck
  <2> QED
    BY <2>2, <2>3
<1>7. CASE Send
  <2>1. UNCHANGED file /\ Running /\ ~Finished /\ At.op \in Creates \cup Calls
    BY <1>7 DEF Send, Executing
  <2>2. At.op \notin Loads
    BY <2>1 DEF Creates, Calls, Loads
  <2>3. CASE Fail
    BY <1>0, <2>1, <2>3, StoppedIsStuck
  <2>4. CASE ~Fail
    <3>1. /\ Succeeds(Sent)
          /\ \/ At.op = "sendInitialize" /\ Go(script)
             \/ /\ At.op # "sendInitialize" /\ UNCHANGED todo
                /\ script' = [script EXCEPT !.sent = nonce + 1, !.address = Sent.address]
      BY <1>7, <2>4 DEF Send, Sent
    <3>2. ~(script.step = "crosschain" /\ IsMulSigCall(At))
      <4> SUFFICES ASSUME script.step = "crosschain", IsMulSigCall(At) PROVE FALSE
        OBVIOUS
      <4>1. At.op = "initialize" /\ At.key = "MULSIG"
        BY DEF IsMulSigCall
      <4>2. script.pc > 1 /\ script.entries = file /\ file # <<>>
        BY <2>1, <2>2, OrdinaryPosition DEF Stuck
      <4>3. Sent.op = "initialize" /\ Sent.address = file[1]["MULSIG"]
        BY <4>1, <4>2 DEF Sent, Transaction, Creates, Entry
      <4>4. IsLive(file[1]["MULSIG"])
        BY <4>2 DEF Stuck
      <4>5. ~Succeeds(Sent)
        BY <4>3, <4>4 DEF Succeeds, IsLive
      <4> QED
        BY <3>1, <4>5
    <3>3. CASE At.op = "sendInitialize" /\ Go(script)
      BY <1>4, <2>1, <2>2, <3>2, <3>3
    <3>4. CASE UNCHANGED todo /\ script' = [script EXCEPT !.sent = nonce + 1, !.address = Sent.address]
      <4>1. script' = [step |-> script.step, pc |-> script.pc, entries |-> script.entries,
                       address |-> Sent.address, sent |-> nonce + 1]
        BY <3>4 DEF DeploymentInv, ScriptInv
      <4>2. script'.step = script.step /\ script'.pc = script.pc /\ script'.entries = script.entries
        BY <4>1
      <4>3. script.step = "crosschain" => ~IsMulSigCall(Crosschain[script.pc])
        BY <2>1, <3>2, OrdinaryPosition DEF Stuck
      <4> QED
        BY <1>0, <2>1, <3>4, <4>2, <4>3 DEF Stuck, Running, CrosschainDone, IsLive
    <3> QED
      BY <3>1, <3>3, <3>4
  <2> QED
    BY <2>3, <2>4
<1>8. CASE Await
  <2>1. UNCHANGED file /\ Running /\ script.sent # 0 /\ (Fail \/ Go(script))
    BY <1>8 DEF Await
  <2>2. ~Finished /\ At.op \in Creates \cup Calls
    BY <2>1 DEF DeploymentInv, ScriptInv
  <2>3. At.op \notin Loads
    BY <2>2 DEF Creates, Calls, Loads
  <2>4. ~(script.step = "crosschain" /\ IsMulSigCall(At))
    BY <2>1, <2>2, OrdinaryPosition DEF Stuck
  <2> QED
    BY <1>0, <1>4, <2>1, <2>2, <2>3, <2>4, StoppedIsStuck
<1>9. QED
  BY <1>1, <1>2, <1>3, <1>5, <1>6, <1>7, <1>8

\* Neither does the operator, without starting over.
LEMMA OthersStayStuck ==
  ASSUME DeploymentInv, done \in Nat, bases \in Nat, Stuck,
         \/ Finish \/ Crash \/ StartOver \/ UNCHANGED vars
         \/ \E i \in 2..Len(Plan) : Resume(i)
         \/ \E steps \in SideTargets : RunTarget(steps)
  PROVE  Stuck' \/ bases' > bases
<1>0. Plan \in Seq(DOMAIN Script) /\ Len(Plan) \in Nat /\ DOMAIN Plan = 1..Len(Plan)
  BY StepsAssumption
<1>1. CASE Finish
  <2>1. /\ Running /\ script.pc > Len(Script[script.step]) /\ script' = NoScript
        /\ UNCHANGED <<contracts, file, todo>>
        /\ done' = done \/ (done' = done + 1 /\ Plan[done + 1] = script.step)
    BY <1>1 DEF Finish, Finished, chain
  <2>2. script.step # "crosschain"
    <3> SUFFICES ASSUME script.step = "crosschain" PROVE FALSE
      OBVIOUS
    <3>1. PICK n \in 1..Len(Crosschain) : IsMulSigCall(Crosschain[n])
      BY CrosschainInitializesMulSig DEF InitializesMulSig
    <3>2. script.pc \in Nat /\ script.pc > Len(Crosschain) /\ Len(Crosschain) \in Nat
      <4>1. Script["crosschain"] = Crosschain /\ Crosschain \in Seq(Ops)
        BY CrosschainInitializesMulSig DEF Script, NeedsEntry
      <4> QED
        BY <2>1, <4>1 DEF DeploymentInv, ScriptInv
    <3>3. n \in 1..(script.pc - 1)
      BY <3>1, <3>2
    <3> QED
      BY <2>1, <3>1, <3>3 DEF Stuck
  <2>3. ~CrosschainDone'
    <3>1. \A i \in 1..done' : i \in 1..done \/ (i = done + 1 /\ done' = done + 1)
      BY <2>1
    <3> QED
      BY <2>1, <2>2, <3>1 DEF CrosschainDone, Stuck
  <2>4. ~Running'
    BY <2>1 DEF Running, NoScript
  <2> QED
    BY <2>1, <2>3, <2>4 DEF Stuck, IsLive
<1>2. CASE Crash
  <2>1. UNCHANGED <<contracts, done>> /\ Fail /\ (file' = file \/ file' = <<>>)
    BY <1>2 DEF Crash, chain
  <2> QED
    BY <2>1, StoppedIsStuck
<1>3. CASE StartOver
  BY <1>3 DEF StartOver
<1>4. CASE UNCHANGED vars
  BY <1>4 DEF vars, chain, operator, Stuck, Running, CrosschainDone, IsLive
<1>5. ASSUME NEW i \in 2..Len(Plan), Resume(i) PROVE Stuck'
  <2>1. /\ UNCHANGED <<contracts, file, script>> /\ todo' = SubSeq(Plan, i, Len(Plan))
        /\ i \in {done, done + 1} /\ done' = i - 1 /\ ~Running
    BY <1>5 DEF Resume, chain, AtPrompt
  <2>2. SubSeq(Plan, i, Len(Plan)) \in Seq(DOMAIN Script \ {"base"})
    <3> DEFINE s == SubSeq(Plan, i, Len(Plan))
    <3>1. s \in Seq(DOMAIN Script) /\ \A j \in DOMAIN s : s[j] = Plan[i + j - 1] /\ i + j - 1 \in 2..Len(Plan)
      BY <1>0
    <3>2. \A j \in DOMAIN s : s[j] # "base"
      BY <3>1, PlanFacts
    <3> HIDE DEF s
    <3>3. s \in Seq(DOMAIN Script \ {"base"})
      BY <3>1, <3>2
    <3> QED
      BY <3>3 DEF s
  <2>3. ~CrosschainDone'
    <3>1. \A j \in 1..done' : j \in 1..done
      BY <2>1
    <3> QED
      BY <3>1 DEF CrosschainDone, Stuck
  <2> QED
    BY <2>1, <2>2, <2>3 DEF Stuck, Running, IsLive
<1>6. ASSUME NEW steps \in SideTargets, RunTarget(steps) PROVE FALSE
  <2>1. done = Len(Plan)
    BY <1>6 DEF RunTarget
  <2>2. PICK i \in DOMAIN Plan : Plan[i] = "crosschain"
    BY PlanFacts
  <2> QED
    BY <1>0, <2>1, <2>2 DEF CrosschainDone, Stuck
<1>7. QED
  BY <1>1, <1>2, <1>3, <1>4, <1>5, <1>6

\* How far the operator is.
CountInv == done \in Nat /\ bases \in Nat

\* The counters of steps and of fresh starts.
LEMMA CountsStay ==
  ASSUME CountInv, [Next]_vars
  PROVE  CountInv' /\ bases' >= bases
<1>1. ASSUME NEW steps \in SideTargets, RunTarget(steps) PROVE done' \in Nat
  <2> DEFINE S == {i - 1 : i \in {i \in DOMAIN Plan : Contains(steps, Plan[i])}}
             T == {done} \cup S
  <2>1. done' = Min(T)
    BY <1>1 DEF RunTarget
  <2>2. T \subseteq Nat /\ T # {} /\ IsFiniteSet(T)
    <3>1. Len(Plan) \in Nat /\ DOMAIN Plan = 1..Len(Plan)
      BY StepsAssumption
    <3>2. S \subseteq 0..Len(Plan)
      BY <3>1
    <3>3. IsFiniteSet(0..Len(Plan))
      BY <3>1, FS_Interval
    <3> HIDE DEF S
    <3>4. IsFiniteSet(S)
      BY <3>2, <3>3, FS_Subset
    <3>5. IsFiniteSet(S \cup {done})
      BY <3>4, FS_AddElement
    <3>6. T = S \cup {done}
      OBVIOUS
    <3> HIDE DEF T
    <3>7. S \cup {done} \subseteq Nat /\ done \in S \cup {done}
      BY <3>1, <3>2 DEF CountInv
    <3> QED
      BY <3>5, <3>6, <3>7
  <2> HIDE DEF T
  <2>3. \E x \in T : \A y \in T : x <= y
    <3>1. T \subseteq Int
      BY <2>2
    <3> QED
      BY <2>2, <3>1, LeastOfFinite
  <2>4. Min(T) \in T
    BY <2>3 DEF Min
  <2> QED
    BY <2>1, <2>2, <2>4
<1>2. ASSUME NEW steps \in SideTargets, RunTarget(steps) PROVE bases' = bases
  BY <1>2 DEF RunTarget
<1>3. ASSUME NEW i \in 2..Len(Plan), Resume(i) PROVE done' \in Nat /\ bases' = bases
  <2>1. i \in Nat \ {0}
    BY StepsAssumption
  <2> QED
    BY <1>3, <2>1 DEF Resume
<1>4. CASE StartOver
  BY <1>4 DEF StartOver, CountInv
<1>5. CASE Finish
  BY <1>5 DEF Finish, CountInv
<1>6. CASE Mine \/ Crash \/ UNCHANGED vars
  BY <1>6 DEF Mine, Crash, vars, operator, CountInv
<1>7. CASE StartScript \/ Load \/ StartNewEntry \/ Check \/ Record \/ Send \/ Await
  BY <1>7 DEF StartScript, Load, StartNewEntry, Check, Record, Send, Await, operator, CountInv
<1>8. QED
  BY <1>1, <1>2, <1>3, <1>4, <1>5, <1>6, <1>7 DEF Next, ScriptStep, OperatorStep, CountInv

\* Whatever the operator resumes, an entry whose multisig was initialized by a
\* run of crosschain that did not complete is never completed: the multisig
\* refuses the second call, and crosschain does not go past it.
THEOREM OnlyStartingOverHelps == Spec => StrandedNeedsNewEntry
<1> SUFFICES ASSUME NEW b \in 1..MaxBases
             PROVE  Spec => [](Stranded /\ bases = b => [](CrosschainDone => bases > b))
  BY DEF StrandedNeedsNewEntry
<1> DEFINE Barred == bases > b \/ (bases = b /\ Stuck)
<1>1. Spec => [](DeploymentInv /\ CountInv)
  <2>1. Init => CountInv
    BY DEF Init, CountInv
  <2>2. CountInv /\ [Next]_vars => CountInv'
    BY CountsStay
  <2>3. Spec => []CountInv
    BY <2>1, <2>2, PTL DEF Spec
  <2> QED
    BY <2>3, DeploymentInvariant, PTL
<1>2. DeploymentInv /\ CountInv /\ Stranded /\ bases = b => Barred
  BY DEF Stranded, Stuck, AtPrompt
<1>3. DeploymentInv /\ CountInv /\ Barred /\ [Next]_vars => Barred'
  <2> SUFFICES ASSUME DeploymentInv, CountInv, Barred, [Next]_vars PROVE Barred'
    OBVIOUS
  <2>1. CountInv' /\ bases' >= bases
    BY CountsStay
  <2>2. ASSUME Stuck PROVE Stuck' \/ bases' > bases
    BY <2>2, MineStaysStuck, ScriptStaysStuck, OthersStayStuck DEF Next, ScriptStep, OperatorStep, CountInv
  <2> QED
    BY <2>1, <2>2 DEF CountInv
<1>4. Barred => (CrosschainDone => bases > b)
  BY DEF Stuck
<1> HIDE DEF Barred
<1>5. QED
  BY <1>1, <1>2, <1>3, <1>4, PTL DEF Spec
-----------------------------------------------------------------------------
(***************************************************************************)
(* What the scripts are like beyond how they begin.  Each name is recorded *)
(* by one step of the plan, its level, but for three contracts that are    *)
(* initialized where they are created and that nothing else is given.      *)
(* A script uses names of its level or lower ones, which it has recorded   *)
(* or required before, and records none that it has used.                  *)
(***************************************************************************)

Standalone == {"WTCASH", "WUNIT", "TOKENLOCKER"}
BaseNames == {"DAO", "MULSIG", "ROLES", "PARAMETER_INFO", "ORACLE"}
ProducerNames == TreasureNames \cup {"GOVERNANCE", "TAT"}
TCashNames == {"TCASH", "TAT_MANAGER", "TCASH_LOAN", "TCASH_AUCTION"}
USTNNames == {"USTN", "USTN_AUCTION", "USTN_FINANCE"}
CrosschainNames == {"CROSSCHAIN_TOKENS", "CROSSCHAIN_BRIDGE"}

Level(name) ==
  CASE name \in BaseNames -> 1 [] name \in ProducerNames -> 2 [] name \in TCashNames -> 3
    [] name \in USTNNames -> 4 [] name \in CrosschainNames -> 5 [] name \in Standalone -> 6
    [] OTHER -> 7

\* Transactions to a recorded contract, and those that give one addresses.
Addressed == {"initialize", "sendInitialize", "wire", "price"}
Giving == Addressed \cup {"install"}
Starting == {"install", "initialize", "sendInitialize"}

\* The names whose recorded addresses an operation reads, and the ones its
\* effect depends on from then on.
Reads(o) == IF o.op \in Addressed THEN o.args \cup {o.key} ELSE IF o.op = "install" THEN o.args ELSE {}
Uses(o) == IF o.op \in Giving THEN o.args \cup ({o.key} \ Standalone) ELSE {}

\* An operation of a script of level L.
Fits(o, L) ==
  /\ o.op = "record" => Level(o.key) \in {L, 6}
  /\ o.op = "proxy" => o.key \notin Standalone
  /\ o.args # {} => \/ o.op \in {"install", "initialize", "sendInitialize", "wire"} /\ o.key \notin Standalone
                    \/ o.op \in {"require", "code"} /\ o.key = ""
  /\ \A k \in Uses(o) : Level(k) <= L /\ Level(k) < 6

\* What the first n operations of s have recorded and initialized.
Records(s, n, k) == \E m \in 1..n : s[m].op = "record" /\ s[m].key = k
Starts(s, n, k) == \E m \in 1..n : s[m].op \in Starting /\ s[m].key = k

\* Operation n of s reads what is required or recorded before it, and what was
\* used before it is not recorded any more.
InOrder(s, n, required) ==
  /\ \A k \in Reads(s[n]) : k \in required \/ Records(s, n - 1, k)
  /\ s[n].op = "record" => \A m \in 1..(n - 1) :
       \/ s[n].key \notin Uses(s[m])
       \/ m = n - 1 /\ s[m].op = "install" /\ s[n].key \notin s[m].args
  /\ s[n].op = "install" => n < Len(s) /\ s[n + 1].op = "record"
  /\ s[n].op = "sendInitialize" =>
       /\ Records(s, n - 1, s[n].key)
       /\ \A m \in 1..(n - 1) : ~(s[m].op = "sendInitialize" /\ s[m].key = s[n].key)

Requires(s, required) == required # {} => Len(s) >= 1 /\ s[1].op = "loadEntry"

\* A sequence of operations in order that has used at most the names in used,
\* called without waiting at most those in called, and has recorded and
\* initialized at least those in recorded and started.
Orderly(L, required, used, called, recorded, started) ==
  {s \in Seq(Ops) :
     /\ \A n \in 1..Len(s) : /\ Fits(s[n], L) /\ InOrder(s, n, required)
                             /\ Uses(s[n]) \subseteq used
                             /\ s[n].op = "sendInitialize" => s[n].key \in called
     /\ Requires(s, required)
     /\ \A k \in recorded : Records(s, Len(s), k)
     /\ \A k \in started : Starts(s, Len(s), k)}

\* One more operation.
LEMMA OneMore ==
  ASSUME NEW L, NEW required, NEW used, NEW called, NEW recorded, NEW started,
         NEW s \in Orderly(L, required, used, called, recorded, started),
         NEW o \in Ops, Fits(o, L), o.op \notin {"record", "install"},
         Reads(o) \subseteq required \cup recorded,
         NEW used2, used \subseteq used2, Uses(o) \subseteq used2,
         NEW called2, called \subseteq called2,
         o.op = "sendInitialize" => o.key \in recorded /\ o.key \in called2 /\ o.key \notin called,
         NEW started2, started2 \subseteq started \cup (IF o.op \in Starting THEN {o.key} ELSE {})
  PROVE  s \o <<o>> \in Orderly(L, required, used2, called2, recorded, started2)
<1> DEFINE t == s \o <<o>>
           l == Len(s)
<1>1. /\ s \in Seq(Ops) /\ l \in Nat /\ Requires(s, required)
      /\ \A n \in 1..l : /\ Fits(s[n], L) /\ InOrder(s, n, required) /\ Uses(s[n]) \subseteq used
                         /\ s[n].op = "sendInitialize" => s[n].key \in called
      /\ \A k \in recorded : Records(s, l, k)
      /\ \A k \in started : Starts(s, l, k)
  BY DEF Orderly
<1>2. /\ t \in Seq(Ops) /\ Len(t) = l + 1 /\ t[l + 1] = o
      /\ \A n \in 1..l : t[n] = s[n]
  BY <1>1
<1> HIDE DEF t, l
<1>3. /\ \A k : \A n \in 0..l : Records(s, n, k) => Records(t, n, k)
      /\ \A k \in recorded : Records(t, l, k) /\ Records(t, l + 1, k)
  BY <1>1, <1>2 DEF Records
<1>4. ASSUME NEW n \in 1..l
      PROVE  /\ Fits(t[n], L) /\ InOrder(t, n, required) /\ Uses(t[n]) \subseteq used2
             /\ t[n].op = "sendInitialize" => t[n].key \in called2
  <2>1. Fits(s[n], L) /\ InOrder(s, n, required) /\ Uses(s[n]) \subseteq used /\ t[n] = s[n]
        /\ (s[n].op = "sendInitialize" => s[n].key \in called)
    BY <1>1, <1>2
  <2>2. /\ n - 1 \in 0..l /\ \A m \in 1..(n - 1) : t[m] = s[m]
        /\ n < l => n < l + 1 /\ t[n + 1] = s[n + 1]
    BY <1>1, <1>2
  <2>3. InOrder(t, n, required)
    BY <1>1, <1>2, <1>3, <2>1, <2>2, SMTT(30) DEF InOrder, l
  <2> QED
    BY <2>1, <2>3
<1>5. /\ Fits(t[l + 1], L) /\ InOrder(t, l + 1, required) /\ Uses(t[l + 1]) \subseteq used2
      /\ t[l + 1].op = "sendInitialize" => t[l + 1].key \in called2
  <2>1. (l + 1) - 1 = l
    BY <1>1
  <2>2. \A k \in Reads(o) : k \in required \/ Records(t, l, k)
    BY <1>3
  <2>3. o.op = "sendInitialize" =>
          \A m \in 1..l : ~(t[m].op = "sendInitialize" /\ t[m].key = o.key)
    BY <1>1, <1>2
  <2> QED
    BY <1>2, <1>3, <2>1, <2>2, <2>3 DEF InOrder
<1>6. \A k \in started2 : Starts(t, l + 1, k)
  <2> SUFFICES ASSUME NEW k \in started2 PROVE Starts(t, l + 1, k)
    OBVIOUS
  <2>1. CASE k \in started
    BY <1>1, <1>2, <2>1 DEF Starts
  <2>2. CASE o.op \in Starting /\ k = o.key
    BY <1>1, <1>2, <2>2 DEF Starts
  <2> QED
    BY <2>1, <2>2
<1>7. Requires(t, required)
  <2>1. l >= 1 => t[1] = s[1]
    BY <1>1, <1>2
  <2> QED
    BY <1>1, <1>2, <2>1 DEF Requires, l
<1>8. \A n \in 1..(l + 1) : n \in 1..l \/ n = l + 1
  BY <1>1
<1>9. t \in Orderly(L, required, used2, called2, recorded, started2)
  BY <1>2, <1>3, <1>4, <1>5, <1>6, <1>7, <1>8 DEF Orderly
<1> QED
  BY <1>9 DEF t

\* A contract is created and recorded.
LEMMA OneMoreContract ==
  ASSUME NEW L, NEW required, NEW used, NEW called, NEW recorded, NEW started,
         NEW s \in Orderly(L, required, used, called, recorded, started),
         NEW o \in Ops, NEW r \in Ops, o.op \in Deploys, r.op = "record", r.key = o.key, r.args = {},
         Fits(o, L), Level(o.key) \in {L, 6}, o.key \notin used, o.key \notin o.args,
         Reads(o) \subseteq required \cup recorded,
         NEW used2, used \subseteq used2, Uses(o) \subseteq used2,
         NEW recorded2, recorded2 \subseteq recorded \cup {o.key},
         NEW started2, started2 \subseteq started \cup (IF o.op = "install" THEN {o.key} ELSE {})
  PROVE  s \o <<o, r>> \in Orderly(L, required, used2, called, recorded2, started2)
<1> DEFINE t == s \o <<o, r>>
           l == Len(s)
<1>1. /\ s \in Seq(Ops) /\ l \in Nat /\ Requires(s, required)
      /\ \A n \in 1..l : /\ Fits(s[n], L) /\ InOrder(s, n, required) /\ Uses(s[n]) \subseteq used
                         /\ s[n].op = "sendInitialize" => s[n].key \in called
      /\ \A k \in recorded : Records(s, l, k)
      /\ \A k \in started : Starts(s, l, k)
  BY DEF Orderly
<1>2. /\ t \in Seq(Ops) /\ Len(t) = l + 2 /\ t[l + 1] = o /\ t[l + 2] = r
      /\ \A n \in 1..l : t[n] = s[n]
  <2>1. <<o, r>> \in Seq(Ops) /\ Len(<<o, r>>) = 2 /\ <<o, r>>[1] = o /\ <<o, r>>[2] = r
    OBVIOUS
  <2> DEFINE u == <<o, r>>
  <2> HIDE DEF u
  <2>2. /\ s \o u \in Seq(Ops) /\ Len(s \o u) = l + 2 /\ (s \o u)[l + 1] = o /\ (s \o u)[l + 2] = r
        /\ \A n \in 1..l : (s \o u)[n] = s[n]
    BY <1>1, <2>1 DEF u
  <2> QED
    BY <2>2 DEF u
<1> HIDE DEF t, l
<1>3. /\ \A k : \A n \in 0..l : Records(s, n, k) => Records(t, n, k)
      /\ \A k \in recorded : Records(t, l, k) /\ Records(t, l + 2, k)
      /\ Records(t, l + 2, o.key)
  BY <1>1, <1>2 DEF Records
<1>4. ASSUME NEW n \in 1..l
      PROVE  /\ Fits(t[n], L) /\ InOrder(t, n, required) /\ Uses(t[n]) \subseteq used2
             /\ t[n].op = "sendInitialize" => t[n].key \in called
  <2>1. Fits(s[n], L) /\ InOrder(s, n, required) /\ Uses(s[n]) \subseteq used /\ t[n] = s[n]
        /\ (s[n].op = "sendInitialize" => s[n].key \in called)
    BY <1>1, <1>2
  <2>2. /\ n - 1 \in 0..l /\ \A m \in 1..(n - 1) : t[m] = s[m]
        /\ n < l => n < l + 2 /\ t[n + 1] = s[n + 1]
    BY <1>1, <1>2
  <2>3. InOrder(t, n, required)
    BY <1>1, <1>2, <1>3, <2>1, <2>2, SMTT(30) DEF InOrder, l
  <2> QED
    BY <2>1, <2>3
<1>5. /\ Fits(t[l + 1], L) /\ InOrder(t, l + 1, required) /\ Uses(t[l + 1]) \subseteq used2
      /\ t[l + 1].op # "sendInitialize"
  <2>1. (l + 1) - 1 = l /\ (l + 1) + 1 = l + 2 /\ l + 1 < l + 2
    BY <1>1
  <2>2. \A k \in Reads(o) : k \in required \/ Records(t, l, k)
    BY <1>3
  <2>3. o.op # "sendInitialize" /\ o.op # "record"
    BY DEF Deploys
  <2> QED
    BY <1>2, <1>3, <2>1, <2>2, <2>3 DEF InOrder
<1>6. /\ Fits(t[l + 2], L) /\ InOrder(t, l + 2, required) /\ Uses(t[l + 2]) \subseteq used2
      /\ t[l + 2].op # "sendInitialize"
  <2>1. Uses(r) = {} /\ Reads(r) = {}
    BY DEF Uses, Reads, Giving, Addressed
  <2>2. Fits(r, L)
    BY <2>1 DEF Fits
  <2>3. (l + 2) - 1 = l + 1
    BY <1>1
  <2>4. ASSUME NEW m \in 1..(l + 1)
        PROVE  r.key \notin Uses(t[m]) \/ (m = l + 1 /\ t[m].op = "install" /\ r.key \notin t[m].args)
    <3>1. CASE m \in 1..l
      BY <1>1, <1>2, <3>1
    <3>2. CASE m = l + 1 /\ o.op = "install"
      BY <1>2, <3>2
    <3>3. CASE m = l + 1 /\ o.op = "proxy"
      <4>1. Uses(o) = {}
        BY <3>3 DEF Uses, Giving, Addressed
      <4> QED
        BY <1>2, <3>3, <4>1
    <3> QED
      BY <1>1, <3>1, <3>2, <3>3 DEF Deploys
  <2> QED
    BY <1>2, <2>1, <2>2, <2>3, <2>4 DEF InOrder
<1>7. \A k \in started2 : Starts(t, l + 2, k)
  <2> SUFFICES ASSUME NEW k \in started2 PROVE Starts(t, l + 2, k)
    OBVIOUS
  <2>1. CASE k \in started
    BY <1>1, <1>2, <2>1 DEF Starts
  <2>2. CASE o.op = "install" /\ k = o.key
    BY <1>1, <1>2, <2>2 DEF Starts, Starting
  <2> QED
    BY <2>1, <2>2
<1>8. Requires(t, required)
  <2>1. l >= 1 => t[1] = s[1]
    BY <1>1, <1>2
  <2> QED
    BY <1>1, <1>2, <2>1 DEF Requires, l
<1>9. \A n \in 1..(l + 2) : n \in 1..l \/ n = l + 1 \/ n = l + 2
  BY <1>1
<1>10. t \in Orderly(L, required, used2, called, recorded2, started2)
  BY <1>2, <1>3, <1>4, <1>5, <1>6, <1>7, <1>8, <1>9 DEF Orderly
<1> QED
  BY <1>10 DEF t
\* The level of every name.
LEMMA Levels ==
  /\ \A k \in BaseNames : Level(k) = 1
  /\ \A k \in ProducerNames : Level(k) = 2
  /\ \A k \in TCashNames : Level(k) = 3
  /\ \A k \in USTNNames : Level(k) = 4
  /\ \A k \in CrosschainNames : Level(k) = 5
  /\ \A k \in Standalone : Level(k) = 6
  /\ \A k : Level(k) = 6 => k \in Standalone
<1>1. TreasureNames \cap OtherNames = {}
  BY NamesAssumption DEF TreasureNames
<1>2. /\ BaseNames \subseteq OtherNames /\ TCashNames \subseteq OtherNames /\ USTNNames \subseteq OtherNames
      /\ CrosschainNames \subseteq OtherNames /\ Standalone \subseteq OtherNames
      /\ {"GOVERNANCE", "TAT"} \subseteq OtherNames
  BY DEF BaseNames, TCashNames, USTNNames, CrosschainNames, Standalone, OtherNames
<1>3. /\ ProducerNames \cap BaseNames = {} /\ ProducerNames \cap TCashNames = {}
      /\ ProducerNames \cap USTNNames = {} /\ ProducerNames \cap CrosschainNames = {}
      /\ ProducerNames \cap Standalone = {}
  <2>1. {"GOVERNANCE", "TAT"} \cap (BaseNames \cup TCashNames \cup USTNNames \cup CrosschainNames \cup Standalone) = {}
    BY DEF BaseNames, TCashNames, USTNNames, CrosschainNames, Standalone
  <2> QED
    BY <1>1, <1>2, <2>1 DEF ProducerNames
<1>4. /\ BaseNames \cap TCashNames = {} /\ BaseNames \cap USTNNames = {} /\ BaseNames \cap CrosschainNames = {}
      /\ BaseNames \cap Standalone = {} /\ TCashNames \cap USTNNames = {} /\ TCashNames \cap CrosschainNames = {}
      /\ TCashNames \cap Standalone = {} /\ USTNNames \cap CrosschainNames = {}
      /\ USTNNames \cap Standalone = {} /\ CrosschainNames \cap Standalone = {}
  BY DEF BaseNames, TCashNames, USTNNames, CrosschainNames, Standalone
<1>5. QED
  BY <1>3, <1>4 DEF Level

Lower(S, L) == \A k \in S : Level(k) <= L /\ Level(k) < 6

\* The operations of the scripts, one after the other.
LEMMA OrderlyProxy ==
  ASSUME NEW L, NEW required, NEW used, NEW called, NEW recorded, NEW started,
         NEW s \in Orderly(L, required, used, called, recorded, started),
         NEW key \in Names, key \notin used, Level(key) = L, Level(key) # 6,
         NEW recorded2, recorded2 \subseteq recorded \cup {key}
  PROVE  s \o Proxy(key) \in Orderly(L, required, used, called, recorded2, started)
<1> DEFINE o == Op("proxy", key, {})
           r == Op("record", key, {})
<1>1. o \in Ops /\ r \in Ops /\ o.op = "proxy" /\ o.key = key /\ o.args = {} /\ r.op = "record" /\ r.key = key /\ r.args = {}
  BY DEF Op, Ops, OpNames
<1>2. Proxy(key) = <<o, r>>
  BY DEF Proxy
<1> HIDE DEF o, r
<1>3. Uses(o) = {} /\ Reads(o) = {} /\ o.op \in Deploys
  BY <1>1 DEF Uses, Reads, Giving, Addressed, Deploys
<1>4. Fits(o, L)
  BY <1>1, <1>3, Levels DEF Fits
<1> QED
  BY <1>1, <1>2, <1>3, <1>4, OneMoreContract

\* A contract initialized where it is created, and its record.
LEMMA OrderlyInstall ==
  ASSUME NEW L, NEW required, NEW used, NEW called, NEW recorded, NEW started,
         NEW s \in Orderly(L, required, used, called, recorded, started),
         NEW key \in Names, key \notin used, Level(key) \in {L, 6}, L \in 1..6,
         NEW args \in SUBSET Names, key \notin args, args # {} => key \notin Standalone,
         args \subseteq required \cup recorded, Lower(args, L),
         NEW used2, used \subseteq used2, args \subseteq used2, key \in used2 \cup Standalone,
         NEW recorded2, recorded2 \subseteq recorded \cup {key},
         NEW started2, started2 \subseteq started \cup {key}
  PROVE  s \o Install(key, args) \in Orderly(L, required, used2, called, recorded2, started2)
<1> DEFINE o == Op("install", key, args)
           r == Op("record", key, {})
<1>1. /\ o \in Ops /\ r \in Ops /\ o.op = "install" /\ o.key = key /\ o.args = args
      /\ r.op = "record" /\ r.key = key /\ r.args = {}
  BY DEF Op, Ops, OpNames
<1>2. Install(key, args) = <<o, r>>
  BY DEF Install
<1> HIDE DEF o, r
<1>3. Uses(o) = args \cup ({key} \ Standalone) /\ Reads(o) = args /\ o.op \in Deploys
  BY <1>1 DEF Uses, Reads, Giving, Addressed, Deploys
<1>4. Fits(o, L)
  <2>1. \A k \in Uses(o) : Level(k) <= L /\ Level(k) < 6
    <3>1. key \notin Standalone => Level(key) = L /\ L < 6
      BY Levels
    <3> QED
      BY <1>3, <3>1 DEF Lower
  <2>2. o.op \notin {"record", "proxy"} /\ (o.args # {} => o.op = "install" /\ o.key \notin Standalone)
    BY <1>1
  <2> QED
    BY ONLY <2>1, <2>2 DEF Fits
<1> QED
  BY <1>1, <1>2, <1>3, <1>4, OneMoreContract

\* A call that is waited for, of names that are recorded.
LEMMA OrderlyCall ==
  ASSUME NEW L, NEW required, NEW used, NEW called, NEW recorded, NEW started,
         NEW s \in Orderly(L, required, used, called, recorded, started),
         NEW op \in {"initialize", "wire", "price"}, NEW key \in Names,
         NEW args \in SUBSET Names, op = "price" => args = {},
         args \cup {key} \subseteq required \cup recorded, Lower(args \cup {key}, L),
         NEW used2, used \subseteq used2, args \cup {key} \subseteq used2,
         NEW started2, started2 \subseteq started \cup (IF op = "initialize" THEN {key} ELSE {})
  PROVE  s \o <<Op(op, key, args)>> \in Orderly(L, required, used2, called, recorded, started2)
<1> DEFINE o == Op(op, key, args)
<1>1. o \in Ops /\ o.op = op /\ o.key = key /\ o.args = args
  BY DEF Op, Ops, OpNames
<1> HIDE DEF o
<1>2. Uses(o) \subseteq args \cup {key} /\ Reads(o) = args \cup {key}
  BY <1>1 DEF Uses, Reads, Giving, Addressed
<1>3. Fits(o, L)
  <2>1. key \notin Standalone
    BY Levels DEF Lower
  <2>2. \A k \in Uses(o) : Level(k) <= L /\ Level(k) < 6
    BY <1>2 DEF Lower
  <2>3. /\ o.op \notin {"record", "proxy"}
        /\ o.args # {} => o.op \in {"initialize", "sendInitialize", "wire"} /\ o.key \notin Standalone
    BY <1>1, <2>1
  <2> QED
    BY ONLY <2>2, <2>3 DEF Fits
<1>4. s \o <<o>> \in Orderly(L, required, used2, called, recorded, started2)
  BY <1>1, <1>2, <1>3, OneMore DEF Starting
<1> QED
  BY <1>4 DEF o

\* The one call to a contract that nobody waits for.
LEMMA OrderlySend ==
  ASSUME NEW L, NEW required, NEW used, NEW called, NEW recorded, NEW started,
         NEW s \in Orderly(L, required, used, called, recorded, started),
         NEW key \in Names, NEW args \in SUBSET Names, key \in recorded, key \notin called,
         args \subseteq required \cup recorded, Lower(args \cup {key}, L),
         NEW used2, used \subseteq used2, args \cup {key} \subseteq used2,
         NEW called2, called \cup {key} \subseteq called2,
         NEW started2, started2 \subseteq started \cup {key}
  PROVE  s \o SendInitialize(key, args) \in Orderly(L, required, used2, called2, recorded, started2)
<1> DEFINE o == Op("sendInitialize", key, args)
<1>1. o \in Ops /\ o.op = "sendInitialize" /\ o.key = key /\ o.args = args
  BY DEF Op, Ops, OpNames
<1>2. SendInitialize(key, args) = <<o>>
  BY DEF SendInitialize
<1> HIDE DEF o
<1>3. Uses(o) \subseteq args \cup {key} /\ Reads(o) = args \cup {key}
  BY <1>1 DEF Uses, Reads, Giving, Addressed
<1>4. Fits(o, L)
  <2>1. key \notin Standalone
    BY Levels DEF Lower
  <2>2. \A k \in Uses(o) : Level(k) <= L /\ Level(k) < 6
    BY <1>3 DEF Lower
  <2>3. /\ o.op \notin {"record", "proxy"}
        /\ o.args # {} => o.op \in {"initialize", "sendInitialize", "wire"} /\ o.key \notin Standalone
    BY <1>1, <2>1
  <2> QED
    BY ONLY <2>2, <2>3 DEF Fits
<1> QED
  BY <1>1, <1>2, <1>3, <1>4, OneMore DEF Starting

\* A check, or a transaction that is not sent.
LEMMA OrderlyCheck ==
  ASSUME NEW L, NEW required, NEW used, NEW called, NEW recorded, NEW started,
         NEW s \in Orderly(L, required, used, called, recorded, started),
         NEW op \in {"code", "minter", "manager", "noSuchInitializer"}, NEW key \in Names,
         NEW args \in SUBSET Names, args # {} => op = "code" /\ key = ""
  PROVE  s \o <<Op(op, key, args)>> \in Orderly(L, required, used, called, recorded, started)
<1> DEFINE o == Op(op, key, args)
<1>1. o \in Ops /\ o.op = op /\ o.key = key /\ o.args = args
  BY DEF Op, Ops, OpNames
<1> HIDE DEF o
<1>2. Uses(o) = {} /\ Reads(o) = {}
  BY <1>1 DEF Uses, Reads, Giving, Addressed
<1>3. Fits(o, L)
  BY <1>1, <1>2 DEF Fits
<1>4. s \o <<o>> \in Orderly(L, required, used, called, recorded, started)
  BY <1>1, <1>2, <1>3, OneMore DEF Starting
<1> QED
  BY <1>4 DEF o

\* How the scripts begin.
LEMMA OrderlyLoad ==
  ASSUME NEW L
  PROVE  /\ \A op \in Loads : <<Op(op, "", {})>> \in Orderly(L, {}, {}, {}, {}, {})
         /\ <<Op("load", "", {}), Op("startNewEntry", "", {})>> \in Orderly(L, {}, {}, {}, {}, {})
         /\ \A required, args \in SUBSET Names : LoadEntry(args) \in Orderly(L, required, {}, {}, {}, {})
<1>1. ASSUME NEW op \in Loads \cup {"startNewEntry", "require"}, NEW args \in SUBSET Names,
             args # {} => op = "require"
      PROVE  LET o == Op(op, "", args)
             IN  /\ o \in Ops /\ Fits(o, L) /\ Uses(o) = {} /\ Reads(o) = {} /\ o.op = op /\ o.args = args
                 /\ o.op \notin {"record", "install", "sendInitialize"}
  <2> DEFINE o == Op(op, "", args)
  <2>1. o \in Ops /\ o.op = op /\ o.key = "" /\ o.args = args
    BY DEF Op, Ops, OpNames, Loads, Names, OtherNames
  <2> HIDE DEF o
  <2>2. Uses(o) = {} /\ Reads(o) = {} /\ o.op \notin {"record", "install", "sendInitialize"}
    BY <2>1 DEF Uses, Reads, Giving, Addressed, Loads
  <2>3. Fits(o, L)
    <3>1. o.op \notin {"record", "proxy"} /\ (o.args # {} => o.op = "require")
      BY <1>1, <2>1 DEF Loads
    <3> QED
      BY <2>1, <2>2, <3>1 DEF Fits
  <2> QED
    BY <2>1, <2>2, <2>3 DEF o
<1>2. ASSUME NEW s \in Seq(Ops), NEW required, Requires(s, required),
             \A n \in 1..Len(s) : /\ Fits(s[n], L) /\ Uses(s[n]) = {} /\ Reads(s[n]) = {}
                                  /\ s[n].op \notin {"record", "install", "sendInitialize"}
      PROVE  s \in Orderly(L, required, {}, {}, {}, {})
  BY <1>2 DEF Orderly, InOrder
<1>3. ASSUME NEW op \in Loads PROVE <<Op(op, "", {})>> \in Orderly(L, {}, {}, {}, {}, {})
  <2> DEFINE o == Op(op, "", {})
             s == <<o>>
  <2>1. /\ o \in Ops /\ Fits(o, L) /\ Uses(o) = {} /\ Reads(o) = {}
        /\ o.op \notin {"record", "install", "sendInitialize"}
    BY <1>1
  <2> HIDE DEF o
  <2>2. s \in Seq(Ops) /\ Len(s) = 1 /\ s[1] = o
    BY <2>1
  <2> HIDE DEF s
  <2>3. \A n \in 1..Len(s) : s[n] = o
    BY <2>2
  <2>4. s \in Orderly(L, {}, {}, {}, {}, {})
    BY <1>2, <2>1, <2>2, <2>3 DEF Requires
  <2> QED
    BY <2>4 DEF s, o
<1>4. ASSUME NEW x \in Ops, NEW y \in Ops, NEW required, required # {} => x.op = "loadEntry",
             \A o \in {x, y} : /\ Fits(o, L) /\ Uses(o) = {} /\ Reads(o) = {}
                               /\ o.op \notin {"record", "install", "sendInitialize"}
      PROVE  <<x, y>> \in Orderly(L, required, {}, {}, {}, {})
  <2> DEFINE s == <<x, y>>
  <2>1. s \in Seq(Ops) /\ Len(s) = 2 /\ s[1] = x /\ s[2] = y
    OBVIOUS
  <2> HIDE DEF s
  <2>2. \A n \in 1..Len(s) : s[n] \in {x, y}
    BY <2>1
  <2>3. Requires(s, required)
    BY <1>4, <2>1 DEF Requires
  <2>4. s \in Orderly(L, required, {}, {}, {}, {})
    BY <1>2, <1>4, <2>1, <2>2, <2>3
  <2> QED
    BY <2>4 DEF s
<1>5. <<Op("load", "", {}), Op("startNewEntry", "", {})>> \in Orderly(L, {}, {}, {}, {}, {})
  <2> DEFINE x == Op("load", "", {})
             y == Op("startNewEntry", "", {})
  <2>1. /\ x \in Ops /\ Fits(x, L) /\ Uses(x) = {} /\ Reads(x) = {} /\ x.op = "load"
        /\ x.op \notin {"record", "install", "sendInitialize"}
    BY <1>1 DEF Loads
  <2>2. /\ y \in Ops /\ Fits(y, L) /\ Uses(y) = {} /\ Reads(y) = {} /\ y.op = "startNewEntry"
        /\ y.op \notin {"record", "install", "sendInitialize"}
    BY <1>1
  <2> HIDE DEF x, y
  <2>3. <<x, y>> \in Orderly(L, {}, {}, {}, {}, {})
    BY <1>4, <2>1, <2>2
  <2> QED
    BY <2>3 DEF x, y
<1>6. ASSUME NEW required \in SUBSET Names, NEW args \in SUBSET Names
      PROVE  LoadEntry(args) \in Orderly(L, required, {}, {}, {}, {})
  <2> DEFINE x == Op("loadEntry", "", {})
             y == Op("require", "", args)
  <2>1. /\ x \in Ops /\ Fits(x, L) /\ Uses(x) = {} /\ Reads(x) = {} /\ x.op = "loadEntry"
        /\ x.op \notin {"record", "install", "sendInitialize"}
    BY <1>1 DEF Loads
  <2>2. /\ y \in Ops /\ Fits(y, L) /\ Uses(y) = {} /\ Reads(y) = {} /\ y.op = "require"
        /\ y.op \notin {"record", "install", "sendInitialize"}
    BY <1>1
  <2>3. LoadEntry(args) = <<x, y>>
    BY DEF LoadEntry
  <2> HIDE DEF x, y
  <2> QED
    BY <1>4, <2>1, <2>2, <2>3
<1> QED
  BY <1>3, <1>5, <1>6

-----------------------------------------------------------------------------

\* The step of the plan that records each name.
LEMMA LevelOfNames ==
  /\ Level("DAO") = 1 /\ Level("MULSIG") = 1 /\ Level("ROLES") = 1 /\ Level("PARAMETER_INFO") = 1
  /\ Level("ORACLE") = 1 /\ Level("GOVERNANCE") = 2 /\ Level("TAT") = 2
  /\ Level("TCASH") = 3 /\ Level("TAT_MANAGER") = 3 /\ Level("TCASH_LOAN") = 3 /\ Level("TCASH_AUCTION") = 3
  /\ Level("USTN") = 4 /\ Level("USTN_AUCTION") = 4 /\ Level("USTN_FINANCE") = 4
  /\ Level("CROSSCHAIN_TOKENS") = 5 /\ Level("CROSSCHAIN_BRIDGE") = 5
  /\ Level("WTCASH") = 6 /\ Level("WUNIT") = 6 /\ Level("TOKENLOCKER") = 6
BY Levels DEF BaseNames, ProducerNames, TCashNames, USTNNames, CrosschainNames, Standalone

\* Three operations appended one by one, or together.
LEMMA ThreeInARow ==
  ASSUME NEW S, NEW s \in Seq(S), NEW a \in S, NEW b \in S
  PROVE  ((s \o <<a>>) \o <<b>>) \o <<b>> = s \o <<a, b, b>>
<1> DEFINE u == <<a>>
           v == <<b>>
           w == <<a, b, b>>
<1>1. u \in Seq(S) /\ v \in Seq(S) /\ w \in Seq(S)
  OBVIOUS
<1>2. w = (u \o v) \o v
  <2> DEFINE t == (u \o v) \o v
  <2>1. /\ t \in Seq(S) /\ Len(t) = 3 /\ Len(w) = 3
        /\ t[1] = a /\ t[2] = b /\ t[3] = b /\ w[1] = a /\ w[2] = b /\ w[3] = b
    OBVIOUS
  <2> HIDE DEF t, w
  <2>2. \A i \in 1..3 : w[i] = t[i]
    BY <2>1
  <2>3. w = t
    BY <1>1, <2>1, <2>2, SeqEqual
  <2> QED
    BY <2>3 DEF t
<1> HIDE DEF u, v, w
<1>3. u \o v \in Seq(S) /\ s \o u \in Seq(S)
  BY <1>1
<1>4. s \o (u \o v) = (s \o u) \o v
  BY <1>1, ConcatInARow
<1>5. s \o ((u \o v) \o v) = (s \o (u \o v)) \o v
  BY <1>1, <1>3, ConcatInARow, SMTT(30)
<1>6. ((s \o u) \o v) \o v = s \o w
  BY <1>2, <1>4, <1>5
<1> QED
  BY <1>6 DEF u, v, w

\* base uses only what it has recorded, and starts three of its contracts.
LEMMA OrderlyBase ==
  Base \in Orderly(1, {}, BaseNames, {}, BaseNames, {"DAO", "PARAMETER_INFO", "ORACLE"})
<1> DEFINE R == {}
           all == {"DAO", "MULSIG", "ROLES", "PARAMETER_INFO", "ORACLE"}
           In(s, used, recorded, started) ==
             s \in Orderly(1, R, used, {}, recorded, started)
           s0 == <<Op("load", "", {}), Op("startNewEntry", "", {})>>
           s1 == s0 \o Proxy("DAO")
           s2 == s1 \o Proxy("MULSIG")
           s3 == s2 \o Proxy("ROLES")
           s4 == s3 \o Proxy("PARAMETER_INFO")
           s5 == s4 \o Proxy("ORACLE")
           s6 == s5 \o Initialize("DAO", {})
           s7 == s6 \o Initialize("PARAMETER_INFO", {"MULSIG"})
           s8 == s7 \o Initialize("ORACLE", {"ROLES"})
<1> HIDE DEF s0, s1, s2, s3, s4, s5, s6, s7, s8
<1>0. In(s0, {}, {}, {})
  BY OrderlyLoad, NamesOfScripts DEF Loads, s0
<1>1. In(s1, {}, {"DAO"}, {})
  BY <1>0, OrderlyProxy, NamesOfScripts, LevelOfNames DEF s1
<1>2. In(s2, {}, {"DAO", "MULSIG"}, {})
  BY <1>1, OrderlyProxy, NamesOfScripts, LevelOfNames DEF s2
<1>3. In(s3, {}, {"DAO", "MULSIG", "ROLES"}, {})
  BY <1>2, OrderlyProxy, NamesOfScripts, LevelOfNames DEF s3
<1>4. In(s4, {}, {"DAO", "MULSIG", "ROLES", "PARAMETER_INFO"}, {})
  BY <1>3, OrderlyProxy, NamesOfScripts, LevelOfNames DEF s4
<1>5. In(s5, {}, all, {})
  BY <1>4, OrderlyProxy, NamesOfScripts, LevelOfNames DEF s5
<1>6. In(s6, all, all, {"DAO"})
  BY <1>5, OrderlyCall, NamesOfScripts, LevelOfNames DEF Lower, Initialize, s6
<1>7. In(s7, all, all, {"DAO", "PARAMETER_INFO"})
  BY <1>6, OrderlyCall, NamesOfScripts, LevelOfNames DEF Lower, Initialize, s7
<1>8. In(s8, all, all, {"DAO", "PARAMETER_INFO", "ORACLE"})
  BY <1>7, OrderlyCall, NamesOfScripts, LevelOfNames DEF Lower, Initialize, s8
<1> QED
  BY <1>8 DEF Base, BaseNames, s0, s1, s2, s3, s4, s5, s6, s7, s8

\* tcash requires names of base and producers, and starts three of its contracts.
LEMMA OrderlyTCash ==
  TCashStack \in Orderly(3, {"ROLES", "ORACLE", "TAT"}, TCashNames \cup {"ROLES", "ORACLE"}, {},
                         TCashNames \cup {"WTCASH", "WUNIT"}, {"TCASH", "TAT_MANAGER", "TCASH_AUCTION"})
<1> DEFINE R == {"ROLES", "ORACLE", "TAT"}
           all == {"TCASH", "TAT_MANAGER", "TCASH_LOAN", "TCASH_AUCTION", "ROLES", "ORACLE"}
           new == {"TCASH", "TAT_MANAGER", "TCASH_LOAN", "TCASH_AUCTION", "WTCASH", "WUNIT"}
           In(s, used, recorded, started) ==
             s \in Orderly(3, R, used, {}, recorded, started)
           s0 == LoadEntry(R)
           s1 == s0 \o Install("TCASH", {})
           s2 == s1 \o Install("WTCASH", {})
           s3 == s2 \o Install("WUNIT", {})
           s4 == s3 \o Install("TAT_MANAGER", {"ROLES"})
           s5 == s4 \o Proxy("TCASH_LOAN")
           s6 == s5 \o Install("TCASH_AUCTION", {"ROLES", "TCASH", "TCASH_LOAN"})
           s7 == s6 \o Wire("TCASH", {"ROLES"})
           s8 == s7 \o Wire("TCASH", {"ORACLE"})
<1> HIDE DEF s0, s1, s2, s3, s4, s5, s6, s7, s8
<1>0. In(s0, {}, {}, {})
  BY OrderlyLoad, NamesOfScripts DEF Loads, s0
<1>1. In(s1, {"TCASH"}, {"TCASH"}, {"TCASH"})
  BY <1>0, OrderlyInstall, NamesOfScripts, LevelOfNames DEF Lower, Standalone, s1
<1>2. In(s2, {"TCASH"}, {"TCASH", "WTCASH"}, {"TCASH"})
  BY <1>1, OrderlyInstall, NamesOfScripts, LevelOfNames DEF Lower, Standalone, s2
<1>3. In(s3, {"TCASH"}, {"TCASH", "WTCASH", "WUNIT"}, {"TCASH"})
  BY <1>2, OrderlyInstall, NamesOfScripts, LevelOfNames DEF Lower, Standalone, s3
<1>4. In(s4, {"TCASH", "ROLES", "TAT_MANAGER"},
         {"TCASH", "WTCASH", "WUNIT", "TAT_MANAGER"},
         {"TCASH", "TAT_MANAGER"})
  BY <1>3, OrderlyInstall, NamesOfScripts, LevelOfNames DEF Lower, Standalone, s4
<1>5. In(s5, {"TCASH", "ROLES", "TAT_MANAGER"},
         {"TCASH", "WTCASH", "WUNIT", "TAT_MANAGER", "TCASH_LOAN"},
         {"TCASH", "TAT_MANAGER"})
  BY <1>4, OrderlyProxy, NamesOfScripts, LevelOfNames DEF s5
<1>6. In(s6, all, new, {"TCASH", "TAT_MANAGER", "TCASH_AUCTION"})
  BY <1>5, OrderlyInstall, NamesOfScripts, LevelOfNames DEF Lower, Standalone, s6
<1>7. In(s7, all, new, {"TCASH", "TAT_MANAGER", "TCASH_AUCTION"})
  BY <1>6, OrderlyCall, NamesOfScripts, LevelOfNames DEF Lower, Wire, s7
<1>8. In(s8, all, new, {"TCASH", "TAT_MANAGER", "TCASH_AUCTION"})
  BY <1>7, OrderlyCall, NamesOfScripts, LevelOfNames DEF Lower, Wire, s8
<1>9. all = TCashNames \cup {"ROLES", "ORACLE"} /\ new = TCashNames \cup {"WTCASH", "WUNIT"}
  BY DEF TCashNames
<1> QED
  BY <1>8, <1>9 DEF TCashStack, s0, s1, s2, s3, s4, s5, s6, s7, s8

\* ustn requires names of base, and starts its contracts by calls it does not wait for.
LEMMA OrderlyUSTN ==
  USTNStack \in Orderly(4, {"ROLES", "ORACLE", "PARAMETER_INFO"},
                        USTNNames \cup {"ROLES", "ORACLE", "PARAMETER_INFO"}, USTNNames, USTNNames, USTNNames)
<1> DEFINE R == {"ROLES", "ORACLE", "PARAMETER_INFO"}
           new == {"USTN", "USTN_AUCTION", "USTN_FINANCE"}
           all == {"USTN", "USTN_AUCTION", "USTN_FINANCE", "ROLES", "ORACLE", "PARAMETER_INFO"}
           In(s, used, called, recorded, started) ==
             s \in Orderly(4, R, used, called, recorded, started)
           s0 == LoadEntry(R)
           s1 == s0 \o Proxy("USTN")
           s2 == s1 \o Proxy("USTN_AUCTION")
           s3 == s2 \o Proxy("USTN_FINANCE")
           s4 == s3 \o SendInitialize("USTN_AUCTION", {"ROLES", "USTN", "USTN_FINANCE"})
           s5 == s4 \o SendInitialize("USTN_FINANCE", {"ROLES", "PARAMETER_INFO", "ORACLE", "USTN",
                              "USTN_AUCTION"})
           s6 == s5 \o SendInitialize("USTN", {"ROLES", "ORACLE", "USTN_AUCTION", "USTN_FINANCE"})
<1> HIDE DEF s0, s1, s2, s3, s4, s5, s6
<1>0. In(s0, {}, {}, {}, {})
  BY OrderlyLoad, NamesOfScripts DEF Loads, s0
<1>1. In(s1, {}, {}, {"USTN"}, {})
  BY <1>0, OrderlyProxy, NamesOfScripts, LevelOfNames DEF s1
<1>2. In(s2, {}, {}, {"USTN", "USTN_AUCTION"}, {})
  BY <1>1, OrderlyProxy, NamesOfScripts, LevelOfNames DEF s2
<1>3. In(s3, {}, {}, new, {})
  BY <1>2, OrderlyProxy, NamesOfScripts, LevelOfNames DEF s3
<1>4. In(s4, all, {"USTN_AUCTION"}, new, {"USTN_AUCTION"})
  BY <1>3, OrderlySend, NamesOfScripts, LevelOfNames DEF Lower, s4
<1>5. In(s5, all, {"USTN_AUCTION", "USTN_FINANCE"}, new, {"USTN_AUCTION", "USTN_FINANCE"})
  BY <1>4, OrderlySend, NamesOfScripts, LevelOfNames DEF Lower, s5
<1>6. In(s6, all, new, new, new)
  BY <1>5, OrderlySend, NamesOfScripts, LevelOfNames DEF Lower, s6
<1>7. all = USTNNames \cup {"ROLES", "ORACLE", "PARAMETER_INFO"} /\ new = USTNNames
  BY DEF USTNNames
<1>8. s6 = USTNStack
  BY ONLY DEF USTNStack, s0, s1, s2, s3, s4, s5, s6
<1> QED
  BY ONLY <1>6, <1>7, <1>8

\* crosschain starts what the others have not, and ends with a call it waits for.
LEMMA OrderlyCrosschain ==
  LET needed == {"DAO", "MULSIG", "ROLES", "PARAMETER_INFO", "ORACLE", "GOVERNANCE",
                 "TCASH", "TCASH_LOAN", "TCASH_AUCTION", "TAT"}
  IN  /\ Crosschain \in Orderly(5, needed, CrosschainNames \cup needed, {}, CrosschainNames,
                                CrosschainNames \cup {"MULSIG", "ROLES", "TCASH_LOAN"})
      /\ Crosschain[Len(Crosschain)].op = "price"
<1> DEFINE R == {"DAO", "MULSIG", "ROLES", "PARAMETER_INFO", "ORACLE", "GOVERNANCE",
                 "TCASH", "TCASH_LOAN", "TCASH_AUCTION", "TAT"}
           new == {"CROSSCHAIN_TOKENS", "CROSSCHAIN_BRIDGE"}
           all == {"DAO", "MULSIG", "ROLES", "PARAMETER_INFO", "ORACLE", "GOVERNANCE",
                   "TCASH", "TCASH_LOAN", "TCASH_AUCTION", "TAT", "CROSSCHAIN_TOKENS", "CROSSCHAIN_BRIDGE"}
           In(s, used, recorded, started) ==
             s \in Orderly(5, R, used, {}, recorded, started)
           s0 == LoadEntry(R)
           s1 == s0 \o <<Op("code", "", R)>>
           s2 == s1 \o Install("CROSSCHAIN_TOKENS", {})
           s3 == s2 \o Install("CROSSCHAIN_BRIDGE", {"CROSSCHAIN_TOKENS", "ROLES"})
           s4 == s3 \o Wire("CROSSCHAIN_TOKENS", {"MULSIG"})
           s5 == s4 \o Initialize("MULSIG", {"DAO", "GOVERNANCE", "ROLES", "PARAMETER_INFO",
                              "CROSSCHAIN_TOKENS"})
           s6 == s5 \o Initialize("ROLES", {"MULSIG", "ORACLE", "CROSSCHAIN_BRIDGE", "TCASH", "TCASH_LOAN",
                              "TCASH_AUCTION", "CROSSCHAIN_TOKENS"})
           s7 == s6 \o <<Op("minter", "TCASH_LOAN", {})>>
           s8 == s7 \o Initialize("TCASH_LOAN", {"TCASH", "ROLES", "PARAMETER_INFO", "ORACLE", "TAT"})
           s9 == s8 \o Wire("TCASH_LOAN", {"TCASH_AUCTION"})
           s10 == s9 \o <<Op("manager", "ROLES", {})>>
           s11 == s10 \o <<Op("price", "ORACLE", {})>>
           s12 == s11 \o <<Op("price", "ORACLE", {})>>
<1> HIDE DEF s0, s1, s2, s3, s4, s5, s6, s7, s8, s9, s10, s11, s12
<1>0. In(s0, {}, {}, {})
  BY OrderlyLoad, NamesOfScripts DEF Loads, s0
<1>1. In(s1, {}, {}, {})
  <2>1. "" \in Names /\ R \in SUBSET Names
    BY NamesOfScripts DEF Names, OtherNames
  <2> HIDE DEF R
  <2> QED
    BY <1>0, <2>1, OrderlyCheck DEF s1
<1>2. In(s2, {"CROSSCHAIN_TOKENS"}, {"CROSSCHAIN_TOKENS"}, {"CROSSCHAIN_TOKENS"})
  BY <1>1, OrderlyInstall, NamesOfScripts, LevelOfNames DEF Lower, Standalone, s2
<1>3. In(s3, all, new, new)
  BY <1>2, OrderlyInstall, NamesOfScripts, LevelOfNames DEF Lower, Standalone, s3
<1>4. In(s4, all, new, new)
  BY <1>3, OrderlyCall, NamesOfScripts, LevelOfNames DEF Lower, Wire, s4
<1>5. In(s5, all, new, {"CROSSCHAIN_TOKENS", "CROSSCHAIN_BRIDGE", "MULSIG"})
  BY <1>4, OrderlyCall, NamesOfScripts, LevelOfNames DEF Lower, Initialize, s5
<1>6. In(s6, all, new, {"CROSSCHAIN_TOKENS", "CROSSCHAIN_BRIDGE", "MULSIG", "ROLES"})
  BY <1>5, OrderlyCall, NamesOfScripts, LevelOfNames DEF Lower, Initialize, s6
<1>7. In(s7, all, new, {"CROSSCHAIN_TOKENS", "CROSSCHAIN_BRIDGE", "MULSIG", "ROLES"})
  BY <1>6, OrderlyCheck, NamesOfScripts, LevelOfNames DEF s7
<1>8. In(s8, all, new, {"CROSSCHAIN_TOKENS", "CROSSCHAIN_BRIDGE", "MULSIG", "ROLES", "TCASH_LOAN"})
  BY <1>7, OrderlyCall, NamesOfScripts, LevelOfNames DEF Lower, Initialize, s8
<1>9. In(s9, all, new, {"CROSSCHAIN_TOKENS", "CROSSCHAIN_BRIDGE", "MULSIG", "ROLES", "TCASH_LOAN"})
  BY <1>8, OrderlyCall, NamesOfScripts, LevelOfNames DEF Lower, Wire, s9
<1>10. In(s10, all, new, {"CROSSCHAIN_TOKENS", "CROSSCHAIN_BRIDGE", "MULSIG", "ROLES", "TCASH_LOAN"})
  BY <1>9, OrderlyCheck, NamesOfScripts, LevelOfNames DEF s10
<1>11. In(s11, all, new, {"CROSSCHAIN_TOKENS", "CROSSCHAIN_BRIDGE", "MULSIG", "ROLES", "TCASH_LOAN"})
  BY <1>10, OrderlyCall, NamesOfScripts, LevelOfNames DEF Lower, s11
<1>12. In(s12, all, new, {"CROSSCHAIN_TOKENS", "CROSSCHAIN_BRIDGE", "MULSIG", "ROLES", "TCASH_LOAN"})
  BY <1>11, OrderlyCall, NamesOfScripts, LevelOfNames DEF Lower, s12
<1>13. /\ all = CrosschainNames \cup R /\ new = CrosschainNames
       /\ {"CROSSCHAIN_TOKENS", "CROSSCHAIN_BRIDGE", "MULSIG", "ROLES", "TCASH_LOAN"}
            = CrosschainNames \cup {"MULSIG", "ROLES", "TCASH_LOAN"}
  BY DEF CrosschainNames
<1>14. s12 = Crosschain
  <2> DEFINE a == Op("manager", "ROLES", {})
             b == Op("price", "ORACLE", {})
  <2>1. a \in Ops /\ b \in Ops
    BY NamesOfScripts DEF Op, Ops, OpNames
  <2> HIDE DEF a, b
  <2>2. s9 \in Seq(Ops)
    BY <1>9 DEF Orderly
  <2>3. ((s9 \o <<a>>) \o <<b>>) \o <<b>> = s9 \o <<a, b, b>>
    BY <2>1, <2>2, ThreeInARow
  <2>4. s12 = s9 \o <<Op("manager", "ROLES", {}), Op("price", "ORACLE", {}), Op("price", "ORACLE", {})>>
    BY <2>3 DEF s12, s11, s10, a, b
  <2> QED
    BY ONLY <2>4 DEF Crosschain, s0, s1, s2, s3, s4, s5, s6, s7, s8, s9
<1>15. s12[Len(s12)].op = "price"
  <2> DEFINE b == Op("price", "ORACLE", {})
  <2>1. b.op = "price" /\ b \in Ops
    BY NamesOfScripts DEF Op, Ops, OpNames
  <2>2. s11 \in Seq(Ops)
    BY <1>11 DEF Orderly
  <2> HIDE DEF b
  <2>3. (s11 \o <<b>>)[Len(s11 \o <<b>>)] = b
    BY <2>1, <2>2
  <2> QED
    BY <2>1, <2>3 DEF s12, b
<1> QED
  BY ONLY <1>12, <1>13, <1>14, <1>15

-----------------------------------------------------------------------------

\* The treasures' contracts: recorded one pair after the other, then initialized.
NamesUpTo(i) == UNION {{Treasures[j].producer, Treasures[j].data} : j \in 1..i}

\* The names of the first treasures, and of one more.
LEMMA NamesOneMore ==
  /\ Treasures \in Seq([producer : STRING, data : STRING]) /\ Len(Treasures) \in Nat
  /\ DOMAIN Treasures = 1..Len(Treasures)
  /\ NamesUpTo(0) = {} /\ NamesUpTo(Len(Treasures)) = TreasureNames
  /\ \A i \in 1..Len(Treasures) :
       /\ NamesUpTo(i) = NamesUpTo(i - 1) \cup {Treasures[i].producer, Treasures[i].data}
       /\ Treasures[i].producer \notin NamesUpTo(i - 1) /\ Treasures[i].data \notin NamesUpTo(i - 1)
       /\ Treasures[i].producer # Treasures[i].data
       /\ {Treasures[i].producer, Treasures[i].data} \subseteq TreasureNames
<1>1. /\ Treasures \in Seq([producer : STRING, data : STRING]) /\ Len(Treasures) \in Nat
      /\ DOMAIN Treasures = 1..Len(Treasures)
  BY DeploymentAssumption
<1>2. NamesUpTo(0) = {} /\ NamesUpTo(Len(Treasures)) = TreasureNames
  BY <1>1 DEF NamesUpTo, TreasureNames
<1>3. ASSUME NEW i \in 1..Len(Treasures)
      PROVE  /\ NamesUpTo(i) = NamesUpTo(i - 1) \cup {Treasures[i].producer, Treasures[i].data}
             /\ {Treasures[i].producer, Treasures[i].data} \subseteq TreasureNames
  <2>1. \A j : j \in 1..i <=> j \in 1..(i - 1) \/ j = i
    BY <1>1
  <2> QED
    BY <1>1, <2>1 DEF NamesUpTo, TreasureNames
<1>4. ASSUME NEW i \in 1..Len(Treasures)
      PROVE  Treasures[i].producer \notin NamesUpTo(i - 1) /\ Treasures[i].data \notin NamesUpTo(i - 1)
  <2>1. \A j \in 1..(i - 1) : j \in DOMAIN Treasures /\ j # i
    BY <1>1
  <2>2. \A j \in 1..(i - 1) :
          {Treasures[i].producer, Treasures[i].data} \cap {Treasures[j].producer, Treasures[j].data} = {}
    BY <1>1, <2>1, NamesAssumption
  <2> QED
    BY <2>2 DEF NamesUpTo
<1> QED
  BY <1>1, <1>2, <1>3, <1>4, NamesAssumption

\* producers goes over the treasures twice, to create their contracts and to start them.
LEMMA OrderlyProducers ==
  Producers \in Orderly(2, BaseNames, BaseNames \cup ProducerNames, TreasureNames,
                        ProducerNames, ProducerNames)
<1> DEFINE R == {"MULSIG", "ROLES", "PARAMETER_INFO", "ORACLE"}
           n == Len(Treasures)
           names == {"DAO", "MULSIG", "ROLES", "PARAMETER_INFO"}
                      \cup UNION {{Treasures[i].producer, Treasures[i].data} : i \in DOMAIN Treasures}
           proxies == [i \in DOMAIN Treasures |-> Proxy(Treasures[i].producer) \o Proxy(Treasures[i].data)]
           calls == [i \in DOMAIN Treasures |->
                       SendInitialize(Treasures[i].producer, {"MULSIG", "ROLES", Treasures[i].data})
                       \o SendInitialize(Treasures[i].data,
                            {"ORACLE", "ROLES", "PARAMETER_INFO", Treasures[i].producer, "TAT"})]
           all == BaseNames \cup ProducerNames
           s0 == LoadEntry(R)
           s1 == s0 \o FlattenSeq(proxies)
           s2 == s1 \o Install("GOVERNANCE", names)
           s3 == s2 \o Install("TAT", {"GOVERNANCE"})
           s4 == s3 \o FlattenSeq(calls)
           A == [i \in 0..n |-> Orderly(2, BaseNames, {}, {}, NamesUpTo(i), {})]
           B == [i \in 0..n |-> Orderly(2, BaseNames, all, NamesUpTo(i), ProducerNames,
                                        {"GOVERNANCE", "TAT"} \cup NamesUpTo(i))]
<1> USE NamesOneMore
<1>1. /\ \A k \in BaseNames : Level(k) = 1 /\ k \in Names
      /\ \A k \in ProducerNames : Level(k) = 2 /\ k \in Names
      /\ R \in SUBSET BaseNames /\ {"DAO", "MULSIG", "ROLES", "PARAMETER_INFO"} \subseteq BaseNames
      /\ TreasureNames \subseteq ProducerNames /\ {"GOVERNANCE", "TAT"} \subseteq ProducerNames
      /\ "GOVERNANCE" \notin TreasureNames /\ "TAT" \notin TreasureNames
  <2>1. "GOVERNANCE" \notin TreasureNames /\ "TAT" \notin TreasureNames
    <3>1. TreasureNames \cap OtherNames = {}
      BY NamesAssumption DEF TreasureNames
    <3>2. "GOVERNANCE" \in OtherNames /\ "TAT" \in OtherNames
      BY DEF OtherNames
    <3> QED
      BY <3>1, <3>2
  <2>2. BaseNames \subseteq Names /\ ProducerNames \subseteq Names
    BY DEF BaseNames, ProducerNames, Names, OtherNames
  <2> QED
    BY Levels, <2>1, <2>2 DEF BaseNames, ProducerNames
<1>2. names \subseteq BaseNames \cup TreasureNames /\ names \in SUBSET Names /\ "GOVERNANCE" \notin names
  <2>1. names = {"DAO", "MULSIG", "ROLES", "PARAMETER_INFO"} \cup TreasureNames
    BY DEF TreasureNames
  <2> QED
    BY <1>1, <2>1
<1>3. \A key \in Names, args \in SUBSET Names :
        Proxy(key) \in Seq(Ops) /\ Install(key, args) \in Seq(Ops) /\ SendInitialize(key, args) \in Seq(Ops)
  BY SmallParts DEF Parts
<1> HIDE DEF names
<1>4. s0 \in A[0] /\ s0 \in Seq(Ops)
  <2>1. s0 \in Orderly(2, BaseNames, {}, {}, {}, {})
    <3>1. R \in SUBSET Names /\ BaseNames \in SUBSET Names
      BY <1>1
    <3> HIDE DEF R
    <3> QED
      BY <3>1, OrderlyLoad
  <2> HIDE DEF s0
  <2>2. s0 \in Seq(Ops)
    BY <2>1 DEF Orderly
  <2>3. A[0] = Orderly(2, BaseNames, {}, {}, NamesUpTo(0), {}) /\ NamesUpTo(0) = {}
    OBVIOUS
  <2> HIDE DEF A
  <2> QED
    BY <2>1, <2>2, <2>3
<1> HIDE DEF s0
<1>5. s1 \in A[n]
  <2>1. /\ proxies \in Seq(Seq(Ops)) /\ Len(proxies) = n
        /\ \A i \in 1..n : proxies[i] = Proxy(Treasures[i].producer) \o Proxy(Treasures[i].data)
    <3>1. /\ \A i \in 1..n : proxies[i] = Proxy(Treasures[i].producer) \o Proxy(Treasures[i].data)
          /\ proxies = [i \in 1..n |-> proxies[i]]
      OBVIOUS
    <3> HIDE DEF proxies
    <3>2. ASSUME NEW i \in 1..n PROVE proxies[i] \in Seq(Ops)
      <4>1. Proxy(Treasures[i].producer) \in Seq(Ops) /\ Proxy(Treasures[i].data) \in Seq(Ops)
        BY <1>1, <1>3
      <4>2. Proxy(Treasures[i].producer) \o Proxy(Treasures[i].data) \in Seq(Ops)
        BY ONLY <4>1, ConcatProperties
      <4> QED
        BY <3>1, <4>2
    <3>3. Len(proxies) = n
      BY <3>1
    <3>4. proxies \in Seq(Seq(Ops))
      BY <3>1, <3>2
    <3> QED
      BY <3>1, <3>3, <3>4
  <2> HIDE DEF proxies
  <2>2. ASSUME NEW i \in 1..n, NEW t \in Seq(Ops), t \in A[i - 1]
        PROVE  t \o proxies[i] \in A[i]
    <3> DEFINE p == Treasures[i].producer
               d == Treasures[i].data
    <3>1. p \in TreasureNames /\ d \in TreasureNames /\ p \in Names /\ d \in Names /\ Level(p) = 2 /\ Level(d) = 2
      BY <1>1
    <3>2. NamesUpTo(i) = NamesUpTo(i - 1) \cup {p, d} /\ i - 1 \in 0..n /\ i \in 0..n
      OBVIOUS
    <3>3. t \in Orderly(2, BaseNames, {}, {}, NamesUpTo(i - 1), {})
      BY <2>2, <3>2
    <3>4. proxies[i] = Proxy(p) \o Proxy(d) /\ Proxy(p) \in Seq(Ops) /\ Proxy(d) \in Seq(Ops)
      BY <1>3, <2>1, <3>1
    <3> HIDE DEF p, d
    <3>5. t \o Proxy(p) \in Orderly(2, BaseNames, {}, {}, NamesUpTo(i - 1) \cup {p}, {})
      BY <3>1, <3>3, OrderlyProxy
    <3>6. (t \o Proxy(p)) \o Proxy(d) \in Orderly(2, BaseNames, {}, {}, NamesUpTo(i), {})
      BY <3>1, <3>2, <3>5, OrderlyProxy
    <3>7. t \o proxies[i] = (t \o Proxy(p)) \o Proxy(d)
      <4>1. t \o (Proxy(p) \o Proxy(d)) = (t \o Proxy(p)) \o Proxy(d)
        BY ONLY t \in Seq(Ops), <3>4, ConcatInARow
      <4> QED
        BY <3>4, <4>1
    <3> QED
      BY <3>2, <3>6, <3>7
  <2> HIDE DEF A
  <2> QED
    BY <1>4, <2>1, <2>2, FlattenAppends
<1>6. s1 \in Orderly(2, BaseNames, {}, {}, TreasureNames, {})
  BY <1>5
<1> HIDE DEF s1, A
<1>7. s2 \in Orderly(2, BaseNames, names \cup {"GOVERNANCE"}, {}, TreasureNames \cup {"GOVERNANCE"}, {"GOVERNANCE"})
  <2>1. Lower(names, 2) /\ "GOVERNANCE" \in Names /\ Level("GOVERNANCE") = 2 /\ "GOVERNANCE" \notin Standalone
    BY <1>1, <1>2 DEF Lower, Standalone
  <2> QED
    BY <1>2, <1>6, <2>1, OrderlyInstall
<1> HIDE DEF s2
<1>8. s3 \in Orderly(2, BaseNames, all, {}, ProducerNames, {"GOVERNANCE", "TAT"})
  <2>1. Lower({"GOVERNANCE"}, 2) /\ "TAT" \in Names /\ Level("TAT") = 2 /\ "TAT" \notin Standalone
        /\ {"GOVERNANCE"} \in SUBSET Names
    BY <1>1 DEF Lower, Standalone
  <2>2. "TAT" \notin names \cup {"GOVERNANCE"} /\ names \cup {"GOVERNANCE"} \subseteq all /\ "TAT" \in all
    BY <1>1, <1>2 DEF BaseNames
  <2>3. ProducerNames = (TreasureNames \cup {"GOVERNANCE"}) \cup {"TAT"}
    BY DEF ProducerNames
  <2>4. {"GOVERNANCE", "TAT"} = {"GOVERNANCE"} \cup {"TAT"}
    OBVIOUS
  <2> HIDE DEF all
  <2>5. s2 \o Install("TAT", {"GOVERNANCE"}) \in
          Orderly(2, BaseNames, all, {}, ProducerNames, {"GOVERNANCE"} \cup {"TAT"})
    BY <1>7, <2>1, <2>2, <2>3, OrderlyInstall
  <2> QED
    BY <2>4, <2>5
<1> HIDE DEF s3
<1>9. s4 \in B[n]
  <2>0. s3 \in B[0] /\ s3 \in Seq(Ops)
    BY <1>8 DEF Orderly
  <2>1. /\ calls \in Seq(Seq(Ops)) /\ Len(calls) = n
        /\ \A i \in 1..n :
             calls[i] = SendInitialize(Treasures[i].producer, {"MULSIG", "ROLES", Treasures[i].data})
                        \o SendInitialize(Treasures[i].data,
                             {"ORACLE", "ROLES", "PARAMETER_INFO", Treasures[i].producer, "TAT"})
    <3>1. ASSUME NEW i \in 1..n PROVE calls[i] \in Seq(Ops)
      <4>1. /\ {"MULSIG", "ROLES", Treasures[i].data} \in SUBSET Names
            /\ {"ORACLE", "ROLES", "PARAMETER_INFO", Treasures[i].producer, "TAT"} \in SUBSET Names
            /\ Treasures[i].producer \in Names /\ Treasures[i].data \in Names
        BY <1>1
      <4>2. calls[i] = SendInitialize(Treasures[i].producer, {"MULSIG", "ROLES", Treasures[i].data})
                       \o SendInitialize(Treasures[i].data,
                            {"ORACLE", "ROLES", "PARAMETER_INFO", Treasures[i].producer, "TAT"})
        OBVIOUS
      <4> HIDE DEF calls
      <4>4. /\ SendInitialize(Treasures[i].producer, {"MULSIG", "ROLES", Treasures[i].data}) \in Seq(Ops)
            /\ SendInitialize(Treasures[i].data,
                 {"ORACLE", "ROLES", "PARAMETER_INFO", Treasures[i].producer, "TAT"}) \in Seq(Ops)
        BY <1>3, <4>1
      <4>5. calls[i] \in Seq(Ops)
        BY ONLY <4>2, <4>4, ConcatProperties
      <4> QED
        BY <4>5
    <3>2. calls = [i \in 1..n |-> calls[i]]
      OBVIOUS
    <3>3. \A i \in 1..n : calls[i] = SendInitialize(Treasures[i].producer, {"MULSIG", "ROLES", Treasures[i].data})
                        \o SendInitialize(Treasures[i].data,
                             {"ORACLE", "ROLES", "PARAMETER_INFO", Treasures[i].producer, "TAT"})
      OBVIOUS
    <3> HIDE DEF calls
    <3>4. Len(calls) = n
      BY <3>2
    <3>5. calls \in Seq(Seq(Ops))
      BY <3>1, <3>2
    <3> QED
      BY <3>3, <3>4, <3>5
  <2> HIDE DEF calls
  <2>2. ASSUME NEW i \in 1..n, NEW t \in Seq(Ops), t \in B[i - 1]
        PROVE  t \o calls[i] \in B[i]
    <3> DEFINE p == Treasures[i].producer
               d == Treasures[i].data
               pa == {"MULSIG", "ROLES", d}
               da == {"ORACLE", "ROLES", "PARAMETER_INFO", p, "TAT"}
               st == {"GOVERNANCE", "TAT"} \cup NamesUpTo(i - 1)
    <3>1. /\ p \in ProducerNames /\ d \in ProducerNames /\ p \in Names /\ d \in Names /\ p # d
          /\ p \notin NamesUpTo(i - 1) /\ d \notin NamesUpTo(i - 1)
      BY <1>1
    <3>2. NamesUpTo(i) = NamesUpTo(i - 1) \cup {p, d} /\ i - 1 \in 0..n /\ i \in 0..n
      OBVIOUS
    <3>3. t \in Orderly(2, BaseNames, all, NamesUpTo(i - 1), ProducerNames, st)
      BY <2>2, <3>2
    <3>4. /\ pa \in SUBSET Names /\ da \in SUBSET Names /\ pa \cup {p} \subseteq all /\ da \cup {d} \subseteq all
          /\ Lower(pa \cup {p}, 2) /\ Lower(da \cup {d}, 2)
      BY <1>1, <3>1 DEF Lower
    <3>5. /\ calls[i] = SendInitialize(p, pa) \o SendInitialize(d, da)
          /\ SendInitialize(p, pa) \in Seq(Ops) /\ SendInitialize(d, da) \in Seq(Ops)
      BY <1>3, <2>1, <3>1, <3>4
    <3>6. {"GOVERNANCE", "TAT"} \cup NamesUpTo(i) = (st \cup {p}) \cup {d}
      BY <3>2
    <3> HIDE DEF p, d, pa, da, st
    <3>7. t \o SendInitialize(p, pa) \in
            Orderly(2, BaseNames, all, NamesUpTo(i - 1) \cup {p}, ProducerNames, st \cup {p})
      BY <3>1, <3>3, <3>4, OrderlySend
    <3>8. (t \o SendInitialize(p, pa)) \o SendInitialize(d, da) \in
            Orderly(2, BaseNames, all, NamesUpTo(i), ProducerNames, (st \cup {p}) \cup {d})
      BY <3>1, <3>2, <3>4, <3>7, OrderlySend, SMTT(30)
    <3>9. t \o calls[i] = (t \o SendInitialize(p, pa)) \o SendInitialize(d, da)
      <4>1. t \o (SendInitialize(p, pa) \o SendInitialize(d, da))
              = (t \o SendInitialize(p, pa)) \o SendInitialize(d, da)
        BY ONLY t \in Seq(Ops), <3>5, ConcatInARow, SMTT(30)
      <4> QED
        BY <3>5, <4>1
    <3> QED
      BY <3>2, <3>6, <3>8, <3>9
  <2> HIDE DEF B
  <2> QED
    BY <2>0, <2>1, <2>2, FlattenAppends
<1>10. s4 \in Orderly(2, BaseNames, all, TreasureNames, ProducerNames, {"GOVERNANCE", "TAT"} \cup TreasureNames)
  BY <1>9
<1>11. {"GOVERNANCE", "TAT"} \cup TreasureNames = ProducerNames
  BY DEF ProducerNames
<1>12. s4 = Producers
  BY ONLY DEF Producers, s0, s1, s2, s3, s4, names, proxies, calls, R
<1> QED
  BY <1>10, <1>11, <1>12

\* The scripts that are not needed by others.
LEMMA OrderlyOthers ==
  /\ TokenLocker \in Orderly(6, {}, {}, {}, {}, {})
  /\ WrappedTokens \in Orderly(6, {}, {}, {}, {}, {})
  /\ Bid \in Orderly(6, {}, {}, {}, {}, {})
<1> DEFINE In(s) == s \in Orderly(6, {}, {}, {}, {}, {})
<1>1. In(<<Op("load", "", {})>>) /\ In(<<Op("loadEntry", "", {})>>)
  BY OrderlyLoad DEF Loads
<1>2. ASSUME NEW s, In(s), NEW key \in {"TOKENLOCKER", "WTCASH", "WUNIT"}
      PROVE  In(s \o Install(key, {}))
  <2>1. key \in Names /\ Level(key) = 6 /\ Lower({}, 6) /\ key \in Standalone /\ {} \in SUBSET Names
    BY NamesOfScripts, LevelOfNames DEF Lower, Standalone
  <2> QED
    BY <1>2, <2>1, OrderlyInstall
<1>3. In(TokenLocker)
  BY <1>1, <1>2 DEF TokenLocker
<1>4. In(WrappedTokens)
  BY <1>1, <1>2 DEF WrappedTokens
<1>5. In(Bid)
  <2> DEFINE a == Op("load", "", {})
             b == Op("noSuchInitializer", "BID", {})
  <2>1. In(<<a>> \o <<b>>)
    BY <1>1, OrderlyCheck, NamesOfScripts
  <2>2. Bid = <<a, b>>
    BY DEF Bid
  <2> HIDE DEF a, b
  <2>3. <<a, b>> = <<a>> \o <<b>>
    BY PairIsConcat
  <2> QED
    BY <2>1, <2>2, <2>3
<1> QED
  BY <1>3, <1>4, <1>5

-----------------------------------------------------------------------------

\* The level of the names a script records: its place in the plan.
Rank(step) ==
  CASE step = "base" -> 1 [] step = "producers" -> 2 [] step = "tcash" -> 3 [] step = "ustn" -> 4
    [] step = "crosschain" -> 5 [] OTHER -> 6

\* What the orderly scripts have in common.
LEMMA OrderlyFacts ==
  ASSUME NEW L, NEW required, NEW used, NEW called, NEW recorded, NEW started,
         NEW s \in Orderly(L, required, used, called, recorded, started)
  PROVE  /\ s \in Seq(Ops) /\ Len(s) \in Nat
         /\ \A n \in 1..Len(s) : Fits(s[n], L) /\ InOrder(s, n, required) /\ Uses(s[n]) \subseteq used
         /\ required # {} => s[1].op = "loadEntry"
         /\ \A k \in recorded : Records(s, Len(s), k)
         /\ \A k \in started : Starts(s, Len(s), k)
BY DEF Orderly, Requires

\* Every script is in order, given names of lower levels that it requires.
LEMMA ScriptsInOrder ==
  \A step \in DOMAIN Script :
    /\ Script[step] \in Seq(Ops) /\ Len(Script[step]) \in Nat /\ Rank(step) \in 1..6
    /\ \E required :
         /\ \A n \in 1..Len(Script[step]) :
              /\ Fits(Script[step][n], Rank(step)) /\ InOrder(Script[step], n, required)
              /\ Rank(step) = 6 => Uses(Script[step][n]) = {}
         /\ \A k \in required : /\ Level(k) \in 1..(Rank(step) - 1) /\ Rank(step) < 6
                                /\ Script[step][1].op = "loadEntry"
<1>1. ASSUME NEW step \in DOMAIN Script, NEW L \in 1..6, Rank(step) = L, NEW required,
             NEW used, L = 6 => used = {}, NEW called, NEW recorded, NEW started,
             Script[step] \in Orderly(L, required, used, called, recorded, started),
             \A k \in required : Level(k) \in 1..(L - 1) /\ L < 6
      PROVE  /\ Script[step] \in Seq(Ops) /\ Len(Script[step]) \in Nat /\ Rank(step) \in 1..6
             /\ \E r :
                  /\ \A n \in 1..Len(Script[step]) :
                       /\ Fits(Script[step][n], Rank(step)) /\ InOrder(Script[step], n, r)
                       /\ Rank(step) = 6 => Uses(Script[step][n]) = {}
                  /\ \A k \in r : /\ Level(k) \in 1..(Rank(step) - 1) /\ Rank(step) < 6
                                  /\ Script[step][1].op = "loadEntry"
  <2> DEFINE s == Script[step]
  <2>1. /\ s \in Seq(Ops) /\ Len(s) \in Nat
        /\ \A n \in 1..Len(s) : Fits(s[n], L) /\ InOrder(s, n, required) /\ Uses(s[n]) \subseteq used
        /\ required # {} => s[1].op = "loadEntry"
    BY <1>1, OrderlyFacts
  <2> HIDE DEF s
  <2>2. /\ \A n \in 1..Len(s) : /\ Fits(s[n], L) /\ InOrder(s, n, required)
                                /\ L = 6 => Uses(s[n]) = {}
        /\ \A k \in required : Level(k) \in 1..(L - 1) /\ L < 6 /\ s[1].op = "loadEntry"
    BY <1>1, <2>1
  <2> QED
    BY <1>1, <2>1, <2>2 DEF s
<1>2. /\ Script["base"] = Base /\ Script["producers"] = Producers /\ Script["tcash"] = TCashStack
      /\ Script["ustn"] = USTNStack /\ Script["crosschain"] = Crosschain
      /\ Script["tokenlocker"] = TokenLocker /\ Script["wunit_wtcash"] = WrappedTokens /\ Script["bid"] = Bid
      /\ DOMAIN Script = {"base", "producers", "tcash", "ustn", "crosschain", "tokenlocker", "wunit_wtcash", "bid"}
  BY DEF Script
<1>3. /\ Rank("base") = 1 /\ Rank("producers") = 2 /\ Rank("tcash") = 3 /\ Rank("ustn") = 4
      /\ Rank("crosschain") = 5 /\ Rank("tokenlocker") = 6 /\ Rank("wunit_wtcash") = 6 /\ Rank("bid") = 6
  BY DEF Rank
<1> DEFINE In(step) ==
             /\ Script[step] \in Seq(Ops) /\ Len(Script[step]) \in Nat /\ Rank(step) \in 1..6
             /\ \E r :
                  /\ \A n \in 1..Len(Script[step]) :
                       /\ Fits(Script[step][n], Rank(step)) /\ InOrder(Script[step], n, r)
                       /\ Rank(step) = 6 => Uses(Script[step][n]) = {}
                  /\ \A k \in r : /\ Level(k) \in 1..(Rank(step) - 1) /\ Rank(step) < 6
                                  /\ Script[step][1].op = "loadEntry"
<1>4. ASSUME NEW step \in DOMAIN Script, NEW L \in 1..6, Rank(step) = L, NEW required,
             NEW used, L = 6 => used = {}, NEW called, NEW recorded, NEW started,
             Script[step] \in Orderly(L, required, used, called, recorded, started),
             \A k \in required : Level(k) \in 1..(L - 1) /\ L < 6
      PROVE  In(step)
  BY <1>1, <1>4
<1> HIDE DEF In
<1>5. In("base")
  BY <1>2, <1>3, <1>4, OrderlyBase
<1>6. In("producers")
  <2>1. \A k \in BaseNames : Level(k) \in 1..(2 - 1)
    BY Levels
  <2> QED
    BY <1>2, <1>3, <1>4, <2>1, OrderlyProducers
<1>7. In("tcash")
  <2>1. \A k \in {"ROLES", "ORACLE", "TAT"} : Level(k) \in 1..(3 - 1)
    BY LevelOfNames
  <2> QED
    BY <1>2, <1>3, <1>4, <2>1, OrderlyTCash
<1>8. In("ustn")
  <2>1. \A k \in {"ROLES", "ORACLE", "PARAMETER_INFO"} : Level(k) \in 1..(4 - 1)
    BY LevelOfNames
  <2> QED
    BY <1>2, <1>3, <1>4, <2>1, OrderlyUSTN
<1>9. In("crosschain")
  <2> DEFINE R == {"DAO", "MULSIG", "ROLES", "PARAMETER_INFO", "ORACLE", "GOVERNANCE",
                   "TCASH", "TCASH_LOAN", "TCASH_AUCTION", "TAT"}
  <2>1. \A k \in R : Level(k) \in 1..(5 - 1)
    BY LevelOfNames
  <2>2. Script["crosschain"] \in Orderly(5, R, CrosschainNames \cup R, {}, CrosschainNames,
                                         CrosschainNames \cup {"MULSIG", "ROLES", "TCASH_LOAN"})
    BY <1>2, OrderlyCrosschain
  <2> HIDE DEF R
  <2> QED
    BY <1>2, <1>3, <1>4, <2>1, <2>2
<1>10. In("tokenlocker") /\ In("wunit_wtcash") /\ In("bid")
  BY <1>2, <1>3, <1>4, OrderlyOthers
<1>11. \A step \in DOMAIN Script : In(step)
  BY <1>2, <1>5, <1>6, <1>7, <1>8, <1>9, <1>10
<1> QED
  BY <1>11 DEF In

\* A step of the plan records the names of its level, and the ones it does not
\* initialize crosschain does.
LEMMA PlanRecordsAndStarts ==
  /\ \A i \in 1..Len(Plan) : Plan[i] \in DOMAIN Script /\ Rank(Plan[i]) = (IF i < 6 THEN i ELSE 6)
  /\ \A k : Level(k) \in 1..5 =>
       /\ Records(Script[Plan[Level(k)]], Len(Script[Plan[Level(k)]]), k)
       /\ \E i \in 1..5 : Starts(Script[Plan[i]], Len(Script[Plan[i]]), k)
<1>1. /\ \A i \in 1..Len(Plan) : i = 1 \/ i = 2 \/ i = 3 \/ i = 4 \/ i = 5 \/ (Len(Plan) = 7 /\ (i = 6 \/ i = 7))
      /\ Len(Plan) \in Nat
  <2> DEFINE N == Len(Plan)
  <2>1. N = 5 \/ N = 7
    BY PlanFacts
  <2> HIDE DEF N
  <2>2. CASE N = 5
    <3>1. \A i \in 1..5 : i = 1 \/ i = 2 \/ i = 3 \/ i = 4 \/ i = 5
      OBVIOUS
    <3> QED
      BY <2>2, <3>1 DEF N
  <2>3. CASE N = 7
    <3>1. \A i \in 1..7 : i = 1 \/ i = 2 \/ i = 3 \/ i = 4 \/ i = 5 \/ i = 6 \/ i = 7
      OBVIOUS
    <3> QED
      BY <2>3, <3>1 DEF N
  <2> QED
    BY <2>1, <2>2, <2>3
<1>2. \A i \in 1..Len(Plan) : Plan[i] \in DOMAIN Script /\ Rank(Plan[i]) = (IF i < 6 THEN i ELSE 6)
  <2>1. \A i \in 1..Len(Plan) : Plan[i] \in DOMAIN Script
    BY PlanFacts
  <2>2. \A i \in 1..Len(Plan) : Rank(Plan[i]) = (IF i < 6 THEN i ELSE 6)
    BY <1>1, PlanFacts DEF Rank
  <2> QED
    BY <2>1, <2>2
<1>3. /\ Script[Plan[1]] = Base /\ Script[Plan[2]] = Producers /\ Script[Plan[3]] = TCashStack
      /\ Script[Plan[4]] = USTNStack /\ Script[Plan[5]] = Crosschain
  BY PlanFacts DEF Script
<1>4. /\ \A k \in BaseNames : Records(Base, Len(Base), k)
      /\ \A k \in ProducerNames : Records(Producers, Len(Producers), k) /\ Starts(Producers, Len(Producers), k)
      /\ \A k \in TCashNames : Records(TCashStack, Len(TCashStack), k)
      /\ \A k \in USTNNames : Records(USTNStack, Len(USTNStack), k) /\ Starts(USTNStack, Len(USTNStack), k)
      /\ \A k \in CrosschainNames : Records(Crosschain, Len(Crosschain), k) /\ Starts(Crosschain, Len(Crosschain), k)
  BY OrderlyFacts, OrderlyBase, OrderlyProducers, OrderlyTCash, OrderlyUSTN, OrderlyCrosschain
<1>5. /\ \A k \in {"DAO", "PARAMETER_INFO", "ORACLE"} : Starts(Base, Len(Base), k)
      /\ \A k \in {"TCASH", "TAT_MANAGER", "TCASH_AUCTION"} : Starts(TCashStack, Len(TCashStack), k)
      /\ \A k \in {"MULSIG", "ROLES", "TCASH_LOAN"} : Starts(Crosschain, Len(Crosschain), k)
  BY OrderlyFacts, OrderlyBase, OrderlyTCash, OrderlyCrosschain
<1>6. ASSUME NEW k, Level(k) \in 1..5
      PROVE  /\ Records(Script[Plan[Level(k)]], Len(Script[Plan[Level(k)]]), k)
             /\ \E i \in 1..5 : Starts(Script[Plan[i]], Len(Script[Plan[i]]), k)
  <2>1. \/ k \in BaseNames \/ k \in ProducerNames \/ k \in TCashNames \/ k \in USTNNames \/ k \in CrosschainNames
    BY <1>6 DEF Level
  <2>2. CASE k \in BaseNames
    <3>1. Level(k) = 1
      BY <2>2, Levels
    <3>2. Starts(Base, Len(Base), k) \/ Starts(Crosschain, Len(Crosschain), k)
      BY <1>5, <2>2 DEF BaseNames
    <3> QED
      BY <1>3, <1>4, <2>2, <3>1, <3>2
  <2>3. CASE k \in ProducerNames
    BY <1>3, <1>4, <2>3, Levels
  <2>4. CASE k \in TCashNames
    <3>1. Level(k) = 3
      BY <2>4, Levels
    <3>2. Starts(TCashStack, Len(TCashStack), k) \/ Starts(Crosschain, Len(Crosschain), k)
      BY <1>5, <2>4 DEF TCashNames
    <3> QED
      BY <1>3, <1>4, <2>4, <3>1, <3>2
  <2>5. CASE k \in USTNNames
    BY <1>3, <1>4, <2>5, Levels
  <2>6. CASE k \in CrosschainNames
    BY <1>3, <1>4, <2>6, Levels
  <2> QED
    BY <2>1, <2>2, <2>3, <2>4, <2>5, <2>6
<1> QED
  BY <1>2, <1>6
-----------------------------------------------------------------------------
(***************************************************************************)
(* The inductive invariant of the wiring.  An operation of the newest      *)
(* entry that was run stays done: what it used is recorded as it was used, *)
(* and its call was mined, or will be before any other call to that        *)
(* contract.                                                               *)
(***************************************************************************)

Here == Script[script.step]
Before == Here[script.pc - 1]

\* The contract at a is initialized and was given these addresses of the newest
\* entry, or the call that does it is the first in the pool to that contract.
Holds(a, args) ==
  /\ IsLive(a)
  /\ \A d \in args : d \in DOMAIN contracts[a].wires /\ contracts[a].wires[d] = file[1][d]

OnItsWay(a, args) ==
  /\ a \in DOMAIN contracts /\ ~contracts[a].init
  /\ \E i \in DOMAIN mempool :
       /\ mempool[i].op = "initialize" /\ mempool[i].address = a /\ DOMAIN mempool[i].wires = args
       /\ \A d \in args : mempool[i].wires[d] = file[1][d]
       /\ \A j \in 1..(i - 1) : mempool[j].address # a

OpDone(o) ==
  /\ Uses(o) \subseteq DOMAIN file[1]
  /\ o.op = "record" => o.key \in DOMAIN file[1]
  /\ o.op \in {"install", "initialize", "wire"} /\ o.key \notin Standalone => Holds(file[1][o.key], o.args)
  /\ o.op = "sendInitialize" /\ o.key \notin Standalone =>
       Holds(file[1][o.key], o.args) \/ OnItsWay(file[1][o.key], o.args)

\* What is to be run are the next steps of the plan, or a step of no plan.
Follows(steps, n) == \A i \in 1..Len(steps) : n + i <= Len(Plan) /\ steps[i] = Plan[n + i]
Planned == {Plan[i] : i \in 1..Len(Plan)}

ProgressInv ==
  /\ done \in 0..Len(Plan)
  /\ Running => \/ /\ done < Len(Plan) /\ Plan[done + 1] = script.step /\ Follows(todo, done + 1)
                \/ script.step \notin Planned /\ todo = <<>>
  /\ ~Running => Follows(todo, done) \/ \E step \in DOMAIN Script \ Planned : todo = <<step>>

\* Contracts are given what the plan gives them, those of the newest entry by
\* the calls that are still in the pool.
WiringInv ==
  /\ \A a \in DOMAIN contracts : /\ DOMAIN contracts[a].wires \subseteq GivenBy(contracts[a].key)
                                 /\ contracts[a].key \in Standalone => contracts[a].init
  /\ \A i \in DOMAIN mempool :
       /\ DOMAIN mempool[i].wires \subseteq GivenBy(mempool[i].key)
       /\ mempool[i].op \in {"proxy", "install", "initialize", "wire", "price"}
       /\ mempool[i].op = "proxy" => mempool[i].key \notin Standalone
       /\ mempool[i].op \notin Deploys => Deployed(mempool[i].address, mempool[i].key)
       /\ mempool[i].op \notin Deploys /\ file # <<>> =>
            \A d \in DOMAIN mempool[i].wires : mempool[i].wires[d] = file[1][d]

\* The completed steps are done, and once crosschain has waited for its last
\* transaction, nothing is on its way any more.
DoneInv ==
  file # <<>> =>
    /\ \A k \in DOMAIN file[1] : Level(k) \in 1..6
    /\ \A i \in 1..done : \A n \in 1..Len(Script[Plan[i]]) : OpDone(Script[Plan[i]][n])
    /\ done >= 5 =>
         \A i \in 1..5 : \A n \in 1..Len(Script[Plan[i]]) :
           LET o == Script[Plan[i]][n]
           IN  o.op = "sendInitialize" /\ o.key \notin Standalone => IsLive(file[1][o.key])

\* Nothing is recorded in the newest entry yet.
Blank == script.entries # file \/ file = <<>>

\* The transaction the script waits for, and its effect.
IsCall(tx) ==
  /\ tx.op = At.op /\ tx.key = At.key /\ tx.address = script.address
  /\ At.op \notin Deploys => tx.address = file[1][At.key]
  /\ DOMAIN tx.wires = At.args /\ \A d \in At.args : tx.wires[d] = file[1][d]

Effect ==
  /\ At.op = "install" => Holds(script.address, At.args)
  /\ At.op \in {"initialize", "wire"} => Holds(file[1][At.key], At.args)

\* What the script has in memory is the newest entry, or base has begun one.
NewestInv ==
  /\ script.entries # file => script.step = "base"
  /\ Blank => \A n \in 1..(script.pc - 1) : Here[n].op # "record"
  /\ file = <<>> /\ script.step # "base" => Here[1].op # "loadEntry"

\* The operations the script has run are done, but for the contract it has
\* created and not recorded yet.
RanInv ==
  ~Blank => \A n \in 1..(script.pc - 1) : Here[n].op # "install" \/ n < script.pc - 1 => OpDone(Here[n])

\* What the script waits for is the last transaction; once it has waited, the
\* pool is empty, and what it has created holds what it was given.
WaitInv ==
  /\ script.sent # 0 =>
       /\ script.sent = nonce /\ At.op \in (Deploys \cup Addressed) \ {"sendInitialize"}
       /\ \/ mempool # <<>> /\ IsCall(mempool[Len(mempool)])
          \/ mempool = <<>> /\ (reverted \/ Effect)
  /\ script.sent = 0 =>
       /\ Before.op \in (Deploys \cup Addressed) \ {"sendInitialize"} => mempool = <<>>
       /\ Before.op = "install" => Holds(script.address, Before.args)

\* After a record, only calls nobody waits for are in the pool, with the
\* transaction that is waited for.
PoolInv ==
  (\E n \in 1..(script.pc - 1) : Here[n].op = "record") =>
    \A i \in DOMAIN mempool :
      \/ script.sent # 0 /\ i = Len(mempool)
      \/ \E n \in 1..(script.pc - 1) : Here[n].op = "sendInitialize" /\ mempool[i].key = Here[n].key

WorkInv == Running /\ script.pc > 1 => NewestInv /\ RanInv /\ WaitInv /\ PoolInv

WiredInv == ProgressInv /\ WiringInv /\ DoneInv /\ WorkInv

-----------------------------------------------------------------------------

\* Where the running script is in the plan.
LEMMA PlannedScripts ==
  /\ Len(Plan) \in Nat /\ Len(Plan) >= 5
  /\ \A i \in 1..Len(Plan) : Plan[i] \in Planned /\ Plan[i] \in DOMAIN Script
  /\ \A step \in DOMAIN Script : Rank(step) \in 1..6 /\ (step \notin Planned => Rank(step) = 6)
  /\ \A i \in 1..Len(Plan) : Rank(Plan[i]) = (IF i < 6 THEN i ELSE 6)
<1>1. Len(Plan) \in Nat /\ Len(Plan) >= 5
  <2> DEFINE N == Len(Plan)
  <2>1. N = 5 \/ N = 7
    BY PlanFacts
  <2> HIDE DEF N
  <2>2. N \in Nat /\ N >= 5
    BY <2>1
  <2> QED
    BY <2>2 DEF N
<1>2. /\ 1 \in 1..Len(Plan) /\ 2 \in 1..Len(Plan) /\ 3 \in 1..Len(Plan) /\ 4 \in 1..Len(Plan)
      /\ 5 \in 1..Len(Plan)
  BY <1>1
<1>3. {"base", "producers", "tcash", "ustn", "crosschain"} \subseteq Planned
  BY <1>2, PlanFacts DEF Planned
<1>4. \A step : step \notin {"base", "producers", "tcash", "ustn", "crosschain"} => Rank(step) = 6
  BY DEF Rank
<1>5. \A i \in 1..Len(Plan) : Plan[i] \in Planned
  BY DEF Planned
<1>6. \A step \in DOMAIN Script : Rank(step) \in 1..6
  BY ScriptsInOrder
<1>7. \A step : step \notin Planned => Rank(step) = 6
  BY <1>3, <1>4
<1>8. \A i \in 1..Len(Plan) : Plan[i] \in DOMAIN Script /\ Rank(Plan[i]) = (IF i < 6 THEN i ELSE 6)
  BY PlanRecordsAndStarts
<1> QED
  BY ONLY <1>1, <1>5, <1>6, <1>7, <1>8

\* The running script is the next step of the plan, or records standalone contracts only.
LEMMA PlaceOfScript ==
  ASSUME DeploymentInv, ProgressInv, Running
  PROVE  /\ Rank(script.step) \in 1..6 /\ done \in Nat /\ done <= Len(Plan)
         /\ \/ Rank(script.step) < 6 /\ done < 5 /\ Rank(script.step) = done + 1 /\ Plan[done + 1] = script.step
            \/ Rank(script.step) = 6
<1>1. script.step \in DOMAIN Script
  BY DEF DeploymentInv, ScriptInv
<1>2. done \in Nat /\ done <= Len(Plan) /\ Len(Plan) \in Nat
  BY PlannedScripts DEF ProgressInv
<1>3. CASE script.step \notin Planned
  BY <1>1, <1>2, <1>3, PlannedScripts
<1>4. CASE script.step \in Planned
  <2>1. done < Len(Plan) /\ Plan[done + 1] = script.step
    BY <1>4 DEF ProgressInv
  <2>2. done + 1 \in 1..Len(Plan)
    BY <1>2, <2>1
  <2>3. Rank(script.step) = IF done + 1 < 6 THEN done + 1 ELSE 6
    BY <2>1, <2>2, PlannedScripts
  <2>4. Rank(script.step) \in 1..6
    BY <1>1, PlannedScripts
  <2> QED
    BY <1>2, <2>1, <2>3, <2>4
<1> QED
  BY <1>3, <1>4

\* The script and its operation.
LEMMA HereIs ==
  ASSUME DeploymentInv, Running
  PROVE  /\ script.step \in DOMAIN Script /\ Here \in Seq(Ops) /\ Len(Here) \in Nat /\ Len(Here) >= 1
         /\ script.pc \in 1..(Len(Here) + 1)
         /\ Here[1].op \in Loads
         /\ \A n \in 1..Len(Here) : /\ Here[n] \in Ops
                                    /\ Here[n].op \in Loads => n = 1
                                    /\ RecordsItsContract(Here, n)
         /\ Finished <=> script.pc = Len(Here) + 1
         /\ ~Finished => script.pc \in 1..Len(Here)
         /\ At = Here[script.pc]
<1>1. script.step \in DOMAIN Script /\ script.pc \in 1..(Len(Here) + 1)
  BY DEF DeploymentInv, ScriptInv, Here
<1>2. Here \in Beginnings
  BY <1>1, StepsBegin DEF Here
<1>3. /\ Here \in Seq(Ops) /\ Len(Here) \in Nat /\ Len(Here) >= 1 /\ DOMAIN Here = 1..Len(Here)
      /\ Here[1].op \in Loads
  BY <1>2 DEF Beginnings
<1>4. \A n \in 1..Len(Here) : Here[n] \in Ops /\ (Here[n].op \in Loads => n = 1) /\ RecordsItsContract(Here, n)
  BY <1>2, <1>3 DEF Beginnings
<1>5. /\ Finished <=> script.pc = Len(Here) + 1
      /\ ~Finished => script.pc \in 1..Len(Here)
  BY <1>1, <1>3 DEF Finished, Here
<1> QED
  BY <1>1, <1>3, <1>4, <1>5 DEF At, Here

\* The operations of the running script are in order.
LEMMA OrderHere ==
  ASSUME DeploymentInv, Running
  PROVE  \E required :
           /\ \A n \in 1..Len(Here) :
                /\ Fits(Here[n], Rank(script.step)) /\ InOrder(Here, n, required)
                /\ Rank(script.step) = 6 => Uses(Here[n]) = {}
           /\ \A k \in required : /\ Level(k) \in 1..(Rank(script.step) - 1) /\ Rank(script.step) < 6
                                  /\ Here[1].op = "loadEntry"
BY HereIs, ScriptsInOrder DEF Here

\* What an operation reads is recorded in the newest entry.
LEMMA ReadsHere ==
  ASSUME DeploymentInv, ProgressInv, DoneInv, WorkInv, Running, script.pc > 1,
         NEW n \in 1..script.pc, n <= Len(Here)
  PROVE  /\ Blank => Reads(Here[n]) = {}
         /\ ~Blank => Reads(Here[n]) \subseteq DOMAIN file[1]
<1> DEFINE L == Rank(script.step)
<1>1. PICK required :
        /\ \A m \in 1..Len(Here) : InOrder(Here, m, required)
        /\ \A k \in required : Level(k) \in 1..(L - 1) /\ L < 6 /\ Here[1].op = "loadEntry"
  BY OrderHere
<1>2. /\ script.pc \in Nat /\ n \in 1..Len(Here) /\ Len(Here) \in Nat /\ script.step \in DOMAIN Script
      /\ \A m \in 1..(n - 1) : m \in 1..(script.pc - 1) /\ m \in 1..Len(Here)
  BY HereIs
<1>3. \A k \in Reads(Here[n]) : k \in required \/ \E m \in 1..(script.pc - 1) :
                                                    m \in 1..Len(Here) /\ Here[m].op = "record" /\ Here[m].key = k
  BY <1>1, <1>2 DEF InOrder, Records
<1>4. /\ L \in 1..6 /\ done \in Nat /\ done <= Len(Plan) /\ Len(Plan) \in Nat
      /\ L < 6 => L = done + 1
  BY PlaceOfScript, PlannedScripts
<1>5. ASSUME Blank PROVE Reads(Here[n]) = {}
  <2>1. \A m \in 1..(script.pc - 1) : Here[m].op # "record"
    BY <1>5 DEF WorkInv, NewestInv
  <2>2. ASSUME NEW k \in required PROVE FALSE
    <3>1. script.step # "base"
      <4>1. Rank("base") = 1
        BY DEF Rank
      <4>2. Level(k) \in 1..(L - 1)
        BY <1>1, <2>2
      <4> QED
        BY <1>4, <4>1, <4>2
    <3>2. file = <<>>
      BY <1>5, <3>1 DEF WorkInv, NewestInv, Blank
    <3> QED
      BY <1>1, <2>2, <3>1, <3>2 DEF WorkInv, NewestInv
  <2> QED
    BY <1>3, <2>1, <2>2
<1>6. ASSUME ~Blank, NEW k \in Reads(Here[n]) PROVE k \in DOMAIN file[1]
  <2>1. file # <<>>
    BY <1>6 DEF Blank
  <2>2. ASSUME k \in required PROVE k \in DOMAIN file[1]
    <3>1. Level(k) \in 1..(L - 1) /\ L = done + 1
      BY <1>1, <1>4, <2>2
    <3>2. Level(k) \in 1..done /\ Level(k) \in 1..5
      BY <1>4, <3>1
    <3>3. Records(Script[Plan[Level(k)]], Len(Script[Plan[Level(k)]]), k)
      BY <3>2, PlanRecordsAndStarts
    <3>4. PICK m \in 1..Len(Script[Plan[Level(k)]]) :
            Script[Plan[Level(k)]][m].op = "record" /\ Script[Plan[Level(k)]][m].key = k
      BY <3>3 DEF Records
    <3>5. OpDone(Script[Plan[Level(k)]][m])
      BY <2>1, <3>2 DEF DoneInv
    <3> QED
      BY <3>4, <3>5 DEF OpDone
  <2>3. ASSUME NEW m \in 1..(script.pc - 1), m \in 1..Len(Here), Here[m].op = "record", Here[m].key = k
        PROVE  k \in DOMAIN file[1]
    <3>1. OpDone(Here[m])
      BY <1>6, <2>3 DEF WorkInv, RanInv
    <3> QED
      BY <2>3, <3>1 DEF OpDone
  <2> QED
    BY <1>3, <2>2, <2>3
<1> QED
  BY <1>5, <1>6

-----------------------------------------------------------------------------

\* The pool, and that nothing is at an address before it is mined.
LEMMA PoolFacts ==
  ASSUME DeploymentInv
  PROVE  /\ IsList(mempool) /\ Len(mempool) \in Nat /\ DOMAIN mempool = 1..Len(mempool) /\ nonce \in Nat
         /\ mempool # <<>> => Len(mempool) \in DOMAIN mempool /\ mempool[Len(mempool)].nonce = nonce
         /\ \A i \in DOMAIN mempool : mempool[i].op \in Deploys => mempool[i].address \notin DOMAIN contracts
<1> DEFINE n == Len(mempool)
<1>1. /\ IsList(mempool) /\ n \in Nat /\ DOMAIN mempool = 1..n /\ nonce \in Nat
      /\ mempool # <<>> => n \in 1..n
  <2>1. PICK S : mempool \in Seq(S)
    BY DEF DeploymentInv, ChainInv, IsList
  <2> QED
    BY <2>1 DEF DeploymentInv, ChainInv
<1>2. \A i \in DOMAIN mempool : /\ mempool[i].nonce = nonce - n + i
                                /\ mempool[i].op \in Deploys => mempool[i].address = mempool[i].nonce
  BY DEF DeploymentInv, ChainInv
<1>3. \A a \in DOMAIN contracts : a \in Nat /\ a <= nonce - n
  BY DEF DeploymentInv, ChainInv
<1> HIDE DEF n
<1>4. ASSUME mempool # <<>> PROVE n \in DOMAIN mempool /\ mempool[n].nonce = nonce
  BY <1>1, <1>2, <1>4
<1>5. ASSUME NEW i \in DOMAIN mempool, mempool[i].op \in Deploys, mempool[i].address \in DOMAIN contracts
      PROVE  FALSE
  <2>1. mempool[i].address = nonce - n + i /\ i \in 1..n
    BY <1>1, <1>2, <1>5
  <2>2. nonce - n + i <= nonce - n
    BY <1>3, <1>5, <2>1
  <2> QED
    BY <1>1, <2>1, <2>2
<1> QED
  BY <1>1, <1>4, <1>5 DEF n

\* What mining a transaction does to the contracts.
LEMMA MineEffects ==
  ASSUME DeploymentInv, WiringInv, Mine, NEW tx, tx = mempool[1]
  PROVE  /\ Len(mempool) >= 1 /\ DOMAIN mempool' = 1..(Len(mempool) - 1) /\ Len(mempool') = Len(mempool) - 1
         /\ \A i \in 1..(Len(mempool) - 1) : mempool'[i] = mempool[i + 1]
         /\ UNCHANGED <<nonce, file, script, todo, done>>
         /\ reverted' = ~Succeeds(tx)
         /\ \A a \in DOMAIN contracts :
              /\ a \in DOMAIN contracts' /\ contracts'[a].key = contracts[a].key
              /\ contracts[a].init => contracts'[a].init
              /\ a # tx.address => contracts'[a] = contracts[a]
              /\ \A d \in DOMAIN contracts[a].wires :
                   /\ d \in DOMAIN contracts'[a].wires
                   /\ \/ contracts'[a].wires[d] = contracts[a].wires[d]
                      \/ tx.op \notin Deploys /\ d \in DOMAIN tx.wires /\ contracts'[a].wires[d] = tx.wires[d]
         /\ tx.op \in {"install", "initialize", "wire"} /\ Succeeds(tx) =>
              /\ tx.address \in DOMAIN contracts' /\ contracts'[tx.address].init
              /\ \A d \in DOMAIN tx.wires :
                   d \in DOMAIN contracts'[tx.address].wires /\ contracts'[tx.address].wires[d] = tx.wires[d]
         /\ \A a \in DOMAIN contracts' :
              /\ DOMAIN contracts'[a].wires \subseteq GivenBy(contracts'[a].key)
              /\ contracts'[a].key \in Standalone => contracts'[a].init
<1>1. /\ Len(mempool) \in Nat \ {0} /\ DOMAIN mempool' = 1..(Len(mempool) - 1) /\ Len(mempool') = Len(mempool) - 1
      /\ \A i \in 1..(Len(mempool) - 1) : mempool'[i] = mempool[i + 1]
      /\ tx = Head(mempool) /\ 1 \in DOMAIN mempool
  BY TailOfList, PoolFacts DEF Mine
<1>2. /\ UNCHANGED <<nonce, file, script, todo, done>> /\ reverted' = ~Succeeds(tx)
      /\ contracts' = IF Succeeds(tx) THEN After(tx) ELSE contracts
  BY <1>1 DEF Mine, operator
<1>3. /\ DOMAIN tx.wires \subseteq GivenBy(tx.key)
      /\ tx.op \in {"proxy", "install", "initialize", "wire", "price"}
      /\ tx.op = "proxy" => tx.key \notin Standalone
      /\ tx.op \notin Deploys => tx.address \in DOMAIN contracts /\ contracts[tx.address].key = tx.key
      /\ tx.op \in Deploys => tx.address \notin DOMAIN contracts
  BY <1>1, PoolFacts DEF WiringInv, Deployed
<1>4. contracts = [a \in DOMAIN contracts |-> contracts[a]]
  BY DEF DeploymentInv, ChainInv
<1>5. \A a \in DOMAIN contracts : /\ DOMAIN contracts[a].wires \subseteq GivenBy(contracts[a].key)
                                  /\ contracts[a].key \in Standalone => contracts[a].init
  BY DEF WiringInv
<1> DEFINE Kept(a) ==
             /\ a \in DOMAIN contracts' /\ contracts'[a].key = contracts[a].key
             /\ contracts[a].init => contracts'[a].init
             /\ a # tx.address => contracts'[a] = contracts[a]
             /\ \A d \in DOMAIN contracts[a].wires :
                  /\ d \in DOMAIN contracts'[a].wires
                  /\ \/ contracts'[a].wires[d] = contracts[a].wires[d]
                     \/ tx.op \notin Deploys /\ d \in DOMAIN tx.wires /\ contracts'[a].wires[d] = tx.wires[d]
           Given ==
             tx.op \in {"install", "initialize", "wire"} /\ Succeeds(tx) =>
               /\ tx.address \in DOMAIN contracts' /\ contracts'[tx.address].init
               /\ \A d \in DOMAIN tx.wires :
                    d \in DOMAIN contracts'[tx.address].wires /\ contracts'[tx.address].wires[d] = tx.wires[d]
           Fitting(a) ==
             /\ DOMAIN contracts'[a].wires \subseteq GivenBy(contracts'[a].key)
             /\ contracts'[a].key \in Standalone => contracts'[a].init
           Changed == /\ \A a \in DOMAIN contracts : Kept(a)
                      /\ Given
                      /\ \A a \in DOMAIN contracts' : Fitting(a)
<1>6. ASSUME tx.op \in Deploys PROVE Changed
  <2> DEFINE new == [key |-> tx.key, init |-> tx.op = "install", wires |-> tx.wires]
  <2>1. Succeeds(tx) /\ After(tx) = Put(contracts, tx.address, new)
    BY <1>6 DEF Succeeds, After, Deploys
  <2>2. /\ new.key = tx.key /\ new.wires = tx.wires /\ (tx.op = "install" => new.init)
        /\ tx.key \in Standalone => new.init
    BY <1>3, <1>6 DEF Deploys
  <2> HIDE DEF new
  <2>3. contracts' = [a \in DOMAIN contracts \cup {tx.address} |-> IF a = tx.address THEN new ELSE contracts[a]]
    BY <1>2, <2>1 DEF Put, Over
  <2>4. /\ DOMAIN contracts' = DOMAIN contracts \cup {tx.address} /\ contracts'[tx.address] = new
        /\ \A a \in DOMAIN contracts : contracts'[a] = contracts[a]
    BY <1>3, <1>6, <2>3
  <2>5. \A a \in DOMAIN contracts : Kept(a)
    BY <2>4
  <2>6. Given
    BY <1>6, <2>2, <2>4 DEF Deploys
  <2>7. \A a \in DOMAIN contracts' : Fitting(a)
    BY <1>3, <1>5, <2>2, <2>4
  <2> QED
    BY <2>5, <2>6, <2>7
<1>7. ASSUME tx.op \in {"initialize", "wire"}, Succeeds(tx) PROVE Changed
  <2> DEFINE old == contracts[tx.address]
             new == [key |-> old.key, init |-> TRUE, wires |-> Over(tx.wires, old.wires)]
  <2>1. After(tx) = [contracts EXCEPT ![tx.address] =
                       [key |-> @.key, init |-> TRUE, wires |-> Over(tx.wires, @.wires)]]
    BY <1>7 DEF After
  <2>2. contracts' = [contracts EXCEPT ![tx.address] = new]
    BY <1>2, <1>7, <2>1
  <2>3. /\ new.key = old.key /\ new.init
        /\ DOMAIN new.wires = DOMAIN tx.wires \cup DOMAIN old.wires
        /\ \A d \in DOMAIN tx.wires : new.wires[d] = tx.wires[d]
        /\ \A d \in DOMAIN old.wires : d \notin DOMAIN tx.wires => new.wires[d] = old.wires[d]
    BY DEF Over
  <2> HIDE DEF new
  <2>4. tx.op \notin Deploys /\ tx.op # "install"
    BY <1>7 DEF Deploys
  <2>5. /\ DOMAIN contracts' = DOMAIN contracts /\ tx.address \in DOMAIN contracts /\ contracts'[tx.address] = new
        /\ \A a \in DOMAIN contracts : a # tx.address => contracts'[a] = contracts[a]
        /\ old.key = tx.key /\ DOMAIN old.wires \subseteq GivenBy(tx.key)
    BY <1>3, <1>5, <2>2, <2>4
  <2> HIDE DEF old
  <2>6. DOMAIN new.wires \subseteq GivenBy(new.key)
    BY <1>3, <2>3, <2>5
  <2>7. ASSUME NEW a \in DOMAIN contracts
        PROVE  Kept(a) /\ Fitting(a)
    <3>1. CASE a = tx.address
      BY <2>3, <2>4, <2>5, <2>6, <3>1 DEF old
    <3>2. CASE a # tx.address
      BY <1>5, <2>5, <3>2
    <3> QED
      BY <3>1, <3>2
  <2>8. Given
    BY <2>3, <2>5
  <2> QED
    BY <2>5, <2>7, <2>8
<1>8. ASSUME tx.op \notin Deploys, ~(tx.op \in {"initialize", "wire"} /\ Succeeds(tx)) PROVE Changed
  <2>1. contracts' = contracts
    <3>1. CASE Succeeds(tx)
      <4>1. tx.op = "price"
        BY <1>3, <1>8, <3>1 DEF Deploys
      <4>2. After(tx) = contracts
        BY <4>1 DEF After
      <4> QED
        BY <1>2, <3>1, <4>2
    <3>2. CASE ~Succeeds(tx)
      BY <1>2, <3>2
    <3> QED
      BY <3>1, <3>2
  <2>2. ~(tx.op \in {"install", "initialize", "wire"} /\ Succeeds(tx))
    BY <1>8 DEF Deploys
  <2>3. \A a \in DOMAIN contracts : Kept(a)
    BY <2>1
  <2>4. Given
    BY <2>2
  <2>5. \A a \in DOMAIN contracts' : Fitting(a)
    BY <1>5, <2>1
  <2> QED
    BY <2>3, <2>4, <2>5
<1>9. Changed
  BY <1>6, <1>7, <1>8
<1> QED
  BY <1>1, <1>2, <1>9

-----------------------------------------------------------------------------

\* Mining keeps what contracts hold, and completes what is on its way.
LEMMA MineHolds ==
  ASSUME DeploymentInv, WiringInv, Mine, NEW a, NEW args, file # <<>> \/ args = {}
  PROVE  /\ Holds(a, args) => Holds(a, args)'
         /\ OnItsWay(a, args) => Holds(a, args)' \/ OnItsWay(a, args)'
<1>0. PICK tx : tx = mempool[1]
  OBVIOUS
<1>1. /\ DOMAIN mempool = 1..Len(mempool) /\ Len(mempool) \in Nat /\ Len(mempool) >= 1
      /\ tx.op \in Deploys => tx.address \notin DOMAIN contracts
      /\ tx.op \notin Deploys /\ file # <<>> => \A d \in DOMAIN tx.wires : tx.wires[d] = file[1][d]
  <2>1. DOMAIN mempool = 1..Len(mempool) /\ Len(mempool) \in Nat
    BY PoolFacts
  <2>2. Len(mempool) >= 1
    BY <1>0, MineEffects
  <2>3. 1 \in DOMAIN mempool
    BY <2>1, <2>2
  <2>4. tx.op \in Deploys => tx.address \notin DOMAIN contracts
    BY <1>0, <2>3, PoolFacts
  <2> QED
    BY <1>0, <2>1, <2>2, <2>3, <2>4 DEF WiringInv
<1>2. file' = file /\ DOMAIN mempool' = 1..(Len(mempool) - 1)
      /\ \A i \in 1..(Len(mempool) - 1) : mempool'[i] = mempool[i + 1]
  BY <1>0, MineEffects
<1>3. \A c \in DOMAIN contracts :
        /\ c \in DOMAIN contracts'
        /\ contracts[c].init => contracts'[c].init
        /\ c # tx.address => contracts'[c] = contracts[c]
        /\ \A d \in DOMAIN contracts[c].wires :
             /\ d \in DOMAIN contracts'[c].wires
             /\ \/ contracts'[c].wires[d] = contracts[c].wires[d]
                \/ tx.op \notin Deploys /\ d \in DOMAIN tx.wires /\ contracts'[c].wires[d] = tx.wires[d]
  BY <1>0, MineEffects
<1>4. tx.op = "initialize" /\ Succeeds(tx) =>
        /\ tx.address \in DOMAIN contracts' /\ contracts'[tx.address].init
        /\ \A d \in DOMAIN tx.wires :
             d \in DOMAIN contracts'[tx.address].wires /\ contracts'[tx.address].wires[d] = tx.wires[d]
  BY <1>0, MineEffects
<1>5. ASSUME Holds(a, args) PROVE Holds(a, args)'
  <2>1. a \in DOMAIN contracts' /\ contracts'[a].init
    BY <1>3, <1>5 DEF Holds, IsLive
  <2>2. ASSUME NEW d \in args PROVE d \in DOMAIN contracts'[a].wires /\ contracts'[a].wires[d] = file[1][d]
    <3>1. a \in DOMAIN contracts /\ d \in DOMAIN contracts[a].wires /\ contracts[a].wires[d] = file[1][d]
          /\ file # <<>>
      BY <1>5, <2>2 DEF Holds, IsLive
    <3> QED
      BY <1>1, <1>3, <3>1
  <2> QED
    BY <1>2, <2>1, <2>2 DEF Holds, IsLive
<1>6. ASSUME OnItsWay(a, args) PROVE Holds(a, args)' \/ OnItsWay(a, args)'
  <2>1. PICK i \in DOMAIN mempool :
          /\ mempool[i].op = "initialize" /\ mempool[i].address = a /\ DOMAIN mempool[i].wires = args
          /\ \A d \in args : mempool[i].wires[d] = file[1][d]
          /\ \A j \in 1..(i - 1) : mempool[j].address # a
    BY <1>6 DEF OnItsWay
  <2>2. a \in DOMAIN contracts /\ ~contracts[a].init
    BY <1>6 DEF OnItsWay
  <2>3. CASE i = 1
    <3>1. tx.op = "initialize" /\ tx.address = a /\ DOMAIN tx.wires = args /\ \A d \in args : tx.wires[d] = file[1][d]
      BY <1>0, <2>1, <2>3
    <3>2. Succeeds(tx)
      BY <2>2, <3>1 DEF Succeeds
    <3> QED
      BY <1>2, <1>4, <3>1, <3>2 DEF Holds, IsLive
  <2>4. CASE i # 1
    <3>1. i - 1 \in DOMAIN mempool' /\ mempool'[i - 1] = mempool[i] /\ 1 \in 1..(i - 1)
          /\ \A j \in 1..((i - 1) - 1) : j + 1 \in 1..(i - 1) /\ mempool'[j] = mempool[j + 1]
      BY <1>1, <1>2, <2>1, <2>4
    <3>2. a # tx.address
      BY <1>0, <2>1, <3>1
    <3>3. a \in DOMAIN contracts' /\ ~contracts'[a].init
      BY <1>3, <2>2, <3>2
    <3>4. \A j \in 1..((i - 1) - 1) : mempool'[j].address # a
      BY <2>1, <3>1
    <3> QED
      BY <1>2, <2>1, <3>1, <3>3, <3>4 DEF OnItsWay
  <2> QED
    BY <2>3, <2>4
<1> QED
  BY <1>5, <1>6

\* Mining undoes nothing that is done: the next call to a contract takes effect.
LEMMA MineKeepsDone ==
  ASSUME DeploymentInv, WiringInv, Mine, file # <<>>
  PROVE  \A o : OpDone(o) => OpDone(o)'
<1>1. file' = file
  BY DEF Mine
<1>2. \A a, args : /\ Holds(a, args) => Holds(a, args)'
                   /\ OnItsWay(a, args) => Holds(a, args)' \/ OnItsWay(a, args)'
  BY MineHolds
<1> QED
  BY <1>1, <1>2 DEF OpDone

\* Mining (Mine) keeps the invariant of the wiring.
LEMMA MineIsWired ==
  ASSUME DeploymentInv, WiredInv, Mine
  PROVE  WiredInv'
<1>0. PICK tx : tx = mempool[1]
  OBVIOUS
<1>1. /\ ProgressInv /\ WiringInv /\ DoneInv /\ WorkInv
  BY DEF WiredInv
<1>2. /\ DOMAIN mempool = 1..Len(mempool) /\ Len(mempool) \in Nat /\ Len(mempool) >= 1
      /\ mempool # <<>> /\ DOMAIN mempool' = 1..(Len(mempool) - 1) /\ Len(mempool') = Len(mempool) - 1
      /\ \A i \in 1..(Len(mempool) - 1) : mempool'[i] = mempool[i + 1]
      /\ script' = script /\ file' = file /\ todo' = todo /\ done' = done /\ nonce' = nonce
      /\ reverted' = ~Succeeds(tx)
  BY <1>0, <1>1, PoolFacts, MineEffects DEF Mine
<1>3. \A a, k : Deployed(a, k) => Deployed(a, k)'
  BY MineKeepsContracts DEF DeploymentInv
<1>4. \A a, args : file # <<>> \/ args = {} =>
        /\ Holds(a, args) => Holds(a, args)'
        /\ OnItsWay(a, args) => Holds(a, args)' \/ OnItsWay(a, args)'
  BY <1>1, MineHolds
<1>5. file # <<>> => \A o : OpDone(o) => OpDone(o)'
  BY <1>1, MineKeepsDone
<1>6. Running' = Running /\ Finished' = Finished /\ At' = At /\ Here' = Here /\ Before' = Before /\ Blank' = Blank
  BY <1>2 DEF Running, Finished, At, Here, Before, Blank
<1>7. ProgressInv'
  BY <1>1, <1>2, <1>6 DEF ProgressInv, Follows
<1>8. WiringInv'
  <2>1. \A a \in DOMAIN contracts' : /\ DOMAIN contracts'[a].wires \subseteq GivenBy(contracts'[a].key)
                                     /\ contracts'[a].key \in Standalone => contracts'[a].init
    BY <1>0, <1>1, MineEffects
  <2>2. ASSUME NEW i \in DOMAIN mempool' PROVE i + 1 \in DOMAIN mempool /\ mempool'[i] = mempool[i + 1]
    BY <1>2
  <2> QED
    BY <1>1, <1>2, <1>3, <2>1, <2>2 DEF WiringInv
<1>9. DoneInv'
  <2>1. \A a : IsLive(a) => IsLive(a)'
    <3>1. \A a \in DOMAIN contracts : a \in DOMAIN contracts' /\ (contracts[a].init => contracts'[a].init)
      BY <1>0, <1>1, MineEffects
    <3> QED
      BY <3>1 DEF IsLive
  <2> QED
    BY <1>1, <1>2, <1>5, <2>1 DEF DoneInv
<1>10. WorkInv'
  <2> SUFFICES ASSUME Running, script.pc > 1 PROVE NewestInv' /\ RanInv' /\ WaitInv' /\ PoolInv'
    BY <1>2, <1>6 DEF WorkInv
  <2>1. NewestInv /\ RanInv /\ WaitInv /\ PoolInv
    BY <1>1 DEF WorkInv
  <2>2. NewestInv'
    BY <1>2, <1>6, <2>1 DEF NewestInv
  <2>3. RanInv'
    BY <1>2, <1>5, <1>6, <2>1 DEF RanInv, Blank
  <2>4. ASSUME script.sent # 0
        PROVE  \/ (mempool # <<>> /\ IsCall(mempool[Len(mempool)]))'
               \/ mempool' = <<>> /\ (reverted' \/ Effect')
    <3>1. IsCall(mempool[Len(mempool)])
      BY <1>2, <2>1, <2>4 DEF WaitInv
    <3>2. CASE Len(mempool) = 1
      <4>1. mempool' = <<>>
        BY <1>2, <3>2, PoolFacts, TailOfList DEF Mine, IsList
      <4>2. IsCall(tx)
        BY <1>0, <3>1, <3>2
      <4>3. ASSUME Succeeds(tx), At.op \in {"install", "initialize", "wire"} PROVE Holds(tx.address, At.args)'
        <5>1. /\ tx.address \in DOMAIN contracts' /\ contracts'[tx.address].init
              /\ \A d \in DOMAIN tx.wires :
                   d \in DOMAIN contracts'[tx.address].wires /\ contracts'[tx.address].wires[d] = tx.wires[d]
          BY <1>0, <1>1, <4>2, <4>3, MineEffects DEF IsCall
        <5> QED
          BY <1>2, <1>6, <4>2, <5>1 DEF IsCall, Holds, IsLive
      <4>4. Succeeds(tx) => Effect'
        BY <1>2, <1>6, <4>2, <4>3 DEF Effect, IsCall, Deploys
      <4> QED
        BY <1>2, <4>1, <4>4
    <3>3. CASE Len(mempool) # 1
      <4>1. mempool' # <<>> /\ mempool'[Len(mempool')] = mempool[Len(mempool)]
        <5>1. Len(mempool) - 1 \in 1..(Len(mempool) - 1) /\ (Len(mempool) - 1) + 1 = Len(mempool)
          BY <1>2, <3>3
        <5>2. mempool' # <<>>
          BY <1>2, <5>1
        <5> QED
          BY <1>2, <5>1, <5>2
      <4> QED
        BY <1>2, <1>6, <3>1, <4>1 DEF IsCall
    <3> QED
      BY <3>2, <3>3
  <2>5. ASSUME script.sent = 0
        PROVE  /\ Before.op \notin (Deploys \cup Addressed) \ {"sendInitialize"}
               /\ Before.op # "install"
    <3>1. Before.op \notin (Deploys \cup Addressed) \ {"sendInitialize"}
      BY <1>2, <2>1, <2>5 DEF WaitInv
    <3> QED
      BY <3>1 DEF Deploys
  <2>6. WaitInv'
    BY <1>2, <1>6, <2>1, <2>4, <2>5 DEF WaitInv
  <2>7. PoolInv'
    <3>1. ASSUME NEW i \in DOMAIN mempool'
          PROVE  /\ i + 1 \in DOMAIN mempool /\ mempool'[i] = mempool[i + 1]
                 /\ i + 1 = Len(mempool) => i = Len(mempool')
      BY <1>2
    <3> QED
      BY <1>2, <1>6, <2>1, <3>1, SMTT(30) DEF PoolInv
  <2> QED
    BY <2>2, <2>3, <2>6, <2>7
<1> QED
  BY <1>7, <1>8, <1>9, <1>10 DEF WiredInv

-----------------------------------------------------------------------------

\* A longer pool changes nothing that is done.
LEMMA PoolGrows ==
  ASSUME DeploymentInv, UNCHANGED <<contracts, file>>, DOMAIN mempool \subseteq DOMAIN mempool',
         \A i \in DOMAIN mempool : mempool'[i] = mempool[i]
  PROVE  /\ \A a, args : (Holds(a, args) => Holds(a, args)') /\ (OnItsWay(a, args) => OnItsWay(a, args)')
         /\ \A o : OpDone(o) => OpDone(o)'
<1>1. \A a, args : Holds(a, args) => Holds(a, args)'
  BY DEF Holds, IsLive
<1>2. ASSUME NEW a, NEW args, OnItsWay(a, args) PROVE OnItsWay(a, args)'
  <2>1. PICK i \in DOMAIN mempool :
          /\ mempool[i].op = "initialize" /\ mempool[i].address = a /\ DOMAIN mempool[i].wires = args
          /\ \A d \in args : mempool[i].wires[d] = file[1][d]
          /\ \A j \in 1..(i - 1) : mempool[j].address # a
    BY <1>2 DEF OnItsWay
  <2>2. \A j \in 1..(i - 1) : j \in DOMAIN mempool
    BY PoolFacts
  <2>3. a \in DOMAIN contracts' /\ ~contracts'[a].init /\ i \in DOMAIN mempool'
    BY <1>2 DEF OnItsWay
  <2> QED
    BY <2>1, <2>2, <2>3 DEF OnItsWay
<1> QED
  BY <1>1, <1>2 DEF OpDone

\* Nothing goes on when a script stops.
LEMMA StoppedIsWired ==
  ASSUME DeploymentInv, WiredInv, Fail, UNCHANGED <<contracts, mempool, done>>, file' = file \/ file' = <<>>
  PROVE  WiredInv'
<1>1. ProgressInv /\ WiringInv /\ DoneInv
  BY DEF WiredInv
<1>2. script' = NoScript /\ todo' = <<>> /\ ~Running'
  BY DEF Fail, Running, NoScript
<1>3. ProgressInv'
  BY <1>1, <1>2 DEF ProgressInv, Follows
<1>4. WiringInv'
  BY <1>1 DEF WiringInv, Deployed
<1>5. DoneInv'
  <2>1. file' = file => \A o : OpDone(o) => OpDone(o)'
    BY PoolGrows
  <2> QED
    BY <1>1, <2>1 DEF DoneInv, IsLive
<1>6. WorkInv'
  BY <1>2 DEF WorkInv
<1> QED
  BY <1>3, <1>4, <1>5, <1>6 DEF WiredInv

\* What a script that begins an operation sends, and to whom.
LEMMA WhatIsSent ==
  ASSUME DeploymentInv, WiredInv, Running, ~Finished, script.pc > 1, At.op \in Deploys \cup Addressed
  PROVE  /\ Blank => At.args = {} /\ At.op \in Deploys
         /\ ~Blank => file # <<>> /\ Entry = file[1] /\ At.args \subseteq DOMAIN file[1]
         /\ At.op \notin Deploys => ~Blank /\ At.key \in DOMAIN file[1] /\ Deployed(file[1][At.key], At.key)
         /\ At.args \subseteq GivenBy(At.key)
         /\ At.op = "proxy" => At.key \notin Standalone
<1>1. /\ script.pc \in 1..Len(Here) /\ Len(Here) \in Nat /\ At = Here[script.pc] /\ script.step \in DOMAIN Script
      /\ script.pc \in 1..script.pc /\ script.pc <= Len(Here)
  BY HereIs
<1>2. /\ Blank => Reads(At) = {}
      /\ ~Blank => Reads(At) \subseteq DOMAIN file[1]
  BY <1>1, ReadsHere DEF WiredInv
<1>3. \A n \in 1..Len(Here) : /\ Fits(Here[n], Rank(script.step))
                              /\ Rank(script.step) = 6 => Uses(Here[n]) = {}
  BY OrderHere
<1>4. Fits(At, Rank(script.step)) /\ (Rank(script.step) = 6 => Uses(At) = {})
  BY <1>1, <1>3
<1>5. At.args \subseteq Reads(At) /\ (At.op \notin Deploys => At.key \in Reads(At))
      /\ (At.args # {} => At.args \subseteq Uses(At))
  <2>1. At.op = "proxy" => At.args = {}
    BY <1>4 DEF Fits
  <2> QED
    BY <2>1 DEF Reads, Uses, Deploys, Giving
<1>6. ASSUME ~Blank PROVE file # <<>> /\ Entry = file[1]
  BY <1>6 DEF Blank, Entry
<1>7. ASSUME At.op \notin Deploys
      PROVE  ~Blank /\ At.key \in DOMAIN file[1] /\ Deployed(file[1][At.key], At.key)
  <2>1. ~Blank /\ At.key \in DOMAIN file[1]
    BY <1>2, <1>5, <1>7
  <2>2. 1 \in DOMAIN file
    BY <1>6, <2>1, TailOfList DEF DeploymentInv, Sound
  <2> QED
    BY <2>1, <2>2 DEF DeploymentInv, Sound
<1>8. At.args \subseteq GivenBy(At.key)
  <2>1. CASE At.args = {}
    BY <2>1
  <2>2. CASE At.args # {}
    <3>1. Rank(script.step) # 6
      BY <1>4, <1>5, <2>2
    <3>2. Plan[done + 1] = script.step /\ done \in Nat /\ done < 5
      BY <3>1, PlaceOfScript DEF WiredInv
    <3>3. done + 1 \in DOMAIN Plan
      BY <3>2, PlannedScripts, PlanFacts
    <3>4. script.pc \in DOMAIN Script[Plan[done + 1]] /\ Script[Plan[done + 1]][script.pc] = At
      BY <1>1, <3>2, HereIs DEF Here
    <3> QED
      BY <3>3, <3>4 DEF GivenBy
  <2> QED
    BY <2>1, <2>2
<1>9. At.op = "proxy" => At.key \notin Standalone
  BY <1>4 DEF Fits
<1> QED
  BY <1>2, <1>5, <1>6, <1>7, <1>8, <1>9

\* What the script ran before an operation that records nothing is all done.
LEMMA RanBefore ==
  ASSUME DeploymentInv, WiredInv, Running, ~Finished, script.pc > 1, At.op # "record", ~Blank
  PROVE  \A n \in 1..(script.pc - 1) : OpDone(Here[n])
<1>1. /\ script.pc \in 1..Len(Here) /\ Len(Here) \in Nat /\ At = Here[script.pc]
  BY HereIs
<1>2. PICK required : \A n \in 1..Len(Here) : InOrder(Here, n, required)
  BY OrderHere
<1>3. ASSUME NEW n \in 1..(script.pc - 1) PROVE OpDone(Here[n])
  <2>1. n \in 1..Len(Here) /\ (n < script.pc - 1 \/ n + 1 = script.pc)
    BY <1>1
  <2>2. Here[n].op = "install" => Here[n + 1].op = "record"
    BY <1>2, <2>1 DEF InOrder
  <2>3. Here[n].op # "install" \/ n < script.pc - 1
    BY <1>1, <2>1, <2>2
  <2> QED
    BY <2>3 DEF WiredInv, WorkInv, RanInv
<1> QED
  BY <1>3

-----------------------------------------------------------------------------

\* The script comes to its next operation, with the newest entry as it was.
LEMMA AdvanceIsWired ==
  ASSUME DeploymentInv, WiredInv, Running, ~Finished, script.pc > 1, Advances(script.entries),
         UNCHANGED <<contracts, file, done>>, NEW o, o = At, o.op # "record",
         ~Blank => /\ \A n \in 1..(script.pc - 1) : OpDone(Here[n])'
                   /\ o.op # "install" => OpDone(o)',
         o.op \in (Deploys \cup Addressed) \ {"sendInitialize"} => mempool' = <<>>,
         o.op = "install" => Holds(script.address, o.args)',
         (\E n \in 1..(script.pc - 1) : Here[n].op = "record") =>
           \A i \in DOMAIN mempool' :
             \E n \in 1..script.pc : Here[n].op = "sendInitialize" /\ mempool'[i].key = Here[n].key
  PROVE  ProgressInv' /\ WorkInv'
<1>1. /\ script'.step = script.step /\ script'.pc = script.pc + 1 /\ script'.entries = script.entries
      /\ script'.address = script.address /\ script'.sent = 0 /\ todo' = todo /\ file' = file
  BY DEF Advances
<1>2. /\ Running' = Running /\ Here' = Here /\ Blank' = Blank
  BY <1>1 DEF Running, Here, Blank
<1>3. /\ script.pc \in 1..Len(Here) /\ Len(Here) \in Nat /\ Here[script.pc] = o
      /\ script'.pc - 1 = script.pc
  BY <1>1, HereIs
<1>4. Before' = o
  BY <1>2, <1>3 DEF Before
<1>5. NewestInv /\ RanInv /\ WaitInv /\ PoolInv
  BY DEF WiredInv, WorkInv
<1>6. \A n \in 1..(script'.pc - 1) : n \in 1..(script.pc - 1) \/ n = script.pc
  BY <1>3
<1>7. ProgressInv'
  BY <1>1, <1>2 DEF WiredInv, ProgressInv, Follows
<1>8. NewestInv'
  BY <1>1, <1>2, <1>3, <1>5, <1>6 DEF NewestInv
<1>9. RanInv'
  <2>1. ASSUME ~Blank, NEW n \in 1..(script'.pc - 1), Here[n].op # "install" \/ n < script'.pc - 1
        PROVE  OpDone(Here[n])'
    <3>1. CASE n \in 1..(script.pc - 1)
      BY <2>1, <3>1
    <3>2. CASE n = script.pc
      <4>1. o.op # "install" /\ Here'[n] = o
        BY <1>2, <1>3, <2>1, <3>2
      <4>2. OpDone(o)'
        BY <2>1, <4>1
      <4> QED
        BY <4>1, <4>2
    <3> QED
      BY <1>6, <3>1, <3>2
  <2> QED
    BY <1>2, <2>1 DEF RanInv
<1>10. WaitInv'
  BY <1>1, <1>4 DEF WaitInv
<1>11. PoolInv'
  <2>1. (\E n \in 1..script.pc : Here[n].op = "record") => \E n \in 1..(script.pc - 1) : Here[n].op = "record"
    BY <1>3, <1>6
  <2> QED
    BY <1>1, <1>2, <1>3, <2>1 DEF PoolInv
<1> QED
  BY <1>7, <1>8, <1>9, <1>10, <1>11 DEF WorkInv

\* A check (Check) moves on, or stops the script.
LEMMA CheckIsWired ==
  ASSUME DeploymentInv, WiredInv, Check
  PROVE  WiredInv'
<1>1. /\ UNCHANGED <<contracts, mempool, file, done>> /\ Running /\ ~Finished
      /\ At.op \in {"require", "code", "minter", "manager"}
      /\ Fail \/ Go(script)
  BY DEF Check, Executing, chain, operator
<1>2. CASE Fail
  BY <1>1, <1>2, StoppedIsWired
<1>3. CASE Go(script)
  <2>1. Advances(script.entries)
    BY <1>3, GoAdvancesAlone DEF DeploymentInv
  <2>2. At.op \notin Loads \cup Creates \cup Calls \cup Deploys \cup Addressed \cup {"record"}
    BY <1>1 DEF Loads, Creates, Calls, Deploys, Addressed
  <2>3. script.pc > 1
    BY <1>1, <2>2, Positions DEF DeploymentInv
  <2>4. script.sent = 0
    BY <1>1, <2>2 DEF DeploymentInv, ScriptInv
  <2>5. PICK o : o = At
    OBVIOUS
  <2>6. \A p : OpDone(p) => OpDone(p)'
    BY <1>1, PoolGrows
  <2>7. OpDone(o)
    BY <1>1, <2>2, <2>5 DEF OpDone, Uses, Giving, Deploys, Addressed
  <2>8. ~Blank => \A n \in 1..(script.pc - 1) : OpDone(Here[n])
    BY <1>1, <2>2, <2>3, RanBefore
  <2>9. Here' = Here
    BY <2>1 DEF Advances, Here
  <2>10. \A n \in 1..(script.pc - 1) : OpDone(Here[n]) => OpDone(Here[n])'
    BY <2>6, <2>9
  <2>11. (\E n \in 1..(script.pc - 1) : Here[n].op = "record") =>
           \A i \in DOMAIN mempool' :
             \E n \in 1..script.pc : Here[n].op = "sendInitialize" /\ mempool'[i].key = Here[n].key
    <3>1. PoolInv /\ \A n \in 1..(script.pc - 1) : n \in 1..script.pc
      BY <1>1, <2>3, HereIs DEF WiredInv, WorkInv
    <3> QED
      BY <1>1, <2>4, <3>1 DEF PoolInv
  <2>12. ProgressInv' /\ WorkInv'
    <3>1. o.op \notin Deploys \cup Addressed /\ o.op # "install" /\ o.op # "record"
      BY <2>2, <2>5 DEF Deploys
    <3> QED
      BY <1>1, <2>1, <2>3, <2>5, <2>6, <2>7, <2>8, <2>10, <2>11, <3>1, AdvanceIsWired
  <2>13. WiringInv'
    BY <1>1 DEF WiredInv, WiringInv, Deployed
  <2>14. DoneInv'
    BY <1>1, <2>6 DEF WiredInv, DoneInv, IsLive
  <2> QED
    BY <2>12, <2>13, <2>14 DEF WiredInv
<1> QED
  BY <1>1, <1>2, <1>3

\* What was waited for (Await) has had its effect, and nothing else is in the pool.
LEMMA AwaitIsWired ==
  ASSUME DeploymentInv, WiredInv, Await
  PROVE  WiredInv'
<1>1. /\ UNCHANGED <<contracts, mempool, file, done>> /\ Running /\ script.sent # 0
      /\ \A i \in DOMAIN mempool : mempool[i].nonce # script.sent
      /\ IF reverted THEN Fail ELSE Go(script)
  BY DEF Await, chain, operator
<1>2. CASE Fail
  BY <1>1, <1>2, StoppedIsWired
<1>3. CASE ~reverted /\ Go(script)
  <2>1. Advances(script.entries)
    BY <1>3, GoAdvancesAlone DEF DeploymentInv
  <2>2. ~Finished /\ At.op \in Creates \cup Calls
    BY <1>1 DEF DeploymentInv, ScriptInv
  <2>3. At.op \notin Loads \cup {"record"}
    BY <2>2 DEF Loads, Creates, Calls
  <2>4. script.pc > 1
    BY <1>1, <2>2, <2>3, Positions DEF DeploymentInv
  <2>5. WaitInv /\ PoolInv /\ NewestInv
    BY <1>1, <2>4 DEF WiredInv, WorkInv
  <2>6. At.op \in (Deploys \cup Addressed) \ {"sendInitialize"} /\ script.sent = nonce
    BY <1>1, <2>5 DEF WaitInv
  <2>7. mempool = <<>>
    <3>1. mempool # <<>> => \E i \in DOMAIN mempool : mempool[i].nonce = nonce
      BY PoolFacts
    <3> QED
      BY <1>1, <2>6, <3>1
  <2>8. Effect
    BY <1>1, <1>3, <2>5, <2>7 DEF WaitInv
  <2>9. PICK o : o = At
    OBVIOUS
  <2>10. /\ \A p : OpDone(p) => OpDone(p)'
         /\ \A a, args : Holds(a, args) => Holds(a, args)'
    BY <1>1, PoolGrows
  <2>11. script.pc \in 1..Len(Here) /\ script.pc <= Len(Here) /\ script.pc \in 1..script.pc /\ At = Here[script.pc]
    BY <1>1, <2>2, HereIs
  <2>12. ~Blank /\ o.op # "install" => OpDone(o)
    <3> SUFFICES ASSUME ~Blank, o.op # "install" PROVE OpDone(o)
      OBVIOUS
    <3>1. Reads(At) \subseteq DOMAIN file[1]
      BY <1>1, <2>4, <2>11, ReadsHere DEF WiredInv
    <3>2. Uses(o) \subseteq DOMAIN file[1]
      BY <2>9, <3>1 DEF Uses, Reads, Giving
    <3>3. o.op \notin {"record", "sendInitialize"}
      BY <2>3, <2>6, <2>9
    <3> QED
      BY <2>8, <2>9, <3>2, <3>3 DEF OpDone, Effect
  <2>13. ~Blank => \A n \in 1..(script.pc - 1) : OpDone(Here[n])
    BY <1>1, <2>2, <2>3, <2>4, RanBefore
  <2>14. Here' = Here /\ script'.address = script.address
    BY <2>1 DEF Advances, Here
  <2>15. \A n \in 1..(script.pc - 1) : OpDone(Here[n]) => OpDone(Here[n])'
    BY <2>10, <2>14
  <2>16. o.op = "install" => Holds(script.address, o.args)'
    BY <2>8, <2>9, <2>10, <2>14 DEF Effect
  <2>17. DOMAIN mempool' = {} /\ mempool' = <<>>
    BY <1>1, <2>7
  <2>18. ProgressInv' /\ WorkInv'
    BY <1>1, <2>1, <2>2, <2>3, <2>4, <2>9, <2>10, <2>12, <2>13, <2>15, <2>16, <2>17, AdvanceIsWired
  <2>19. WiringInv'
    BY <1>1 DEF WiredInv, WiringInv, Deployed
  <2>20. DoneInv'
    BY <1>1, <2>10 DEF WiredInv, DoneInv, IsLive
  <2> QED
    BY <2>18, <2>19, <2>20 DEF WiredInv
<1> QED
  BY <1>1, <1>2, <1>3

-----------------------------------------------------------------------------

\* A transaction (Send) carries addresses of the newest entry.
LEMMA SendIsWired ==
  ASSUME DeploymentInv, WiredInv, Send
  PROVE  WiredInv'
<1>1. /\ UNCHANGED <<contracts, file, done>> /\ Running /\ ~Finished
      /\ At.op \in Creates \cup Calls /\ script.sent = 0
  BY DEF Send, Executing, operator
<1>2. \/ Fail /\ UNCHANGED <<mempool, nonce>>
      \/ /\ At.op # "noSuchInitializer" /\ Succeeds(Sent)
         /\ mempool' = Append(mempool, Sent) /\ nonce' = nonce + 1
         /\ \/ At.op = "sendInitialize" /\ Go(script)
            \/ /\ At.op # "sendInitialize" /\ UNCHANGED todo
               /\ script' = [script EXCEPT !.sent = nonce + 1, !.address = Sent.address]
  BY DEF Send, Sent
<1>3. CASE Fail /\ UNCHANGED mempool
  BY <1>1, <1>3, StoppedIsWired
<1>4. ASSUME At.op # "noSuchInitializer", Succeeds(Sent), mempool' = Append(mempool, Sent), nonce' = nonce + 1,
             \/ At.op = "sendInitialize" /\ Go(script)
             \/ /\ At.op # "sendInitialize" /\ UNCHANGED todo
                /\ script' = [script EXCEPT !.sent = nonce + 1, !.address = Sent.address]
      PROVE  WiredInv'
  <2> DEFINE n == Len(mempool)
  <2>1. PICK tx : tx = Sent
    OBVIOUS
  <2>2. PICK o : o = At
    OBVIOUS
  <2>3. o.op \in Deploys \cup Addressed /\ o.op \notin Loads \cup {"record", "startNewEntry"}
    BY <1>1, <1>4, <2>2 DEF Creates, Calls, Deploys, Addressed, Loads
  <2>4. script.pc > 1
    BY <1>1, <2>2, <2>3, Positions DEF DeploymentInv
  <2>5. /\ Blank => o.args = {} /\ o.op \in Deploys
        /\ ~Blank => file # <<>> /\ Entry = file[1] /\ o.args \subseteq DOMAIN file[1]
        /\ o.op \notin Deploys => ~Blank /\ o.key \in DOMAIN file[1] /\ Deployed(file[1][o.key], o.key)
        /\ o.args \subseteq GivenBy(o.key)
        /\ o.op = "proxy" => o.key \notin Standalone
    BY <1>1, <2>2, <2>3, <2>4, WhatIsSent
  <2>6. /\ tx.op = (IF o.op = "sendInitialize" THEN "initialize" ELSE o.op) /\ tx.key = o.key
        /\ o.op \notin Deploys => tx.address = file[1][o.key]
        /\ DOMAIN tx.wires = o.args /\ \A d \in o.args : tx.wires[d] = file[1][d]
    <3>1. o.op \notin Deploys => o.op \notin Creates
      BY <2>3 DEF Creates, Addressed, Deploys
    <3>2. /\ tx.op = (IF o.op = "sendInitialize" THEN "initialize" ELSE o.op) /\ tx.key = o.key
          /\ o.op \notin Creates => tx.address = Entry[o.key]
          /\ tx.wires = [k \in o.args |-> Entry[k]]
      BY <2>1, <2>2 DEF Sent, Transaction
    <3> QED
      BY <2>5, <3>1, <3>2
  <2>7. /\ n \in Nat /\ DOMAIN mempool = 1..n
        /\ DOMAIN mempool' = 1..(n + 1) /\ Len(mempool') = n + 1 /\ mempool'[n + 1] = tx /\ mempool' # <<>>
        /\ \A i \in 1..n : mempool'[i] = mempool[i]
    <3>1. PICK S : mempool \in Seq(S)
      BY DEF DeploymentInv, ChainInv, IsList
    <3>2. mempool \in Seq(S \cup {tx}) /\ tx \in S \cup {tx}
      BY <3>1
    <3>3. mempool' = Append(mempool, tx)
      BY <1>4, <2>1
    <3> QED
      BY <3>2, <3>3
  <2> HIDE DEF n
  <2>8. DOMAIN mempool \subseteq DOMAIN mempool' /\ \A i \in DOMAIN mempool : mempool'[i] = mempool[i]
    BY <2>7
  <2>9. /\ \A a, args : (Holds(a, args) => Holds(a, args)') /\ (OnItsWay(a, args) => OnItsWay(a, args)')
        /\ \A p : OpDone(p) => OpDone(p)'
    BY <1>1, <2>8, PoolGrows
  <2>10. tx.op \in {"proxy", "install", "initialize", "wire", "price"}
         /\ (tx.op \in Deploys <=> o.op \in Deploys) /\ (tx.op = "proxy" <=> o.op = "proxy")
    BY <2>3, <2>6 DEF Deploys, Addressed
  <2>11. WiringInv'
    <3>1. \A i \in DOMAIN mempool' : i \in DOMAIN mempool \/ i = n + 1
      BY <2>7
    <3>2. /\ DOMAIN tx.wires \subseteq GivenBy(tx.key)
          /\ tx.op = "proxy" => tx.key \notin Standalone
          /\ tx.op \notin Deploys => Deployed(tx.address, tx.key)
          /\ \A d \in DOMAIN tx.wires : tx.wires[d] = file[1][d]
      BY <2>5, <2>6, <2>10
    <3>3. WiringInv
      BY DEF WiredInv
    <3> QED
      BY <1>1, <2>7, <2>8, <2>10, <3>1, <3>2, <3>3 DEF WiringInv, Deployed
  <2>12. DoneInv'
    <3>1. DoneInv
      BY DEF WiredInv
    <3>2. UNCHANGED <<contracts, file, done>>
      BY <1>1
    <3> QED
      BY ONLY <2>9, <3>1, <3>2 DEF DoneInv, IsLive
  <2>13. /\ script.pc \in 1..Len(Here) /\ Len(Here) \in Nat /\ o = Here[script.pc]
    BY <1>1, <2>2, HereIs
  <2>14. NewestInv /\ RanInv /\ WaitInv /\ PoolInv
    BY <1>1, <2>4 DEF WiredInv, WorkInv
  <2>15. (\E m \in 1..(script.pc - 1) : Here[m].op = "record") =>
            \A i \in DOMAIN mempool :
              \E m \in 1..(script.pc - 1) : Here[m].op = "sendInitialize" /\ mempool[i].key = Here[m].key
    BY <1>1, <2>14 DEF PoolInv
  <2>16. ASSUME o.op = "sendInitialize", Go(script) PROVE ProgressInv' /\ WorkInv'
    <3>1. Advances(script.entries)
      BY <2>16, GoAdvancesAlone DEF DeploymentInv
    <3>2. Here' = Here
      BY <3>1 DEF Advances, Here
    <3>3. ~Blank
      BY <2>5, <2>16 DEF Deploys
    <3>4. \A m \in 1..(script.pc - 1) : OpDone(Here[m])'
      <4>1. \A m \in 1..(script.pc - 1) : OpDone(Here[m])
        BY <1>1, <2>2, <2>3, <2>4, <3>3, RanBefore
      <4> QED
        BY <2>9, <3>2, <4>1
    <3>5. PICK required : InOrder(Here, script.pc, required)
      BY <1>1, <2>13, OrderHere
    <3>6. /\ \E m \in 1..(script.pc - 1) : Here[m].op = "record"
          /\ \A m \in 1..(script.pc - 1) : ~(Here[m].op = "sendInitialize" /\ Here[m].key = o.key)
      BY <2>13, <2>16, <3>5 DEF InOrder, Records
    <3>7. PICK a : a = file[1][o.key]
      OBVIOUS
    <3>8. a \in DOMAIN contracts /\ contracts[a].key = o.key /\ ~contracts[a].init /\ tx.address = a
          /\ tx.op = "initialize"
      <4>1. tx.op = "initialize" /\ tx.address = a /\ Deployed(a, o.key)
        BY <2>5, <2>6, <2>16, <3>7 DEF Deploys
      <4>2. Succeeds(tx)
        BY <1>4, <2>1
      <4> QED
        BY <4>1, <4>2 DEF Succeeds, Deployed
    <3>9. ASSUME NEW i \in DOMAIN mempool PROVE mempool[i].address # a
      <4>1. mempool[i].key # o.key
        BY <2>15, <3>6
      <4>2. mempool[i].op \in Deploys => mempool[i].address \notin DOMAIN contracts
        BY PoolFacts
      <4>3. mempool[i].op \notin Deploys => Deployed(mempool[i].address, mempool[i].key)
        BY DEF WiredInv, WiringInv
      <4> QED
        BY <3>8, <4>1, <4>2, <4>3 DEF Deployed
    <3>10. OnItsWay(a, o.args)'
      <4>1. /\ n + 1 \in DOMAIN mempool' /\ mempool'[n + 1] = tx
            /\ \A j \in 1..((n + 1) - 1) : j \in DOMAIN mempool /\ mempool'[j] = mempool[j]
        BY <2>7
      <4> QED
        BY <1>1, <2>6, <3>8, <3>9, <4>1 DEF OnItsWay
    <3>11. OpDone(o)'
      <4>1. Uses(o) \subseteq DOMAIN file[1]
        BY <2>5, <2>16, <3>3 DEF Uses, Deploys
      <4>2. a = file'[1][o.key]
        BY <1>1, <3>7
      <4> QED
        BY <1>1, <2>16, <3>10, <4>1, <4>2 DEF OpDone
    <3>12. ASSUME \E m \in 1..(script.pc - 1) : Here[m].op = "record", NEW i \in DOMAIN mempool'
           PROVE  \E m \in 1..script.pc : Here[m].op = "sendInitialize" /\ mempool'[i].key = Here[m].key
      <4>1. CASE i = n + 1
        BY <2>6, <2>7, <2>13, <2>16, <4>1
      <4>2. CASE i # n + 1
        <5>1. i \in DOMAIN mempool /\ mempool'[i] = mempool[i]
          BY <2>7, <4>2
        <5>2. \A m \in 1..(script.pc - 1) : m \in 1..script.pc
          BY <2>13
        <5> QED
          BY <2>15, <3>6, <5>1, <5>2
      <4> QED
        BY <4>1, <4>2
    <3>13. /\ o.op # "record" /\ o.op # "install"
           /\ o.op \notin (Deploys \cup Addressed) \ {"sendInitialize"}
      BY <2>16
    <3> QED
      BY <1>1, <2>2, <2>4, <3>1, <3>4, <3>11, <3>12, <3>13, AdvanceIsWired
  <2>17. ASSUME o.op # "sendInitialize", UNCHANGED todo,
                script' = [script EXCEPT !.sent = nonce + 1, !.address = Sent.address]
         PROVE  ProgressInv' /\ WorkInv'
    <3>1. script' = [step |-> script.step, pc |-> script.pc, entries |-> script.entries,
                     address |-> tx.address, sent |-> nonce + 1]
      BY <2>1, <2>17 DEF DeploymentInv, ScriptInv
    <3>2. /\ script'.step = script.step /\ script'.pc = script.pc /\ script'.entries = script.entries
          /\ script'.address = tx.address /\ script'.sent = nonce + 1
      BY <3>1
    <3>3. Running' = Running /\ At' = o /\ Here' = Here /\ Before' = Before /\ Blank' = Blank
      BY <1>1, <2>2, <3>2 DEF Running, At, Here, Before, Blank
    <3>4. nonce + 1 # 0 /\ nonce' = nonce + 1
      BY <1>4, PoolFacts
    <3>5. ProgressInv'
      BY <1>1, <2>17, <3>3, <3>2 DEF WiredInv, ProgressInv, Follows
    <3>6. NewestInv'
      BY <1>1, <2>14, <3>2, <3>3 DEF NewestInv
    <3>7. RanInv'
      BY <2>9, <2>14, <3>2, <3>3 DEF RanInv
    <3>8. WaitInv'
      <4>1. mempool'[Len(mempool')] = tx
        BY <2>7
      <4>2. (IsCall(mempool[Len(mempool)]))'
        BY <1>1, <2>6, <2>17, <3>2, <3>3, <4>1 DEF IsCall
      <4> QED
        BY <2>3, <2>7, <2>17, <3>2, <3>3, <3>4, <4>2 DEF WaitInv
    <3>9. PoolInv'
      <4>1. \A i \in DOMAIN mempool' : i = Len(mempool') \/ (i \in DOMAIN mempool /\ mempool'[i] = mempool[i])
        BY <2>7
      <4> QED
        BY <2>15, <3>2, <3>3, <3>4, <4>1 DEF PoolInv
    <3> QED
      BY <3>5, <3>6, <3>7, <3>8, <3>9 DEF WorkInv
  <2> QED
    BY <1>4, <2>2, <2>11, <2>12, <2>16, <2>17 DEF WiredInv
<1> QED
  BY <1>2, <1>3, <1>4

-----------------------------------------------------------------------------

\* What is done stays done when an address nothing that was done depends on is
\* recorded, and nothing is on its way.
LEMMA RecordKeepsDone ==
  ASSUME NEW key, UNCHANGED contracts, mempool = <<>>,
         DOMAIN file[1] \subseteq DOMAIN file'[1],
         \A k \in DOMAIN file[1] : k # key => file'[1][k] = file[1][k]
  PROVE  \A o : OpDone(o) /\ key \notin Uses(o) => OpDone(o)'
<1> SUFFICES ASSUME NEW o, OpDone(o), key \notin Uses(o) PROVE OpDone(o)'
  OBVIOUS
<1>1. /\ Uses(o) \subseteq DOMAIN file'[1]
      /\ \A k \in Uses(o) : file'[1][k] = file[1][k]
      /\ o.op = "record" => o.key \in DOMAIN file'[1]
  BY DEF OpDone
<1>2. ASSUME o.op \in {"install", "initialize", "wire", "sendInitialize"}, o.key \notin Standalone
      PROVE  Holds(file[1][o.key], o.args)'
  <2>1. o.args \cup {o.key} \subseteq Uses(o)
    BY <1>2 DEF Uses, Giving, Addressed
  <2>2. ~OnItsWay(file[1][o.key], o.args)
    <3>1. DOMAIN mempool = {}
      OBVIOUS
    <3> QED
      BY <3>1 DEF OnItsWay
  <2>3. Holds(file[1][o.key], o.args)
    BY <1>2, <2>2 DEF OpDone
  <2> QED
    BY <1>1, <2>1, <2>3 DEF Holds, IsLive
<1> QED
  BY <1>1, <1>2 DEF OpDone

\* record (Record) changes no address that anything done depends on.
LEMMA RecordIsWired ==
  ASSUME DeploymentInv, WiredInv, Record
  PROVE  WiredInv'
<1>1. UNCHANGED <<contracts, mempool, reverted, nonce, done>> /\ Running /\ ~Finished /\ At.op = "record"
  BY DEF Record, Executing, chain, operator
<1>2. CASE script.entries = <<>>
  <2>1. Fail /\ UNCHANGED file
    BY <1>2 DEF Record
  <2> QED
    BY <1>1, <2>1, StoppedIsWired
<1>3. CASE script.entries # <<>>
  <2> DEFINE entries == <<Put(Entry, At.key, script.address)>> \o Tail(script.entries)
  <2>1. file' = entries /\ Go([script EXCEPT !.entries = entries])
    BY <1>3 DEF Record
  <2>2. PICK key : key = At.key
    OBVIOUS
  <2>3. PICK address : address = script.address
    OBVIOUS
  <2>4. entries # <<>> /\ entries[1] = Put(Entry, key, address)
    <3> DEFINE first == Put(Entry, key, address)
    <3>1. IsList(Tail(script.entries))
      BY <1>1, <1>3, TailOfList DEF DeploymentInv, ScriptInv, Sound
    <3>2. PICK S : Tail(script.entries) \in Seq(S)
      BY <3>1 DEF IsList
    <3> HIDE DEF first
    <3>3. <<first>> \in Seq(S \cup {first}) /\ Tail(script.entries) \in Seq(S \cup {first})
      BY <3>2
    <3>4. /\ (<<first>> \o Tail(script.entries))[1] = first
          /\ <<first>> \o Tail(script.entries) # <<>>
      BY <3>3
    <3> QED
      BY <2>2, <2>3, <3>4 DEF first
  <2> HIDE DEF entries
  <2>5. Advances(entries)
    BY <2>1, GoAdvances DEF DeploymentInv
  <2>6. /\ script'.step = script.step /\ script'.pc = script.pc + 1 /\ script'.entries = entries
        /\ script'.sent = 0 /\ todo' = todo
    BY <2>5 DEF Advances
  <2>7. /\ DOMAIN file'[1] = DOMAIN Entry \cup {key} /\ file'[1][key] = address
        /\ \A k \in DOMAIN Entry : k # key => file'[1][k] = Entry[k]
        /\ file' # <<>> /\ ~Blank'
    BY <2>1, <2>4, <2>6 DEF Put, Over, Blank
  <2>8. script.pc > 1 /\ script.sent = 0
    <3>1. At.op \notin Loads \cup Creates \cup Calls
      BY <1>1 DEF Loads, Creates, Calls
    <3> QED
      BY <1>1, <3>1, Positions DEF DeploymentInv, ScriptInv
  <2>9. /\ script.pc \in 1..Len(Here) /\ Len(Here) \in Nat /\ At = Here[script.pc]
        /\ RecordsItsContract(Here, script.pc)
    BY <1>1, HereIs
  <2>10. Before.op \in Deploys /\ Before.key = key
    BY <1>1, <2>2, <2>9 DEF RecordsItsContract, Before
  <2>11. ProgressInv /\ WiringInv /\ DoneInv /\ NewestInv /\ RanInv /\ WaitInv
    BY <1>1, <2>8 DEF WiredInv, WorkInv
  <2>12. mempool = <<>> /\ (Before.op = "install" => Holds(address, Before.args))
    <3>1. "sendInitialize" \notin Deploys
      BY DEF Deploys
    <3> QED
      BY <2>3, <2>8, <2>10, <2>11, <3>1 DEF WaitInv
  <2>13. Running' = Running /\ Here' = Here /\ Before' = At
    <3>1. script'.pc - 1 = script.pc
      BY <2>6, <2>9
    <3> QED
      BY <2>6, <2>9, <3>1 DEF Running, Here, Before
  <2>14. PICK required :
           /\ \A n \in 1..Len(Here) : /\ Fits(Here[n], Rank(script.step)) /\ InOrder(Here, n, required)
                                      /\ Rank(script.step) = 6 => Uses(Here[n]) = {}
    BY <1>1, OrderHere
  <2>15. Level(key) \in {Rank(script.step), 6}
    BY <1>1, <2>2, <2>9, <2>14 DEF Fits
  <2>16. /\ \A n \in 1..(script.pc - 1) :
              \/ key \notin Uses(Here[n])
              \/ n = script.pc - 1 /\ Here[n].op = "install" /\ key \notin Here[n].args
         /\ \A n \in 1..(script.pc - 1) : n \in 1..Len(Here) /\ n \in 1..script.pc /\ n <= Len(Here)
    <3>1. InOrder(Here, script.pc, required)
      BY <2>9, <2>14
    <3> QED
      BY <1>1, <2>2, <2>9, <3>1 DEF InOrder
  <2>17. ASSUME NEW n \in 1..(script.pc - 1)
         PROVE  /\ Blank => Reads(Here[n]) = {}
                /\ ~Blank => Reads(Here[n]) \subseteq DOMAIN file[1]
    <3>1. n \in 1..script.pc /\ n <= Len(Here)
      BY <2>16
    <3>2. ProgressInv /\ DoneInv /\ WorkInv
      BY DEF WiredInv
    <3> QED
      BY <1>1, <2>8, <3>1, <3>2, ReadsHere
  <2>18. /\ script.step \in DOMAIN Script /\ Rank(script.step) \in 1..6 /\ done \in Nat /\ done <= Len(Plan)
         /\ Len(Plan) \in Nat
         /\ \/ Rank(script.step) < 6 /\ done < 5 /\ Rank(script.step) = done + 1
            \/ Rank(script.step) = 6
    BY <1>1, <2>11, HereIs, PlaceOfScript, PlannedScripts
  <2>19. ASSUME ~Blank
         PROVE  /\ DOMAIN file[1] \subseteq DOMAIN file'[1]
                /\ \A k \in DOMAIN file[1] : k # key => file'[1][k] = file[1][k]
                /\ DOMAIN file'[1] = DOMAIN file[1] \cup {key} /\ file # <<>>
                /\ \A o : OpDone(o) /\ key \notin Uses(o) => OpDone(o)'
    <3>1. Entry = file[1] /\ file # <<>>
      BY <2>19 DEF Blank, Entry
    <3>2. /\ DOMAIN file[1] \subseteq DOMAIN file'[1]
          /\ \A k \in DOMAIN file[1] : k # key => file'[1][k] = file[1][k]
          /\ DOMAIN file'[1] = DOMAIN file[1] \cup {key}
      BY <2>7, <3>1
    <3> QED
      BY <1>1, <2>12, <3>1, <3>2, RecordKeepsDone
  <2>20. ASSUME Blank
         PROVE  /\ script.step = "base" /\ done = 0 /\ DOMAIN file'[1] = {key}
                /\ \A n \in 1..(script.pc - 1) : Here[n].op # "record" /\ Reads(Here[n]) = {}
    <3>1. script.entries # file
      BY <1>3, <2>20 DEF Blank
    <3>2. script.step = "base"
      BY <2>11, <3>1 DEF NewestInv
    <3>3. Rank("base") = 1
      BY DEF Rank
    <3>4. done = 0
      BY <2>18, <3>2, <3>3
    <3>5. script.entries = <<NoEntry>> \o file
      BY <1>1, <2>8, <3>1 DEF DeploymentInv, ScriptInv
    <3>6. Entry = NoEntry
      <4>1. PICK S : file \in Seq(S)
        BY DEF DeploymentInv, Sound, IsList
      <4>2. PICK e : e = NoEntry
        OBVIOUS
      <4>3. <<e>> \in Seq(S \cup {e}) /\ file \in Seq(S \cup {e})
        BY <4>1
      <4>4. (<<e>> \o file)[1] = e
        BY <4>3
      <4> QED
        BY <3>5, <4>2, <4>4 DEF Entry
    <3>7. DOMAIN Entry = {}
      BY <3>6 DEF NoEntry
    <3>8. \A n \in 1..(script.pc - 1) : Reads(Here[n]) = {}
      BY <2>20, <2>17
    <3> QED
      BY <2>7, <2>11, <2>20, <3>2, <3>4, <3>7, <3>8 DEF NewestInv
  \* The contract just created, and everything that was run before.
  <2>21. ASSUME NEW n \in 1..(script.pc - 1) PROVE OpDone(Here[n])'
    <3>1. PICK o : o = Here[n]
      OBVIOUS
    <3>3. CASE o.op = "install" /\ n = script.pc - 1
      <4>1. o = Before
        BY <3>1, <3>3 DEF Before
      <4>2. o.key = key /\ key \notin o.args /\ Holds(address, o.args)
        <5>1. o.args \subseteq Uses(o)
          BY <3>3 DEF Uses, Giving
        <5> QED
          BY <2>10, <2>12, <2>16, <3>1, <3>3, <4>1, <5>1
      <4>3. Uses(o) \subseteq o.args \cup {key} /\ Reads(o) = o.args
        BY <3>3, <4>2 DEF Uses, Reads, Addressed
      <4>4. /\ o.args \subseteq DOMAIN file'[1] /\ key \in DOMAIN file'[1]
            /\ \A d \in o.args : file'[1][d] = file[1][d]
        <5>1. CASE Blank
          <6>1. o.args = {}
            BY <2>20, <3>1, <4>3, <5>1
          <6>2. key \in DOMAIN file'[1]
            BY <2>7
          <6> QED
            BY <6>1, <6>2
        <5>2. CASE ~Blank
          <6>1. o.args \subseteq DOMAIN file[1]
            BY <2>17, <3>1, <4>3, <5>2
          <6> QED
            BY <2>19, <4>2, <5>2, <6>1
        <5> QED
          BY <5>1, <5>2
      <4>5. Holds(address, o.args)'
        BY <1>1, <4>2, <4>4 DEF Holds, IsLive
      <4>6. file'[1][o.key] = address
        BY <2>7, <4>2
      <4>7. OpDone(o)'
        BY <3>3, <4>3, <4>4, <4>5, <4>6 DEF OpDone
      <4> QED
        BY <2>13, <3>1, <4>7
    <3>4. CASE ~(o.op = "install" /\ n = script.pc - 1)
      <4>1. key \notin Uses(o)
        BY <2>16, <3>1, <3>4
      <4>2. CASE Blank
        <5>1. o.op # "record" /\ Reads(o) = {}
          BY <2>20, <3>1, <4>2
        <5>2. o.op # "install"
          <6> SUFFICES ASSUME o.op = "install" PROVE FALSE
            OBVIOUS
          <6>1. n < script.pc - 1
            BY <2>9, <3>4
          <6>2. n + 1 \in 1..(script.pc - 1)
            BY <2>9, <6>1
          <6>3. Here[n + 1].op = "record"
            BY <2>14, <2>16, <3>1 DEF InOrder
          <6> QED
            BY <2>20, <4>2, <6>2, <6>3
        <5>3. o.op \notin Addressed
          BY <5>1 DEF Reads
        <5>4. OpDone(o)'
          BY <5>1, <5>2, <5>3 DEF OpDone, Uses, Giving, Addressed
        <5> QED
          BY <2>13, <3>1, <5>4
      <4>3. CASE ~Blank
        <5>1. Here[n].op # "install" \/ n < script.pc - 1
          BY <2>9, <3>1, <3>4
        <5>2. OpDone(Here[n])
          BY <2>11, <4>3, <5>1 DEF RanInv
        <5>3. OpDone(o)'
          BY <2>19, <3>1, <4>1, <4>3, <5>2
        <5> QED
          BY <2>13, <3>1, <5>3
      <4> QED
        BY <4>2, <4>3
    <3> QED
      BY <3>3, <3>4
  <2>22. ASSUME NEW i \in 1..done, i <= 5 \/ done > 5, ~Blank, NEW n \in 1..Len(Script[Plan[i]])
         PROVE  /\ OpDone(Script[Plan[i]][n]) /\ key \notin Uses(Script[Plan[i]][n])
    <3>1. OpDone(Script[Plan[i]][n])
      <4>1. file # <<>>
        BY <2>22 DEF Blank
      <4> QED
        BY <2>11, <2>22, <4>1 DEF DoneInv
    <3>2. i \in 1..Len(Plan) /\ Plan[i] \in DOMAIN Script /\ Rank(Plan[i]) = (IF i < 6 THEN i ELSE 6)
      <4>1. i \in 1..Len(Plan)
        BY <2>18
      <4> QED
        BY ONLY <4>1, PlannedScripts
    <3>3. Fits(Script[Plan[i]][n], Rank(Plan[i]))
      BY <3>2, ScriptsInOrder
    <3>4. \A k \in Uses(Script[Plan[i]][n]) : Level(k) <= Rank(Plan[i]) /\ Level(k) < 6
      BY <3>3 DEF Fits
    <3>5. Level(key) = 6 \/ (Level(key) = done + 1 /\ Rank(Plan[i]) = i)
      BY <2>15, <2>18, <3>2
    <3>6. key \notin Uses(Script[Plan[i]][n])
      BY <2>18, <3>4, <3>5
    <3> QED
      BY <3>1, <3>6
  <2>23. ProgressInv'
    BY <1>1, <2>6, <2>11, <2>13 DEF ProgressInv, Follows
  <2>24. WiringInv'
    <3>1. DOMAIN mempool' = {}
      BY <1>1, <2>12
    <3> QED
      BY <1>1, <2>11, <3>1 DEF WiringInv
  <2>25. DoneInv'
    <3>1. \A k \in DOMAIN file'[1] : Level(k) \in 1..6
      <4>1. Level(key) \in 1..6
        BY <2>15, <2>18
      <4> QED
        BY <2>11, <2>19, <2>20, <4>1 DEF DoneInv
    <3>2. ASSUME NEW i \in 1..done, NEW n \in 1..Len(Script[Plan[i]]) PROVE OpDone(Script[Plan[i]][n])'
      <4>1. ~Blank
        BY <2>18, <2>20
      <4>2. i <= 5 \/ done > 5
        BY <2>18
      <4> QED
        BY <2>19, <2>22, <4>1, <4>2
    <3>3. ASSUME done >= 5, NEW i \in 1..5, NEW n \in 1..Len(Script[Plan[i]]), NEW o, o = Script[Plan[i]][n],
                 o.op = "sendInitialize", o.key \notin Standalone
          PROVE  IsLive(file[1][o.key])'
      <4>1. ~Blank /\ i \in 1..done
        BY <2>18, <2>20, <3>3
      <4>2. IsLive(file[1][o.key])
        BY <2>11, <2>19, <3>3, <4>1 DEF DoneInv
      <4>3. OpDone(o) /\ key \notin Uses(o)
        BY <2>22, <3>3, <4>1
      <4>4. o.key \in DOMAIN file[1] /\ o.key # key
        BY <3>3, <4>3 DEF OpDone, Uses, Giving, Addressed
      <4>5. file'[1][o.key] = file[1][o.key]
        BY <2>19, <4>1, <4>4
      <4> QED
        BY <1>1, <4>2, <4>5 DEF IsLive
    <3> QED
      BY <1>1, <2>7, <3>1, <3>2, <3>3 DEF DoneInv
  <2>26. WorkInv'
    <3>1. \A n \in 1..(script'.pc - 1) : n \in 1..(script.pc - 1) \/ n = script.pc
      BY <2>6, <2>9
    <3>2. NewestInv'
      BY <2>1, <2>6, <2>7 DEF NewestInv
    <3>3. PICK o : o = At
      OBVIOUS
    <3>4. OpDone(o)'
      BY <1>1, <2>2, <2>7, <3>3 DEF OpDone, Uses, Giving, Addressed
    <3>5. RanInv'
      BY <2>9, <2>13, <2>21, <3>1, <3>3, <3>4 DEF RanInv
    <3>6. WaitInv'
      <4>1. Before'.op \notin Deploys \cup Addressed /\ Before'.op # "install"
        BY <1>1, <2>13 DEF Deploys, Addressed
      <4> QED
        BY <2>6, <4>1 DEF WaitInv
    <3>7. PoolInv'
      <4>1. DOMAIN mempool' = {}
        BY <1>1, <2>12
      <4> QED
        BY <4>1 DEF PoolInv
    <3> QED
      BY <3>2, <3>5, <3>6, <3>7 DEF WorkInv
  <2> QED
    BY <2>23, <2>24, <2>25, <2>26 DEF WiredInv
<1> QED
  BY <1>2, <1>3

-----------------------------------------------------------------------------

\* With the chain and the file as they are, what is done stays done.
LEMMA ChainKeeps ==
  ASSUME DeploymentInv, WiredInv, UNCHANGED <<contracts, mempool, file>>
  PROVE  /\ WiringInv'
         /\ \A o : OpDone(o) => OpDone(o)'
         /\ done' \in Nat /\ done' <= done => DoneInv'
<1>1. WiringInv'
  BY DEF WiredInv, WiringInv, Deployed
<1>2. \A o : OpDone(o) => OpDone(o)'
  BY PoolGrows
<1>3. ASSUME done' \in Nat, done' <= done PROVE DoneInv'
  <2>1. /\ done \in Nat /\ (done' >= 5 => done >= 5) /\ \A i \in 1..done' : i \in 1..done
    <3>1. done \in Nat
      BY PlannedScripts DEF WiredInv, ProgressInv
    <3> QED
      BY <1>3, <3>1
  <2> QED
    BY <1>2, <2>1 DEF WiredInv, DoneInv, IsLive
<1> QED
  BY <1>1, <1>2, <1>3

\* The next step of the command line is the next of the plan (StartScript).
LEMMA StartIsWired ==
  ASSUME DeploymentInv, WiredInv, StartScript
  PROVE  WiredInv'
<1>1. /\ UNCHANGED <<contracts, mempool, file, done>> /\ ~Running /\ todo # <<>> /\ todo' = Tail(todo)
      /\ script' = [step |-> Head(todo), pc |-> 1, entries |-> <<>>, address |-> 0, sent |-> 0]
  BY DEF StartScript, NoScript, chain, operator
<1>2. /\ done \in Nat /\ done <= Len(Plan) /\ Len(Plan) \in Nat
  BY PlannedScripts DEF WiredInv, ProgressInv
<1>3. WiringInv' /\ DoneInv'
  BY <1>1, <1>2, ChainKeeps
<1>4. WorkInv'
  BY <1>1 DEF WorkInv
<1>5. ProgressInv'
  <2>1. /\ todo \in Seq(DOMAIN Script) /\ Len(todo) \in Nat /\ Len(todo) >= 1 /\ Head(todo) = todo[1]
        /\ Len(Tail(todo)) = Len(todo) - 1 /\ \A i \in 1..(Len(todo) - 1) : Tail(todo)[i] = todo[i + 1]
    BY <1>1 DEF DeploymentInv
  <2>2. ASSUME Follows(todo, done)
        PROVE  done < Len(Plan) /\ Plan[done + 1] = Head(todo) /\ Follows(Tail(todo), done + 1)
    <3>1. \A i \in 1..Len(todo) : done + i <= Len(Plan) /\ todo[i] = Plan[done + i]
      BY <2>2 DEF Follows
    <3>2. done + 1 <= Len(Plan) /\ Plan[done + 1] = Head(todo)
      BY <2>1, <3>1
    <3>3. ASSUME NEW i \in 1..Len(Tail(todo))
          PROVE  done + 1 + i <= Len(Plan) /\ Tail(todo)[i] = Plan[done + 1 + i]
      <4>1. i + 1 \in 1..Len(todo) /\ i \in 1..(Len(todo) - 1) /\ done + (i + 1) = done + 1 + i
        BY <1>2, <2>1
      <4> QED
        BY <2>1, <3>1, <4>1
    <3> QED
      BY <1>2, <3>2, <3>3 DEF Follows
  <2>3. ASSUME NEW step \in DOMAIN Script \ Planned, todo = <<step>>
        PROVE  Head(todo) \notin Planned /\ Tail(todo) = <<>>
    BY <2>3
  <2>4. script'.step = Head(todo)
    BY <1>1
  <2>5. Follows(todo, done) \/ \E step \in DOMAIN Script \ Planned : todo = <<step>>
    BY <1>1 DEF WiredInv, ProgressInv
  <2>6. Running'
    <3>1. "" \notin DOMAIN Script
      BY DEF Script
    <3>2. Head(todo) \in DOMAIN Script
      BY <2>1
    <3> QED
      BY <2>4, <3>1, <3>2 DEF Running
  <2>8. done' \in 0..Len(Plan)
    BY <1>1, <1>2
  <2>9. CASE Follows(todo, done)
    <3>1. done' < Len(Plan) /\ Plan[done' + 1] = script'.step
      BY <1>1, <2>2, <2>4, <2>9
    <3>2. Follows(todo, done + 1)'
      BY <1>1, <2>2, <2>9 DEF Follows
    <3> QED
      BY <2>6, <2>8, <3>1, <3>2 DEF ProgressInv
  <2>10. CASE \E step \in DOMAIN Script \ Planned : todo = <<step>>
    <3>1. script'.step \notin Planned /\ todo' = <<>>
      BY <1>1, <2>3, <2>4, <2>10
    <3> QED
      BY <2>6, <2>8, <3>1 DEF ProgressInv
  <2> QED
    BY <2>5, <2>9, <2>10
<1> QED
  BY <1>3, <1>4, <1>5 DEF WiredInv

\* loadState (Load) has the newest entry in memory.
LEMMA LoadIsWired ==
  ASSUME DeploymentInv, WiredInv, Load
  PROVE  WiredInv'
<1>1. /\ UNCHANGED <<contracts, mempool, file, done>> /\ Running /\ ~Finished /\ At.op \in Loads
      /\ IF At.op = "loadEntry" /\ file = <<>> THEN Fail ELSE Go([script EXCEPT !.entries = file])
  BY DEF Load, Executing, Loads, chain, operator
<1>2. CASE Fail
  BY <1>1, <1>2, StoppedIsWired
<1>3. CASE ~(At.op = "loadEntry" /\ file = <<>>) /\ Go([script EXCEPT !.entries = file])
  <2>1. Advances(file)
    BY <1>3, GoAdvances DEF DeploymentInv
  <2>2. script.pc = 1
    BY <1>1, Positions DEF DeploymentInv
  <2>3. /\ script'.step = script.step /\ script'.pc = 2 /\ script'.entries = file
        /\ script'.sent = 0 /\ todo' = todo
    BY <2>1, <2>2 DEF Advances
  <2>4. PICK o : o = At
    OBVIOUS
  <2>5. /\ Here[1] = o /\ Here' = Here /\ Running' = Running /\ Before' = o
    <3>1. At = Here[1] /\ Here' = Here /\ Running' = Running
      BY <1>1, <2>2, <2>3, HereIs DEF Here, Running
    <3>2. script'.pc - 1 = 1
      BY <2>3
    <3> QED
      BY <2>4, <3>1, <3>2 DEF Before
  <2>6. /\ o.op \notin Deploys \cup Addressed \cup Giving /\ o.op # "record" /\ o.op # "install"
        /\ \A n \in 1..1 : n = 1
    BY <1>1, <2>4 DEF Loads, Deploys, Addressed, Giving
  <2>7. WiringInv' /\ DoneInv'
    <3>1. done \in Nat
      BY PlannedScripts DEF WiredInv, ProgressInv
    <3> QED
      BY <1>1, <3>1, ChainKeeps
  <2>8. ProgressInv'
    BY <1>1, <2>3, <2>5 DEF WiredInv, ProgressInv, Follows
  <2>9. \A n \in 1..(script'.pc - 1) : Here'[n] = o
    BY <2>3, <2>5
  <2>10. NewestInv'
    BY <1>1, <1>3, <2>3, <2>4, <2>5, <2>6, <2>9 DEF NewestInv
  <2>11. RanInv'
    <3>1. OpDone(o)'
      BY <2>6 DEF OpDone, Uses, Addressed
    <3> QED
      BY <2>9, <3>1 DEF RanInv
  <2>12. WaitInv'
    BY <2>3, <2>5, <2>6 DEF WaitInv
  <2>13. PoolInv'
    BY <2>6, <2>9 DEF PoolInv
  <2> QED
    BY <2>7, <2>8, <2>10, <2>11, <2>12, <2>13 DEF WiredInv, WorkInv
<1> QED
  BY <1>1, <1>2, <1>3

\* startNewEntry (StartNewEntry) is an operation of base, which nothing was done before.
LEMMA StartNewEntryIsWired ==
  ASSUME DeploymentInv, WiredInv, StartNewEntry
  PROVE  WiredInv'
<1> DEFINE entries == <<NoEntry>> \o script.entries
<1>1. /\ UNCHANGED <<contracts, mempool, file, done>> /\ Running /\ ~Finished /\ At.op = "startNewEntry"
      /\ Go([script EXCEPT !.entries = entries])
  <2>1. Go([script EXCEPT !.entries = <<NoEntry>> \o @])
    BY DEF StartNewEntry
  <2> QED
    BY <2>1 DEF StartNewEntry, Executing, chain, operator, DeploymentInv, ScriptInv
<1>2. script.pc = 2 /\ script.entries = file
  BY <1>1, Positions DEF DeploymentInv, ScriptInv
<1>3. entries # file
  <2>1. PICK S : file \in Seq(S)
    BY DEF DeploymentInv, Sound, IsList
  <2>2. PICK e : e = NoEntry
    OBVIOUS
  <2>3. <<e>> \in Seq(S \cup {e}) /\ file \in Seq(S \cup {e})
    BY <2>1
  <2>4. Len(<<e>> \o file) = Len(file) + 1 /\ Len(file) \in Nat
    BY <2>3
  <2> QED
    BY <1>2, <2>2, <2>4
<1> HIDE DEF entries
<1>4. Advances(entries)
  BY <1>1, GoAdvances DEF DeploymentInv
<1>5. script.step = "base"
  BY <1>1, OrdinaryPosition
<1>6. /\ script'.step = "base" /\ script'.pc = 3 /\ script'.entries = entries
      /\ script'.sent = 0 /\ todo' = todo /\ script'.step = script.step
  BY <1>2, <1>4, <1>5 DEF Advances
<1>7. PICK o : o = At
  OBVIOUS
<1>8. /\ Here[1].op \in Loads /\ Here[2] = o /\ Here' = Here /\ Running' = Running /\ Before' = o
  <2>1. At = Here[2] /\ Here' = Here /\ Running' = Running
    BY <1>1, <1>2, <1>6, HereIs DEF Here, Running
  <2>2. script'.pc - 1 = 2
    BY <1>6
  <2>3. Here[1].op \in Loads
    BY <1>1, HereIs
  <2> QED
    BY <1>7, <2>1, <2>2, <2>3 DEF Before
<1>9. /\ o.op \notin Deploys \cup Addressed /\ o.op # "record" /\ o.op # "install"
      /\ "record" \notin Loads
  BY <1>1, <1>7 DEF Loads, Deploys, Addressed
<1>10. WiringInv' /\ DoneInv'
  <2>1. done \in Nat
    BY PlannedScripts DEF WiredInv, ProgressInv
  <2> QED
    BY <1>1, <2>1, ChainKeeps
<1>11. ProgressInv'
  BY <1>1, <1>6, <1>8 DEF WiredInv, ProgressInv, Follows
<1>12. \A n \in 1..(script'.pc - 1) : Here'[n].op # "record"
  <2>1. \A n \in 1..(script'.pc - 1) : n = 1 \/ n = 2
    BY <1>6
  <2> QED
    BY <1>8, <1>9, <2>1
<1>13. Blank'
  BY <1>1, <1>3, <1>6 DEF Blank
<1>14. NewestInv'
  BY <1>6, <1>12 DEF NewestInv
<1>15. RanInv'
  BY <1>13 DEF RanInv
<1>16. WaitInv'
  BY <1>6, <1>8, <1>9 DEF WaitInv
<1>17. PoolInv'
  BY <1>12 DEF PoolInv
<1> QED
  BY <1>10, <1>11, <1>14, <1>15, <1>16, <1>17 DEF WiredInv, WorkInv

-----------------------------------------------------------------------------

\* A script that comes to its end has done all it had to do.
LEMMA FinishedIsDone ==
  ASSUME DeploymentInv, WiredInv, Finished, file # <<>>,
         done < Len(Plan), Plan[done + 1] = script.step
  PROVE  \A n \in 1..Len(Here) : OpDone(Here[n])
<1>1. /\ Running /\ Len(Here) \in Nat /\ Len(Here) >= 1 /\ script.pc = Len(Here) + 1
  BY HereIs DEF Finished
<1>2. script.pc > 1 /\ script.pc - 1 = Len(Here)
  BY <1>1
<1>3. NewestInv /\ RanInv
  BY <1>1, <1>2 DEF WiredInv, WorkInv
<1>4. ~Blank
  <2> SUFFICES ASSUME Blank PROVE FALSE
    OBVIOUS
  <2>1. script.step = "base" /\ \A n \in 1..Len(Here) : Here[n].op # "record"
    BY <1>2, <1>3 DEF NewestInv, Blank
  <2>2. Level("DAO") = 1 /\ Plan[1] = "base"
    BY Levels, PlanFacts DEF BaseNames
  <2>3. Records(Script[Plan[Level("DAO")]], Len(Script[Plan[Level("DAO")]]), "DAO")
    <3>1. Level("DAO") \in 1..5
      BY <2>2
    <3> QED
      BY ONLY <3>1, PlanRecordsAndStarts
  <2>4. Records(Here, Len(Here), "DAO")
    BY <2>1, <2>2, <2>3 DEF Here
  <2> QED
    BY <2>1, <2>4 DEF Records
<1>5. \A n \in 1..Len(Here) : Here[n].op = "install" => n < Len(Here)
  BY <1>1, OrderHere DEF InOrder
<1> QED
  BY <1>2, <1>3, <1>4, <1>5 DEF RanInv

\* When crosschain has waited for its last transaction, so has everybody.
LEMMA NothingIsOnItsWay ==
  ASSUME DeploymentInv, WiredInv, Finished, done = 4, Plan[done + 1] = script.step
  PROVE  mempool = <<>>
<1>1. /\ Running /\ Len(Here) \in Nat /\ Len(Here) >= 1 /\ script.pc = Len(Here) + 1
  BY HereIs DEF Finished
<1>2. script.pc > 1 /\ script.pc - 1 = Len(Here) /\ script.sent = 0
  BY <1>1 DEF DeploymentInv, ScriptInv
<1>3. Here = Crosschain
  <2>1. Plan[5] = "crosschain" /\ done + 1 = 5
    BY PlanFacts
  <2>2. script.step = "crosschain"
    BY <2>1
  <2>3. Script["crosschain"] = Crosschain
    BY DEF Script
  <2> QED
    BY <2>2, <2>3 DEF Here
<1>4. Before.op = "price"
  BY <1>2, <1>3, OrderlyCrosschain DEF Before
<1>5. "price" \in (Deploys \cup Addressed) \ {"sendInitialize"}
  BY DEF Addressed
<1> QED
  BY <1>1, <1>2, <1>4, <1>5 DEF WiredInv, WorkInv, WaitInv

\* A step that ends (Finish) was all done, and crosschain has emptied the pool.
LEMMA FinishIsWired ==
  ASSUME DeploymentInv, WiredInv, Finish
  PROVE  WiredInv'
<1>1. /\ UNCHANGED <<contracts, mempool, file, todo>> /\ Running /\ Finished
      /\ done' = IF done < Len(Plan) /\ Plan[done + 1] = script.step THEN done + 1 ELSE done
      /\ ~Running'
  BY DEF Finish, Finished, chain, Running, NoScript
<1>2. /\ done \in Nat /\ done <= Len(Plan) /\ Len(Plan) \in Nat /\ Len(Plan) >= 5
  BY PlannedScripts DEF WiredInv, ProgressInv
<1>3. /\ WiringInv' /\ \A o : OpDone(o) => OpDone(o)'
  BY <1>1, ChainKeeps
<1>4. WorkInv'
  BY <1>1 DEF WorkInv
<1>5. CASE done < Len(Plan) /\ Plan[done + 1] = script.step
  <2>1. done' = done + 1 /\ done' \in 0..Len(Plan) /\ done + 1 \in 1..Len(Plan)
    BY <1>1, <1>2, <1>5
  <2>2. script.step \in Planned
    BY <1>5, <2>1 DEF Planned
  <2>3. Follows(todo, done + 1)
    BY <1>1, <2>2 DEF WiredInv, ProgressInv
  <2>4. ProgressInv'
    BY <1>1, <2>1, <2>3 DEF ProgressInv, Follows
  <2>5. ASSUME file # <<>> PROVE DoneInv'
    <3>1. DoneInv /\ \A n \in 1..Len(Here) : OpDone(Here[n])
      BY <1>1, <1>5, <2>5, FinishedIsDone DEF WiredInv
    <3>2. \A i \in 1..done' : i \in 1..done \/ i = done + 1
      BY <1>2, <2>1
    <3>3. ASSUME NEW i \in 1..done', NEW n \in 1..Len(Script[Plan[i]]) PROVE OpDone(Script[Plan[i]][n])
      <4>1. CASE i \in 1..done
        BY <2>5, <3>1, <3>3, <4>1 DEF DoneInv
      <4>2. CASE i = done + 1
        <5>1. Script[Plan[i]] = Here
          BY <1>5, <4>2 DEF Here
        <5> QED
          BY <3>1, <3>3, <5>1
      <4> QED
        BY <3>2, <4>1, <4>2
    <3>4. ASSUME done' >= 5, NEW i \in 1..5, NEW n \in 1..Len(Script[Plan[i]]), NEW o, o = Script[Plan[i]][n],
                 o.op = "sendInitialize", o.key \notin Standalone
          PROVE  IsLive(file[1][o.key])
      <4>1. CASE done >= 5
        BY <2>5, <3>1, <3>4, <4>1 DEF DoneInv
      <4>2. CASE ~(done >= 5)
        <5>1. done = 4 /\ i \in 1..done'
          BY <1>2, <2>1, <3>4, <4>2
        <5>2. mempool = <<>>
          BY <1>1, <1>5, <5>1, NothingIsOnItsWay
        <5>3. DOMAIN mempool = {}
          BY <5>2
        <5>4. OpDone(o)
          BY <3>3, <3>4, <5>1
        <5>5. Holds(file[1][o.key], o.args)
          BY <3>4, <5>3, <5>4 DEF OpDone, OnItsWay
        <5> QED
          BY <5>5 DEF Holds
      <4> QED
        BY <4>1, <4>2
    <3>5. \A i \in 1..done' : \A n \in 1..Len(Script[Plan[i]]) : OpDone(Script[Plan[i]][n])'
      BY <1>3, <3>3
    <3>6. \A k \in DOMAIN file[1] : Level(k) \in 1..6
      BY <2>5, <3>1 DEF DoneInv
    <3> QED
      BY <1>1, <3>4, <3>5, <3>6 DEF DoneInv, IsLive
  <2>6. ASSUME file = <<>> PROVE DoneInv'
    BY <1>1, <2>6 DEF DoneInv
  <2> QED
    BY <1>3, <1>4, <2>4, <2>5, <2>6 DEF WiredInv
<1>6. CASE ~(done < Len(Plan) /\ Plan[done + 1] = script.step)
  <2>1. done' = done
    BY <1>1, <1>6
  <2>2. DoneInv'
    BY <1>1, <1>2, <2>1, ChainKeeps
  <2>3. todo = <<>>
    BY <1>1, <1>6 DEF WiredInv, ProgressInv
  <2>4. ProgressInv'
    BY <1>1, <1>2, <2>1, <2>3 DEF ProgressInv, Follows
  <2> QED
    BY <1>3, <1>4, <2>2, <2>4 DEF WiredInv
<1> QED
  BY <1>5, <1>6

-----------------------------------------------------------------------------

\* The operator at the prompt has something run that the plan has next, from
\* where it is completed, or a step of no plan.
LEMMA PromptIsWired ==
  ASSUME DeploymentInv, WiredInv, ~Running, UNCHANGED <<contracts, mempool, file, script>>,
         done' \in Nat, done' <= done,
         Follows(todo', done') \/ \E step \in DOMAIN Script \ Planned : todo' = <<step>>
  PROVE  WiredInv'
<1>1. WiringInv' /\ DoneInv'
  BY ChainKeeps
<1>2. ~Running' /\ WorkInv'
  BY DEF Running, WorkInv
<1>3. done' \in 0..Len(Plan)
  BY PlannedScripts DEF WiredInv, ProgressInv
<1>4. Follows(todo', done') => Follows(todo, done)'
  BY DEF Follows
<1>5. ProgressInv'
  BY <1>2, <1>3, <1>4 DEF ProgressInv
<1> QED
  BY <1>1, <1>2, <1>5 DEF WiredInv

\* Resuming and starting over (Resume, StartOver) run the plan from what is completed.
LEMMA OperatorIsWired ==
  ASSUME DeploymentInv, WiredInv, OperatorStep
  PROVE  WiredInv'
<1>1. done \in Nat /\ done <= Len(Plan) /\ Len(Plan) \in Nat /\ Plan \in Seq(DOMAIN Script)
  BY PlannedScripts, PlanFacts DEF WiredInv, ProgressInv
<1>2. CASE StartOver
  <2>1. ~Running /\ UNCHANGED <<contracts, mempool, file, script>> /\ done' = 0 /\ todo' = Plan
    BY <1>2 DEF StartOver, AtPrompt, chain
  <2>2. Follows(todo', done')
    BY <1>1, <2>1 DEF Follows
  <2>3. done' \in Nat /\ done' <= done
    BY <1>1, <2>1
  <2> QED
    BY <2>1, <2>2, <2>3, PromptIsWired
<1>3. ASSUME NEW i \in 2..Len(Plan), Resume(i) PROVE WiredInv'
  <2>1. /\ ~Running /\ UNCHANGED <<contracts, mempool, file, script>>
        /\ done' = i - 1 /\ i \in {done, done + 1} /\ todo' = SubSeq(Plan, i, Len(Plan))
    BY <1>3 DEF Resume, AtPrompt, chain
  <2>2. done' \in Nat /\ done' <= done
    BY <1>1, <2>1
  <2>3. Follows(todo', done')
    <3>1. /\ Len(todo') = Len(Plan) - i + 1
          /\ \A j \in 1..(Len(Plan) - i + 1) : todo'[j] = Plan[i + j - 1]
      BY <1>1, <2>1
    <3>2. \A j \in 1..(Len(Plan) - i + 1) : done' + j <= Len(Plan) /\ done' + j = i + j - 1
      BY <1>1, <2>1
    <3> QED
      BY <3>1, <3>2 DEF Follows
  <2> QED
    BY <2>1, <2>2, <2>3, PromptIsWired
<1> QED
  BY <1>2, <1>3 DEF OperatorStep

\* Another target (RunTarget) runs a step again, and the later ones have to follow.
LEMMA TargetIsWired ==
  ASSUME DeploymentInv, WiredInv, NEW steps \in SideTargets, RunTarget(steps)
  PROVE  WiredInv'
<1>1. done \in Nat /\ done <= Len(Plan) /\ Len(Plan) \in Nat /\ DOMAIN Plan = 1..Len(Plan)
  BY PlannedScripts, PlanFacts DEF WiredInv, ProgressInv
<1>2. PICK step \in DOMAIN Script : steps = <<step>>
  BY PlanAssumption
<1> DEFINE again == {i \in DOMAIN Plan : Plan[i] = step}
           S == {i - 1 : i \in again}
           T == {done} \cup S
<1>3. /\ ~Running /\ UNCHANGED <<contracts, mempool, file, script>>
      /\ done = Len(Plan) /\ todo' = <<step>> /\ done' = Min(T)
  <2>1. \A i \in DOMAIN Plan : Contains(steps, Plan[i]) <=> Plan[i] = step
    BY <1>2 DEF Contains
  <2>2. {i \in DOMAIN Plan : Contains(steps, Plan[i])} = again
    BY <2>1
  <2>3. done' = Min({done} \cup {i - 1 : i \in {i \in DOMAIN Plan : Contains(steps, Plan[i])}})
    BY DEF RunTarget
  <2> QED
    BY <1>2, <2>2, <2>3 DEF RunTarget, AtPrompt, chain
<1>4. S \subseteq 0..(Len(Plan) - 1)
  BY <1>1
<1>5. T \subseteq Nat /\ done \in T /\ IsFiniteSet(T)
  <2>1. IsFiniteSet(0..Len(Plan))
    BY <1>1, FS_Interval
  <2>2. T \subseteq 0..Len(Plan)
    BY <1>1, <1>4
  <2>3. IsFiniteSet(T)
    BY <2>1, <2>2, FS_Subset
  <2> QED
    BY <1>1, <2>2, <2>3
<1>6. done' \in T /\ \A x \in T : done' <= x
  <2> HIDE DEF T
  <2>1. \E x \in T : \A y \in T : x <= y
    <3>1. T \subseteq Int /\ T # {}
      BY <1>5
    <3> QED
      BY <1>5, <3>1, LeastOfFinite
  <2> QED
    BY <1>3, <2>1 DEF Min
<1>7. done' \in Nat /\ done' <= done
  BY <1>5, <1>6
<1>8. CASE step \in Planned
  <2>1. PICK j \in 1..Len(Plan) : Plan[j] = step
    BY <1>8 DEF Planned
  <2>2. j - 1 \in T
    BY <1>1, <2>1
  <2>3. done' # done
    <3>1. done' <= j - 1
      BY ONLY <1>6, <2>2
    <3> HIDE DEF T
    <3> QED
      BY <1>1, <1>3, <1>7, <2>1, <3>1
  <2>4. PICK i \in 1..Len(Plan) : Plan[i] = step /\ done' = i - 1
    BY <1>1, <1>6, <2>3
  <2>5. Follows(todo', done')
    <3>1. Len(todo') = 1 /\ todo'[1] = step
      BY <1>3
    <3>2. done' + 1 <= Len(Plan) /\ Plan[done' + 1] = step /\ \A m \in 1..1 : m = 1
      BY <1>1, <2>4
    <3> QED
      BY <3>1, <3>2 DEF Follows
  <2> QED
    BY <1>3, <1>7, <2>5, PromptIsWired
<1>9. CASE step \notin Planned
  <2>1. \E s \in DOMAIN Script \ Planned : todo' = <<s>>
    BY <1>2, <1>3, <1>9
  <2> QED
    BY <1>3, <1>7, <2>1, PromptIsWired
<1> QED
  BY <1>8, <1>9

\* The operations the scripts of the newest entry have run stay done, whatever
\* was interrupted and mined later: what they used is recorded as it was used,
\* and the contracts were given it, or will be by the next call to them.
THEOREM WiredInvariant == Spec => []WiredInv
<1>1. Init => WiredInv
  <2> SUFFICES ASSUME Init PROVE WiredInv
    OBVIOUS
  <2>1. /\ DOMAIN contracts = {} /\ DOMAIN mempool = {} /\ mempool = <<>> /\ file = <<>> /\ todo = <<>> /\ done = 0
        /\ ~Running
    <3>1. /\ contracts = [a \in {} |-> NoEntry] /\ script = NoScript
          /\ mempool = <<>> /\ file = <<>> /\ todo = <<>> /\ done = 0
      BY DEF Init
    <3>2. script.step = ""
      BY <3>1 DEF NoScript
    <3>3. DOMAIN contracts = {}
      BY <3>1
    <3>4. DOMAIN mempool = {}
      BY <3>1
    <3> QED
      BY <3>1, <3>2, <3>3, <3>4 DEF Running
  <2>2. ProgressInv
    <3>1. done \in 0..Len(Plan)
      BY <2>1, PlannedScripts
    <3> QED
      BY <2>1, <3>1 DEF ProgressInv, Follows
  <2>3. WiringInv /\ DoneInv /\ WorkInv
    BY <2>1 DEF WiringInv, DoneInv, WorkInv
  <2> QED
    BY <2>2, <2>3 DEF WiredInv
<1>2. DeploymentInv /\ WiredInv /\ [Next]_vars => WiredInv'
  <2> SUFFICES ASSUME DeploymentInv, WiredInv, [Next]_vars PROVE WiredInv'
    OBVIOUS
  <2>1. CASE ScriptStep
    BY <2>1, StartIsWired, LoadIsWired, StartNewEntryIsWired, CheckIsWired, RecordIsWired, SendIsWired,
       AwaitIsWired, FinishIsWired DEF ScriptStep
  <2>2. CASE Mine
    BY <2>2, MineIsWired
  <2>3. CASE Crash
    <3>1. Fail /\ UNCHANGED <<contracts, mempool, done>> /\ (file' = file \/ file' = <<>>)
      BY <2>3 DEF Crash, chain
    <3> QED
      BY <3>1, StoppedIsWired
  <2>4. CASE OperatorStep
    BY <2>4, OperatorIsWired
  <2>5. CASE \E steps \in SideTargets : RunTarget(steps)
    BY <2>5, TargetIsWired
  <2>6. CASE UNCHANGED vars
    <3>1. UNCHANGED <<contracts, mempool, reverted, nonce, file, script, todo, done>>
      BY <2>6 DEF vars, chain, operator
    <3>2. WiringInv' /\ DoneInv'
      <4>1. done \in Nat
        BY PlannedScripts DEF WiredInv, ProgressInv
      <4> QED
        BY <3>1, <4>1, ChainKeeps
    <3>3. Running' = Running /\ Here' = Here
      BY <3>1 DEF Running, Here
    <3>4. ProgressInv'
      BY <3>1, <3>3 DEF WiredInv, ProgressInv, Follows
    <3>5. WorkInv'
      <4>1. Blank' = Blank /\ Before' = Before /\ At' = At
        BY <3>1, <3>3 DEF Blank, Before, At
      <4> SUFFICES ASSUME Running, script.pc > 1 PROVE NewestInv' /\ RanInv' /\ WaitInv' /\ PoolInv'
        BY <3>1, <3>3 DEF WorkInv
      <4>2. NewestInv /\ RanInv /\ WaitInv /\ PoolInv
        BY DEF WiredInv, WorkInv
      <4>3. NewestInv' /\ PoolInv'
        BY <3>1, <3>3, <4>1, <4>2 DEF NewestInv, PoolInv
      <4>4. RanInv'
        <5>1. \A o : OpDone(o) => OpDone(o)'
          BY <3>1, ChainKeeps
        <5> QED
          BY <3>1, <3>3, <4>1, <4>2, <5>1 DEF RanInv
      <4>5. WaitInv'
        BY <3>1, <4>1, <4>2 DEF WaitInv, IsCall, Effect, Holds, IsLive
      <4> QED
        BY <4>3, <4>4, <4>5
    <3> QED
      BY <3>2, <3>4, <3>5 DEF WiredInv
  <2> QED
    BY <2>1, <2>2, <2>3, <2>4, <2>5, <2>6 DEF Next
<1> QED
  BY <1>1, <1>2, DeploymentInvariant, PTL DEF Spec

-----------------------------------------------------------------------------

\* Only the first five steps of the plan give a contract addresses, one of a
\* name of theirs.
LEMMA GivenInFive ==
  ASSUME NEW i \in 1..Len(Plan), NEW n \in 1..Len(Script[Plan[i]]), NEW o, o = Script[Plan[i]][n],
         NEW d \in o.args, o.key # ""
  PROVE  i \in 1..5 /\ o.key \notin Standalone /\ o.op \in {"install", "initialize", "sendInitialize", "wire"}
<1>1. Plan[i] \in DOMAIN Script /\ Rank(Plan[i]) = (IF i < 6 THEN i ELSE 6)
  BY ONLY PlannedScripts
<1>2. Fits(o, Rank(Plan[i])) /\ (Rank(Plan[i]) = 6 => Uses(o) = {})
  BY <1>1, ScriptsInOrder
<1>3. o.key \notin Standalone /\ o.op \in {"install", "initialize", "sendInitialize", "wire"}
  BY <1>2 DEF Fits
<1>4. d \in Uses(o)
  BY <1>3 DEF Uses, Giving, Addressed
<1>5. Rank(Plan[i]) # 6
  BY <1>2, <1>4
<1>6. Len(Plan) \in Nat
  BY PlannedScripts
<1>7. i \in 1..5
  BY ONLY <1>1, <1>5, <1>6, i \in 1..Len(Plan)
<1> QED
  BY <1>3, <1>7

\* What a contract is given by the plan, an operation gives it.
LEMMA OperationsThatGive ==
  \A k : \A d \in GivenBy(k) : \E i \in 1..Len(Plan) : \E n \in 1..Len(Script[Plan[i]]) :
    Script[Plan[i]][n].key = k /\ d \in Script[Plan[i]][n].args
<1> SUFFICES ASSUME NEW k, NEW d \in GivenBy(k)
             PROVE  \E i \in 1..Len(Plan) : \E n \in 1..Len(Script[Plan[i]]) :
                      Script[Plan[i]][n].key = k /\ d \in Script[Plan[i]][n].args
  OBVIOUS
<1>1. PICK i \in DOMAIN Plan : \E n \in DOMAIN Script[Plan[i]] :
        Script[Plan[i]][n].key = k /\ d \in Script[Plan[i]][n].args
  BY DEF GivenBy
<1>2. i \in 1..Len(Plan) /\ Plan[i] \in DOMAIN Script
  BY PlanFacts
<1>3. Script[Plan[i]] \in Seq(Ops)
  BY <1>2, ScriptsInOrder
<1>4. DOMAIN Script[Plan[i]] = 1..Len(Script[Plan[i]])
  BY <1>3
<1> QED
  BY <1>1, <1>2, <1>4

\* When crosschain has completed, what is recorded in the newest entry is
\* initialized, also by the calls nobody waited for, and holds the addresses of
\* that entry, whatever crashed, was run again from a step, or was redeployed.
THEOREM CompleteIsAlwaysWired == Spec => []CompleteIsWired
<1>1. DeploymentInv /\ WiredInv => CompleteIsWired
  <2> SUFFICES ASSUME DeploymentInv, WiredInv, CrosschainDone, file # <<>>, NEW k \in DOMAIN file[1],
                      NEW a, a = file[1][k]
               PROVE  /\ contracts[a].init
                      /\ DOMAIN contracts[a].wires = GivenBy(k)
                      /\ \A d \in DOMAIN contracts[a].wires : contracts[a].wires[d] = file[1][d]
    BY DEF CompleteIsWired
  <2>1. WiringInv /\ DoneInv /\ ProgressInv
    BY DEF WiredInv
  <2>2. a \in DOMAIN contracts /\ contracts[a].key = k
    <3>1. 1 \in DOMAIN file
      BY TailOfList DEF DeploymentInv, Sound
    <3> QED
      BY <3>1 DEF DeploymentInv, Sound, Deployed
  <2>3. done \in Nat /\ done >= 5
    <3>1. done \in Nat /\ done <= Len(Plan) /\ Len(Plan) \in Nat
      BY <2>1, PlannedScripts DEF ProgressInv
    <3>2. PICK i \in 1..done : Plan[i] = "crosschain"
      BY DEF CrosschainDone
    <3>3. i \in 1..Len(Plan)
      BY <3>1
    <3>4. Rank(Plan[i]) = IF i < 6 THEN i ELSE 6
      BY ONLY <3>3, PlannedScripts
    <3>5. Rank("crosschain") = 5
      BY DEF Rank
    <3> QED
      BY <3>1, <3>2, <3>3, <3>4, <3>5
  <2>4. /\ Level(k) \in 1..6
        /\ \A i \in 1..done : \A n \in 1..Len(Script[Plan[i]]) : OpDone(Script[Plan[i]][n])
        /\ \A i \in 1..5 : \A n \in 1..Len(Script[Plan[i]]) :
             LET o == Script[Plan[i]][n]
             IN  o.op = "sendInitialize" /\ o.key \notin Standalone => IsLive(file[1][o.key])
    BY <2>1, <2>3 DEF DoneInv
  <2>5. k # ""
    <3>1. "" \notin TreasureNames
      <4>1. \A i \in DOMAIN Treasures : "" \notin {Treasures[i].producer, Treasures[i].data}
        BY NamesAssumption DEF OtherNames
      <4> QED
        BY <4>1 DEF TreasureNames
    <3>2. "" \notin BaseNames \cup ProducerNames \cup TCashNames \cup USTNNames \cup CrosschainNames \cup Standalone
      BY <3>1 DEF BaseNames, ProducerNames, TCashNames, USTNNames, CrosschainNames, Standalone
    <3>3. Level("") = 7
      BY <3>2 DEF Level
    <3>4. Level(k) # 7
      BY ONLY <2>4
    <3> QED
      BY ONLY <3>3, <3>4
  <2>6. DOMAIN contracts[a].wires \subseteq GivenBy(k) /\ (k \in Standalone => contracts[a].init)
    BY <2>1, <2>2 DEF WiringInv
  <2>7. contracts[a].init
    <3>1. CASE k \in Standalone
      BY <2>6, <3>1
    <3>2. CASE k \notin Standalone
      <4>1. Level(k) \in 1..5
        <5>1. Level(k) # 6
          BY <3>2, Levels
        <5> QED
          BY <2>4, <5>1
      <4>2. PICK i \in 1..5 : Starts(Script[Plan[i]], Len(Script[Plan[i]]), k)
        BY <4>1, PlanRecordsAndStarts
      <4>3. PICK n \in 1..Len(Script[Plan[i]]) : Script[Plan[i]][n].op \in Starting /\ Script[Plan[i]][n].key = k
        BY <4>2 DEF Starts
      <4>4. PICK o : o = Script[Plan[i]][n]
        OBVIOUS
      <4>5. i \in 1..done
        BY <2>3
      <4>6. OpDone(o)
        BY <2>4, <4>4, <4>5
      <4>7. IsLive(file[1][k])
        <5>1. CASE o.op = "sendInitialize"
          BY <2>4, <3>2, <4>3, <4>4, <5>1
        <5>2. CASE o.op \in {"install", "initialize"}
          BY <3>2, <4>3, <4>4, <4>6, <5>2 DEF OpDone, Holds
        <5> QED
          BY <4>3, <4>4, <5>1, <5>2 DEF Starting
      <4> QED
        BY <4>7 DEF IsLive
    <3> QED
      BY <3>1, <3>2
  <2>8. ASSUME NEW d \in GivenBy(k)
        PROVE  d \in DOMAIN contracts[a].wires /\ contracts[a].wires[d] = file[1][d]
    <3>1. PICK i \in 1..Len(Plan) : \E n \in 1..Len(Script[Plan[i]]) :
            Script[Plan[i]][n].key = k /\ d \in Script[Plan[i]][n].args
      BY OperationsThatGive
    <3>2. PICK n \in 1..Len(Script[Plan[i]]) : Script[Plan[i]][n].key = k /\ d \in Script[Plan[i]][n].args
      BY <3>1
    <3>3. PICK o : o = Script[Plan[i]][n]
      OBVIOUS
    <3>4. o.key = k /\ d \in o.args
      BY <3>2, <3>3
    <3>5. i \in 1..5 /\ k \notin Standalone /\ o.op \in {"install", "initialize", "sendInitialize", "wire"}
      BY <2>5, <3>3, <3>4, GivenInFive
    <3>6. i \in 1..done
      BY <2>3, <3>5
    <3>7. OpDone(o)
      BY <2>4, <3>3, <3>6
    <3>8. ~OnItsWay(a, o.args)
      BY <2>7 DEF OnItsWay
    <3>9. Holds(a, o.args)
      BY <3>4, <3>5, <3>7, <3>8 DEF OpDone
    <3> QED
      BY <3>4, <3>9 DEF Holds
  <2> QED
    BY <2>6, <2>7, <2>8
<1> QED
  BY <1>1, DeploymentInvariant, WiredInvariant, PTL
=============================================================================
