---------------------------- MODULE AuthenProofs ----------------------------
(***************************************************************************)
(* Proofs about Authen, for any number of clients, names and rows.         *)
(*                                                                         *)
(* That a name has one session and one row, away from races, is not        *)
(* inductive.  Inv adds why: an open session keeps the flag of its row     *)
(* set, a login about to save is alone with its name and finds it without  *)
(* a session, a registration about to save is alone with a name that has   *)
(* no row, and the row id a client remembers is a row of its name.         *)
(***************************************************************************)
EXTENDS Authen, SequenceTheorems, TLAPS

(* The row a client remembers, where it is going to write to it.           *)
RowKnown ==
  \A c \in Client :
    pc[c] \in {"check", "save", "outsave"} => row[c] \in Rows(user[c])

(* A client past its scene of departure has been given a name.             *)
NameGiven == \A c \in Client : pc[c] \notin {"off", "login"} => user[c] \in Username

At(c, p, u) == pc[c] = p /\ user[c] = u

(* What holds of a name no two clients have raced for.                     *)
Orderly(u) ==
  /\ Unique(u)
  /\ AtMostOne(u)
  /\ \A c \in Client : Holds(c, u) => Exists(u) /\ \A i \in Rows(u) : table[i].isLogin = 1
  /\ \A c, d \in Client : At(c, "save", u) /\ At(d, "save", u) => c = d
  /\ \A c, d \in Client : ~ (At(c, "save", u) /\ Holds(d, u))
  /\ \A c, d \in Client : At(c, "insert", u) /\ At(d, "insert", u) => c = d
  /\ \A c \in Client : At(c, "insert", u) => ~ Exists(u)

Inv == TypeOK /\ RowKnown /\ NameGiven /\ \A u \in Username \ raced : Orderly(u)

-----------------------------------------------------------------------------
(* What the two ways of writing to the table do to its rows.               *)

LEMMA SetFlagFacts ==
  ASSUME TypeOK, NEW i \in DOMAIN table, NEW b \in {0, 1}, SetFlag(i, b)
  PROVE  /\ table' \in Seq(Row)
         /\ DOMAIN table' = DOMAIN table
         /\ \A j \in DOMAIN table :
              /\ table'[j].username = table[j].username
              /\ table'[j].isLogin = IF j = i THEN b ELSE table[j].isLogin
<1>1. table \in [1..Len(table) -> Row] /\ Len(table) \in Nat /\ DOMAIN table = 1..Len(table)
  BY DEF TypeOK
<1>2. table' = [table EXCEPT ![i].isLogin = b]
  BY DEF SetFlag
<1>3. table' \in [1..Len(table) -> Row]
  BY <1>1, <1>2 DEF Row
<1>4. table' \in Seq(Row)
  BY <1>1, <1>3, SeqDef
<1>5. DOMAIN table' = DOMAIN table
  BY <1>2
<1>6. ASSUME NEW j \in DOMAIN table
      PROVE  /\ table'[j].username = table[j].username
             /\ table'[j].isLogin = IF j = i THEN b ELSE table[j].isLogin
  BY <1>1, <1>2 DEF Row
<1>7. QED
  BY <1>4, <1>5, <1>6

LEMMA InsertFacts ==
  ASSUME TypeOK, NEW u \in Username,
         table' = Append(table, [username |-> u, isLogin |-> 0])
  PROVE  /\ table' \in Seq(Row)
         /\ DOMAIN table' = DOMAIN table \cup {Len(table) + 1}
         /\ Len(table) + 1 \notin DOMAIN table
         /\ table'[Len(table) + 1] = [username |-> u, isLogin |-> 0]
         /\ \A j \in DOMAIN table : table'[j] = table[j]
<1>1. [username |-> u, isLogin |-> 0] \in Row
  BY DEF Row
<1>2. table \in Seq(Row)
  BY DEF TypeOK
<1>3. QED
  BY <1>1, <1>2

-----------------------------------------------------------------------------
(* A name stays orderly when its rows do not change and no client gets     *)
(* into a session, or in front of a save, with it.                         *)
LEMMA OrderlyWithRows ==
  ASSUME NEW u, Orderly(u),
         Rows(u)' = Rows(u),
         \A i \in Rows(u) : table'[i] = table[i],
         \A d \in Client : /\ Holds(d, u)' => Holds(d, u)
                           /\ At(d, "save", u)' => At(d, "save", u)
                           /\ At(d, "insert", u)' => At(d, "insert", u)
  PROVE  Orderly(u)'
<1>1. (Unique(u) <=> Unique(u)') /\ (Exists(u) <=> Exists(u)')
  BY DEF Unique, Exists
<1>2. AtMostOne(u)'
  BY DEF Orderly, AtMostOne
<1>3. \A d \in Client : Holds(d, u)' =>
        Exists(u)' /\ \A i \in Rows(u)' : table'[i].isLogin = 1
  BY <1>1 DEF Orderly
<1>4. \A c, d \in Client : At(c, "save", u)' /\ At(d, "save", u)' => c = d
  BY DEF Orderly
<1>5. \A c, d \in Client : ~ (At(c, "save", u)' /\ Holds(d, u)')
  BY DEF Orderly
<1>6. \A c, d \in Client : At(c, "insert", u)' /\ At(d, "insert", u)' => c = d
  BY DEF Orderly
<1>7. \A c \in Client : At(c, "insert", u)' => ~ Exists(u)'
  BY <1>1 DEF Orderly
<1>8. Unique(u)'
  BY <1>1 DEF Orderly
<1>9. QED
  BY <1>2, <1>3, <1>4, <1>5, <1>6, <1>7, <1>8 DEF Orderly

LEMMA OrderlyKept ==
  ASSUME NEW u, Orderly(u), UNCHANGED table,
         \A d \in Client : /\ Holds(d, u)' => Holds(d, u)
                           /\ At(d, "save", u)' => At(d, "save", u)
                           /\ At(d, "insert", u)' => At(d, "insert", u)
  PROVE  Orderly(u)'
<1>1. Rows(u)' = Rows(u)
  BY DEF Rows
<1>2. QED
  BY <1>1, OrderlyWithRows

(* A step that leaves the table alone and enters no window before a save.  *)
LEMMA MoveStep ==
  ASSUME Inv, NEW c \in Client, NEW p \in Scene \ {"save", "insert"},
         UNCHANGED <<table, user, raced>>,
         pc' = [pc EXCEPT ![c] = p],
         p \in Holding => pc[c] \in Holding,
         p \notin {"off", "login"} => user[c] \in Username,
         row' \in [Client -> Nat],
         \A d \in Client \ {c} : row'[d] = row[d],
         p \in {"check", "outsave"} => row'[c] \in Rows(user[c]),
         why' \in [Client -> {"button", "init", "refresh"}]
  PROVE  Inv'
<1>1. \A d \in Client : pc'[d] = IF d = c THEN p ELSE pc[d]
  BY DEF Inv, TypeOK
<1>2. TypeOK'
  BY DEF Inv, TypeOK
<1>3. RowKnown'
  BY <1>1 DEF Inv, RowKnown, Rows
<1>4. NameGiven'
  BY <1>1 DEF Inv, NameGiven
<1>5. ASSUME NEW u \in Username \ raced PROVE Orderly(u)'
  <2>1. Orderly(u)
    BY DEF Inv
  <2>2. \A d \in Client : Holds(d, u)' => Holds(d, u)
    BY <1>1 DEF Holds
  <2>3. \A d \in Client : /\ At(d, "save", u)' => At(d, "save", u)
                          /\ At(d, "insert", u)' => At(d, "insert", u)
    BY <1>1 DEF At
  <2>4. QED
    BY <2>1, <2>2, <2>3, OrderlyKept
<1>6. QED
  BY <1>2, <1>3, <1>4, <1>5 DEF Inv

LEMMA MovingSteps ==
  ASSUME Inv, NEW c \in Client,
         Start(c) \/ Crash(c) \/ CallFails(c) \/ LoginFind(c) \/ Opened(c) \/ Logout(c) \/ LogoutFind(c)
  PROVE  Inv'
<1> DEFINE Reasons == {"button", "init", "refresh"}
<1>1. /\ row \in [Client -> Nat] /\ why \in [Client -> Reasons] /\ pc[c] \in Scene
      /\ DOMAIN table \subseteq Nat
      /\ pc[c] \notin {"off", "login"} => user[c] \in Username
  BY DEF Inv, TypeOK, NameGiven
<1>2. CASE Start(c) \/ Crash(c) \/ CallFails(c) \/ Opened(c)
  <2>1. UNCHANGED <<table, user, row, why, raced>>
    BY <1>2 DEF Start, Crash, CallFails, Opened
  <2>2. PICK p \in {"off", "login", "main"} :
          pc' = [pc EXCEPT ![c] = p] /\ (p = "main" => pc[c] \in Holding)
    BY <1>2 DEF Start, Crash, CallFails, Opened, Goto, Holding
  <2>3. p \in Scene \ {"save", "insert"} /\ (p \in Holding => pc[c] \in Holding)
        /\ (p \notin {"off", "login"} => user[c] \in Username)
    BY <1>1, <2>2 DEF Scene, Holding
  <2>4. QED
    BY <1>1, <2>1, <2>2, <2>3, MoveStep
<1>3. CASE Logout(c)
  <2>1. UNCHANGED <<table, user, row, raced>> /\ pc' = [pc EXCEPT ![c] = "outfind"]
        /\ pc[c] \in Holding /\ why' \in [Client -> Reasons]
    BY <1>1, <1>3 DEF Logout, Goto, Holding
  <2>2. "outfind" \in Scene \ {"save", "insert"} /\ user[c] \in Username
    BY <1>1, <2>1 DEF Scene, Holding
  <2>3. QED
    BY <1>1, <2>1, <2>2, MoveStep
<1>4. CASE LoginFind(c) \/ LogoutFind(c)
  <2>1. PICK i \in DOMAIN table : Find(user[c], i) /\ row' = [row EXCEPT ![c] = i]
    BY <1>4 DEF LoginFind, LogoutFind
  <2>2. PICK p \in {"login", "check", "outsave"} :
          pc' = [pc EXCEPT ![c] = p] /\ (p = "outsave" => pc[c] \in Holding)
    BY <1>4 DEF LoginFind, LogoutFind, Goto, Holding
  <2>3. row' \in [Client -> Nat] /\ row'[c] \in Rows(user[c])
        /\ \A d \in Client \ {c} : row'[d] = row[d]
    BY <1>1, <2>1 DEF Find
  <2>4. UNCHANGED <<table, user, why, raced>> /\ pc[c] \notin {"off", "login"}
    BY <1>4 DEF LoginFind, LogoutFind
  <2>5. p \in Scene \ {"save", "insert"} /\ (p \in Holding => pc[c] \in Holding)
    BY <2>2 DEF Scene, Holding
  <2>6. QED
    BY <1>1, <2>2, <2>3, <2>4, <2>5, MoveStep
<1>5. QED
  BY <1>2, <1>3, <1>4

LEMMA LoginStep ==
  ASSUME Inv, NEW c \in Client, NEW u \in Username, Login(c, u)
  PROVE  Inv'
<1>1. /\ pc[c] = "login" /\ UNCHANGED <<table, row, why, raced>>
      /\ \A d \in Client : /\ pc'[d] = IF d = c THEN "find" ELSE pc[d]
                           /\ user'[d] = IF d = c THEN u ELSE user[d]
  BY DEF Login, Goto, Inv, TypeOK
<1>2. TypeOK'
  BY DEF Login, Goto, Inv, TypeOK, Scene
<1>3. RowKnown' /\ NameGiven'
  BY <1>1 DEF Inv, RowKnown, NameGiven, Rows
<1>4. ASSUME NEW v \in Username \ raced PROVE Orderly(v)'
  <2>1. Orderly(v)
    BY DEF Inv
  <2>2. \A d \in Client : /\ Holds(d, v)' => Holds(d, v)
                          /\ At(d, "save", v)' => At(d, "save", v)
                          /\ At(d, "insert", v)' => At(d, "insert", v)
    BY <1>1 DEF Holds, Holding, At
  <2>3. QED
    BY <1>1, <2>1, <2>2, OrderlyKept
<1>5. QED
  BY <1>1, <1>2, <1>3, <1>4 DEF Inv

(* isLoggingIn said no: the login is alone before its save, or has raced.  *)
LEMMA LoginCheckStep ==
  ASSUME Inv, NEW c \in Client, LoginCheck(c)
  PROVE  Inv'
<1>1. PICK i \in DOMAIN table :
        /\ Find(user[c], i)
        /\ \/ FlagClear(i)   /\ Goto(c, "save")  /\ Race(c, "save")
           \/ ~ FlagClear(i) /\ Goto(c, "login") /\ UNCHANGED raced
  BY DEF LoginCheck
<1>2. pc[c] = "check" /\ UNCHANGED <<table, user, row, why>> /\ user[c] \in Username
  BY DEF LoginCheck, Inv, NameGiven
<1>3. CASE Goto(c, "login") /\ UNCHANGED raced
  <2>1. "login" \in Scene \ {"save", "insert"} /\ "login" \notin Holding
    BY DEF Scene, Holding
  <2>2. row \in [Client -> Nat] /\ why \in [Client -> {"button", "init", "refresh"}]
    BY DEF Inv, TypeOK
  <2>3. QED
    BY <1>2, <1>3, <2>1, <2>2, MoveStep DEF Goto
<1>4. CASE FlagClear(i) /\ Goto(c, "save") /\ Race(c, "save")
  <2>1. \A d \in Client : pc'[d] = IF d = c THEN "save" ELSE pc[d]
    BY <1>4 DEF Goto, Inv, TypeOK
  <2>2. raced \subseteq raced' /\ raced' \subseteq Username
        /\ (user[c] \notin raced' => ~ Meets(c, "save"))
    BY <1>2, <1>4 DEF Race, Inv, TypeOK
  <2>3. TypeOK'
    BY <1>2, <1>4, <2>2 DEF Goto, Inv, TypeOK, Scene
  <2>4. RowKnown' /\ NameGiven'
    BY <1>2, <2>1 DEF Inv, RowKnown, NameGiven, Rows
  <2>5. ASSUME NEW v \in Username \ raced' PROVE Orderly(v)'
    <3>1. Orderly(v)
      BY <2>2 DEF Inv
    <3>2. \A d \in Client : /\ Holds(d, v)' => Holds(d, v)
                            /\ At(d, "insert", v)' => At(d, "insert", v)
                            /\ At(d, "save", v)' => At(d, "save", v) \/ (d = c /\ v = user[c])
      BY <1>2, <2>1 DEF Holds, Holding, At
    <3>3. v = user[c] => /\ \A d \in Client : At(d, "save", v)' => d = c
                         /\ \A d \in Client : ~ Holds(d, v)
      <4>1. ASSUME v = user[c], NEW d \in Client, At(d, "save", v)'
            PROVE  d = c
        BY <1>2, <2>1, <2>2, <4>1 DEF Meets, At
      <4>2. ASSUME v = user[c], NEW d \in Client, Holds(d, v)
            PROVE  FALSE
        BY <1>1, <1>4, <3>1, <4>2 DEF Orderly, Find, FlagClear
      <4>3. QED
        BY <4>1, <4>2
    <3>4. CASE v # user[c]
      BY <1>2, <3>1, <3>2, <3>4, OrderlyKept
    <3>5. CASE v = user[c]
      <4>1. Rows(v)' = Rows(v)
        BY <1>2 DEF Rows
      <4>2. Unique(v)' /\ (Exists(v)' <=> Exists(v))
        BY <3>1, <4>1 DEF Orderly, Unique, Exists
      <4>3. \A d \in Client : ~ Holds(d, v)'
        BY <3>2, <3>3, <3>5
      <4>4. \A d, e \in Client : At(d, "insert", v)' /\ At(e, "insert", v)' => d = e
        BY <3>1, <3>2 DEF Orderly
      <4>5. \A d \in Client : At(d, "insert", v)' => ~ Exists(v)'
        BY <3>1, <3>2, <4>2 DEF Orderly
      <4>6. \A d, e \in Client : At(d, "save", v)' /\ At(e, "save", v)' => d = e
        BY <3>3, <3>5
      <4>7. AtMostOne(v)'
        BY <4>3 DEF AtMostOne
      <4>8. QED
        BY <4>2, <4>3, <4>4, <4>5, <4>6, <4>7 DEF Orderly
    <3>6. QED
      BY <3>4, <3>5
  <2>6. QED
    BY <2>3, <2>4, <2>5 DEF Inv
<1>5. QED
  BY <1>1, <1>3, <1>4

(* The save of a login: the only client before its save becomes the only   *)
(* session, and sets the flag of the only row.                             *)
LEMMA LoginSaveStep ==
  ASSUME Inv, NEW c \in Client, LoginSave(c)
  PROVE  Inv'
<1>1. /\ pc[c] = "save" /\ SetFlag(row[c], 1) /\ UNCHANGED <<user, row, why, raced>>
      /\ \A d \in Client : pc'[d] = IF d = c THEN "init" ELSE pc[d]
      /\ row[c] \in Rows(user[c])
  BY DEF LoginSave, Goto, Inv, TypeOK, RowKnown
<1>2. /\ table' \in Seq(Row)
      /\ DOMAIN table' = DOMAIN table
      /\ \A j \in DOMAIN table :
           /\ table'[j].username = table[j].username
           /\ table'[j].isLogin = IF j = row[c] THEN 1 ELSE table[j].isLogin
  BY <1>1, SetFlagFacts DEF Inv, Rows
<1>3. \A u : Rows(u)' = Rows(u)
  BY <1>2 DEF Rows
<1>4. TypeOK'
  BY <1>1, <1>2 DEF LoginSave, Goto, Inv, TypeOK, Scene, Holding
<1>5. RowKnown' /\ NameGiven'
  BY <1>1, <1>3 DEF Inv, RowKnown, NameGiven
<1>6. ASSUME NEW u \in Username \ raced PROVE Orderly(u)'
  <2>1. Orderly(u)
    BY DEF Inv
  <2>2. Unique(u)' /\ (Exists(u)' <=> Exists(u))
    BY <1>3, <2>1 DEF Orderly, Unique, Exists
  <2>3. \A d \in Client : /\ Holds(d, u)' => Holds(d, u) \/ (d = c /\ user[c] = u)
                          /\ At(d, "insert", u)' => At(d, "insert", u)
                          /\ At(d, "save", u)' => At(d, "save", u) /\ d # c
    BY <1>1 DEF Holds, Holding, At
  <2>4. user[c] = u => At(c, "save", u)
    BY <1>1 DEF At
  <2>5. AtMostOne(u)'
    BY <2>1, <2>3, <2>4 DEF Orderly, AtMostOne
  <2>6. \A d \in Client : Holds(d, u)' =>
          Exists(u)' /\ \A i \in Rows(u)' : table'[i].isLogin = 1
    <3>1. ASSUME NEW d \in Client, Holds(d, u)'
          PROVE  Exists(u) /\ \A i \in Rows(u) : i = row[c] \/ table[i].isLogin = 1
      BY <1>1, <2>1, <2>3, <3>1 DEF Orderly, Unique, Exists
    <3>2. \A i \in Rows(u) : i \in DOMAIN table
      BY DEF Rows
    <3>3. QED
      BY <1>2, <1>3, <2>2, <3>1, <3>2
  <2>7. \A d, e \in Client : At(d, "save", u)' /\ At(e, "save", u)' => d = e
    BY <2>1, <2>3 DEF Orderly
  <2>8. \A d, e \in Client : ~ (At(d, "save", u)' /\ Holds(e, u)')
    BY <2>1, <2>3, <2>4 DEF Orderly
  <2>9. \A d, e \in Client : At(d, "insert", u)' /\ At(e, "insert", u)' => d = e
    BY <2>1, <2>3 DEF Orderly
  <2>10. \A d \in Client : At(d, "insert", u)' => ~ Exists(u)'
    BY <2>1, <2>2, <2>3 DEF Orderly
  <2>11. QED
    BY <2>2, <2>5, <2>6, <2>7, <2>8, <2>9, <2>10 DEF Orderly
<1>7. QED
  BY <1>1, <1>4, <1>5, <1>6 DEF Inv

(* The save of a logout: the session that ends was the only one.           *)
LEMMA LogoutSaveStep ==
  ASSUME Inv, NEW c \in Client, LogoutSave(c)
  PROVE  Inv'
<1>1. PICK p \in {"login", "off"} :
        /\ pc[c] = "outsave" /\ SetFlag(row[c], 0) /\ UNCHANGED <<user, row, why, raced>>
        /\ pc' = [pc EXCEPT ![c] = p]
  BY DEF LogoutSave, Goto
<1>2. /\ \A d \in Client : pc'[d] = IF d = c THEN p ELSE pc[d]
      /\ row[c] \in Rows(user[c])
  BY <1>1 DEF Inv, TypeOK, RowKnown
<1>3. /\ table' \in Seq(Row)
      /\ DOMAIN table' = DOMAIN table
      /\ \A j \in DOMAIN table :
           /\ table'[j].username = table[j].username
           /\ table'[j].isLogin = IF j = row[c] THEN 0 ELSE table[j].isLogin
  BY <1>1, <1>2, SetFlagFacts DEF Inv, Rows
<1>4. \A u : Rows(u)' = Rows(u)
  BY <1>3 DEF Rows
<1>5. TypeOK'
  BY <1>1, <1>3 DEF Inv, TypeOK, Scene
<1>6. RowKnown' /\ NameGiven'
  BY <1>1, <1>2, <1>4 DEF Inv, RowKnown, NameGiven
<1>7. ASSUME NEW u \in Username \ raced PROVE Orderly(u)'
  <2>1. Orderly(u)
    BY DEF Inv
  <2>2. Unique(u)' /\ (Exists(u)' <=> Exists(u))
    BY <1>4, <2>1 DEF Orderly, Unique, Exists
  <2>3. \A d \in Client : /\ Holds(d, u)' => Holds(d, u) /\ d # c
                          /\ At(d, "insert", u)' => At(d, "insert", u)
                          /\ At(d, "save", u)' => At(d, "save", u)
    BY <1>1, <1>2 DEF Holds, Holding, At
  <2>4. user[c] = u => Holds(c, u)
    BY <1>1 DEF Holds, Holding
  <2>5. AtMostOne(u)'
    BY <2>1, <2>3 DEF Orderly, AtMostOne
  <2>6. \A d \in Client : Holds(d, u)' =>
          Exists(u)' /\ \A i \in Rows(u)' : table'[i].isLogin = 1
    <3>1. ASSUME NEW d \in Client, Holds(d, u)'
          PROVE  user[c] # u /\ Exists(u) /\ \A i \in Rows(u) : table[i].isLogin = 1
      BY <2>1, <2>3, <2>4, <3>1 DEF Orderly, AtMostOne
    <3>2. \A i \in Rows(u) : i \in DOMAIN table /\ (user[c] # u => i # row[c])
      BY <1>2 DEF Rows
    <3>3. QED
      BY <1>3, <1>4, <2>2, <3>1, <3>2
  <2>7. \A d, e \in Client : At(d, "save", u)' /\ At(e, "save", u)' => d = e
    BY <2>1, <2>3 DEF Orderly
  <2>8. \A d, e \in Client : ~ (At(d, "save", u)' /\ Holds(e, u)')
    BY <2>1, <2>3 DEF Orderly
  <2>9. \A d, e \in Client : At(d, "insert", u)' /\ At(e, "insert", u)' => d = e
    BY <2>1, <2>3 DEF Orderly
  <2>10. \A d \in Client : At(d, "insert", u)' => ~ Exists(u)'
    BY <2>1, <2>2, <2>3 DEF Orderly
  <2>11. QED
    BY <2>2, <2>5, <2>6, <2>7, <2>8, <2>9, <2>10 DEF Orderly
<1>8. QED
  BY <1>1, <1>5, <1>6, <1>7 DEF Inv

(* A name is found free: the registration is alone with it, or has raced.  *)
LEMMA SignInStep ==
  ASSUME Inv, NEW c \in Client, NEW u \in Username, SignIn(c, u)
  PROVE  Inv'
<1>1. /\ pc[c] = "login" /\ ~ Exists(u) /\ UNCHANGED <<table, row, why>>
      /\ \A d \in Client : /\ pc'[d] = IF d = c THEN "insert" ELSE pc[d]
                           /\ user'[d] = IF d = c THEN u ELSE user[d]
  BY DEF SignIn, NameFree, Goto, Inv, TypeOK
<1>2. /\ raced \subseteq raced' /\ raced' \subseteq Username
      /\ u \notin raced' => \A d \in Client \ {c} : ~ At(d, "insert", u)
  BY DEF SignIn, At, Inv, TypeOK
<1>3. TypeOK'
  BY <1>2 DEF SignIn, Goto, Inv, TypeOK, Scene
<1>4. RowKnown' /\ NameGiven'
  BY <1>1 DEF Inv, RowKnown, NameGiven, Rows
<1>5. ASSUME NEW v \in Username \ raced' PROVE Orderly(v)'
  <2>1. Orderly(v)
    BY <1>2 DEF Inv
  <2>2. \A d \in Client : /\ Holds(d, v)' => Holds(d, v)
                          /\ At(d, "save", v)' => At(d, "save", v)
                          /\ At(d, "insert", v)' => At(d, "insert", v) \/ (d = c /\ v = u)
    BY <1>1 DEF Holds, Holding, At
  <2>3. CASE v # u
    BY <1>1, <2>1, <2>2, <2>3, OrderlyKept
  <2>4. CASE v = u
    <3>1. Rows(v)' = Rows(v)
      BY <1>1 DEF Rows
    <3>2. Unique(v)' /\ ~ Exists(v)'
      BY <1>1, <2>1, <2>4, <3>1 DEF Orderly, Unique, Exists
    <3>3. \A d \in Client : ~ Holds(d, v)'
      BY <1>1, <2>1, <2>2, <2>4 DEF Orderly
    <3>4. \A d, e \in Client : At(d, "save", v)' /\ At(e, "save", v)' => d = e
      BY <2>1, <2>2 DEF Orderly
    <3>5. \A d, e \in Client : At(d, "insert", v)' /\ At(e, "insert", v)' => d = e
      <4>1. \A d \in Client : At(d, "insert", v)' => d = c
        BY <1>2, <2>2, <2>4
      <4>2. QED
        BY <4>1
    <3>6. AtMostOne(v)'
      BY <3>3 DEF AtMostOne
    <3>7. QED
      BY <3>2, <3>3, <3>4, <3>5, <3>6 DEF Orderly
  <2>5. QED
    BY <2>3, <2>4
<1>6. QED
  BY <1>3, <1>4, <1>5 DEF Inv

(* The save of a registration: the name it gives a row had none.           *)
LEMMA InsertStep ==
  ASSUME Inv, NEW c \in Client, Insert(c)
  PROVE  Inv'
<1> DEFINE n == Len(table) + 1
<1>1. /\ pc[c] = "insert" /\ UNCHANGED <<user, row, why, raced>>
      /\ user[c] \in Username
      /\ \A d \in Client : pc'[d] = IF d = c THEN "login" ELSE pc[d]
  BY DEF Insert, Goto, Inv, TypeOK, NameGiven
<1>2. /\ table' \in Seq(Row)
      /\ DOMAIN table' = DOMAIN table \cup {n}
      /\ n \notin DOMAIN table
      /\ table'[n] = [username |-> user[c], isLogin |-> 0]
      /\ \A j \in DOMAIN table : table'[j] = table[j]
  BY <1>1, InsertFacts DEF Insert, Inv
<1>3. \A u : Rows(u)' = IF u = user[c] THEN Rows(u) \cup {n} ELSE Rows(u)
  BY <1>2 DEF Rows
<1>4. TypeOK'
  BY <1>1, <1>2 DEF Insert, Goto, Inv, TypeOK, Scene
<1>5. RowKnown' /\ NameGiven'
  BY <1>1, <1>3 DEF Inv, RowKnown, NameGiven
<1>6. ASSUME NEW u \in Username \ raced PROVE Orderly(u)'
  <2>1. Orderly(u)
    BY DEF Inv
  <2>2. \A d \in Client : /\ Holds(d, u)' => Holds(d, u)
                          /\ At(d, "save", u)' => At(d, "save", u)
                          /\ At(d, "insert", u)' => At(d, "insert", u) /\ d # c
    BY <1>1 DEF Holds, Holding, At
  <2>3. CASE u # user[c]
    <3>1. Rows(u)' = Rows(u) /\ \A i \in Rows(u) : table'[i] = table[i]
      BY <1>2, <1>3, <2>3 DEF Rows
    <3>2. QED
      BY <2>1, <2>2, <3>1, OrderlyWithRows
  <2>4. CASE u = user[c]
    <3>1. At(c, "insert", u) /\ ~ Exists(u)
      BY <1>1, <2>1, <2>4 DEF At, Orderly
    <3>2. Rows(u)' = {n}
      BY <1>3, <2>4, <3>1 DEF Exists
    <3>3. Unique(u)'
      BY <3>2 DEF Unique
    <3>4. \A d \in Client : ~ Holds(d, u)' /\ ~ At(d, "insert", u)'
      BY <2>1, <2>2, <3>1 DEF Orderly
    <3>5. \A d, e \in Client : At(d, "save", u)' /\ At(e, "save", u)' => d = e
      BY <2>1, <2>2 DEF Orderly
    <3>6. AtMostOne(u)'
      BY <3>4 DEF AtMostOne
    <3>7. QED
      BY <3>3, <3>4, <3>5, <3>6 DEF Orderly
  <2>5. QED
    BY <2>3, <2>4
<1>7. QED
  BY <1>1, <1>4, <1>5, <1>6 DEF Inv

-----------------------------------------------------------------------------
LEMMA InitInv == Init => Inv
<1> SUFFICES ASSUME Init PROVE Inv
  OBVIOUS
<1>1. PICK n \in 0..1 : table \in [1..n -> Row]
  BY DEF Init
<1>2. TypeOK
  <2>1. table \in Seq(Row)
    BY <1>1, SeqDef
  <2>2. QED
    BY <2>1 DEF Init, TypeOK, Scene
<1>3. RowKnown /\ NameGiven
  BY DEF Init, RowKnown, NameGiven
<1>4. ASSUME NEW u \in Username PROVE Orderly(u)
  <2>1. Unique(u)
    BY <1>1 DEF Unique, Rows
  <2>2. \A c \in Client : /\ ~ Holds(c, u)
                          /\ ~ At(c, "save", u)
                          /\ ~ At(c, "insert", u)
    BY DEF Init, Holds, Holding, At
  <2>3. QED
    BY <2>1, <2>2 DEF Orderly, AtMostOne
<1>5. QED
  BY <1>2, <1>3, <1>4 DEF Inv

LEMMA NextInv == Inv /\ [Next]_vars => Inv'
<1> SUFFICES ASSUME Inv, [Next]_vars PROVE Inv'
  OBVIOUS
<1>1. CASE UNCHANGED vars
  <2>1. UNCHANGED <<table, pc, user, row, why, raced>>
    BY <1>1 DEF vars
  <2>2. TypeOK'
    BY <2>1 DEF Inv, TypeOK
  <2>3. RowKnown' /\ NameGiven'
    BY <2>1 DEF Inv, RowKnown, NameGiven, Rows
  <2>4. ASSUME NEW u \in Username \ raced PROVE Orderly(u)'
    <3>1. \A d \in Client : /\ Holds(d, u)' => Holds(d, u)
                            /\ At(d, "save", u)' => At(d, "save", u)
                            /\ At(d, "insert", u)' => At(d, "insert", u)
      BY <2>1 DEF Holds, At
    <3>2. QED
      BY <2>1, <3>1, OrderlyKept DEF Inv
  <2>5. QED
    BY <2>1, <2>2, <2>3, <2>4 DEF Inv
<1>2. CASE Next
  <2>1. PICK c \in Client : Step(c)
    BY <1>2 DEF Next
  <2>2. CASE \/ Start(c) \/ Crash(c) \/ CallFails(c) \/ LoginFind(c) \/ Opened(c)
             \/ Logout(c) \/ LogoutFind(c)
    BY <2>2, MovingSteps
  <2>3. CASE \E u \in Username : Login(c, u) \/ SignIn(c, u)
    BY <2>3, LoginStep, SignInStep
  <2>4. CASE LoginCheck(c) \/ LoginSave(c) \/ LogoutSave(c) \/ Insert(c)
    BY <2>4, LoginCheckStep, LoginSaveStep, LogoutSaveStep, InsertStep
  <2>5. QED
    BY <2>1, <2>2, <2>3, <2>4 DEF Step
<1>3. QED
  BY <1>1, <1>2

THEOREM Invariance == Spec => []Inv
<1>1. QED
  BY InitInv, NextInv, PTL DEF Spec

-----------------------------------------------------------------------------
(* Every variable has its type: the rows written are whole rows, and the   *)
(* handlers leave the clients in scenes that exist.                        *)
THEOREM TypeCorrect == Spec => []TypeOK
<1>1. Inv => TypeOK
  BY DEF Inv
<1>2. QED
  BY Invariance, <1>1, PTL

(* However many clients log in, log out, crash and fail, an account has    *)
(* two sessions only if two logins were between isLoggingIn and save.      *)
THEOREM OneSession == Spec => []SingleSession
<1>1. Inv => SingleSession
  BY DEF Inv, Orderly, SingleSession
<1>2. QED
  BY Invariance, <1>1, PTL

(* A name has two rows only if two registrations were between              *)
(* existsUserByUsername and save.                                          *)
THEOREM OneRow == Spec => []UniqueUsername
<1>1. Inv => UniqueUsername
  BY DEF Inv, Orderly, UniqueUsername
<1>2. QED
  BY Invariance, <1>1, PTL

-----------------------------------------------------------------------------
(* The rows of a locked name keep their flags: a step that writes one      *)
(* belongs to a client whose row has the name it was given.                *)
LEMMA LockedStep ==
  ASSUME Inv, NEW u \in Username, Locked(u), NEW c \in Client, Step(c)
  PROVE  Locked(u)'
<1> DEFINE In == Holding \cup {"save"}
<1>1. /\ \A d \in Client : user[d] = u => pc[d] \notin In
      /\ RowKnown /\ TypeOK /\ NameGiven /\ Exists(u)
  BY DEF Locked, Inv
<1>2. ASSUME UNCHANGED table, \A d \in Client : user'[d] = u => pc'[d] \notin In
      PROVE  Locked(u)'
  BY <1>2 DEF Locked, Rows, Unique, Exists
<1>3. CASE \/ Start(c) \/ Crash(c) \/ CallFails(c) \/ LoginFind(c) \/ Opened(c)
           \/ Logout(c) \/ LogoutFind(c)
  <2>1. UNCHANGED <<table, user>>
    BY <1>3 DEF Start, Crash, CallFails, LoginFind, Opened, Logout, LogoutFind
  <2>2. PICK p \in Scene :
          pc' = [pc EXCEPT ![c] = p] /\ (p \in In => pc[c] \in In)
    BY <1>3 DEF Start, Crash, CallFails, LoginFind, Opened, Logout, LogoutFind,
                Goto, Scene, Holding
  <2>3. \A d \in Client : user'[d] = u => pc'[d] \notin In
    BY <1>1, <2>1, <2>2 DEF TypeOK
  <2>4. QED
    BY <1>2, <2>1, <2>3
<1>4. ASSUME NEW v \in Username, Login(c, v) \/ SignIn(c, v)
      PROVE  Locked(u)'
  <2>1. UNCHANGED table /\ \A d \in Client :
          /\ d # c => pc'[d] = pc[d] /\ user'[d] = user[d]
          /\ pc'[c] \in {"find", "insert"}
    BY <1>1, <1>4 DEF Login, SignIn, Goto, TypeOK
  <2>2. \A d \in Client : user'[d] = u => pc'[d] \notin In
    BY <1>1, <2>1 DEF Holding
  <2>3. QED
    BY <1>2, <2>1, <2>2
<1>5. CASE LoginCheck(c)
  <2>1. UNCHANGED <<table, user>> /\ (pc'[c] = "save" => user[c] # u)
        /\ pc'[c] \in {"save", "login"} /\ \A d \in Client \ {c} : pc'[d] = pc[d]
    BY <1>1, <1>5 DEF LoginCheck, Find, FlagClear, Goto, Locked, TypeOK
  <2>2. \A d \in Client : user'[d] = u => pc'[d] \notin In
    BY <1>1, <2>1 DEF Holding
  <2>3. QED
    BY <1>2, <2>1, <2>2
<1>6. CASE LoginSave(c) \/ LogoutSave(c)
  <2>1. PICK b \in {0, 1}, p \in {"init", "login", "off"} :
          /\ pc[c] \in {"save", "outsave"} /\ SetFlag(row[c], b) /\ UNCHANGED user
          /\ pc' = [pc EXCEPT ![c] = p]
    BY <1>6 DEF LoginSave, LogoutSave, Goto
  <2>2. user[c] # u /\ row[c] \in Rows(user[c])
    BY <1>1, <2>1 DEF RowKnown, Holding
  <2>3. /\ DOMAIN table' = DOMAIN table
        /\ \A j \in DOMAIN table :
             /\ table'[j].username = table[j].username
             /\ table'[j].isLogin = IF j = row[c] THEN b ELSE table[j].isLogin
    BY <1>1, <2>1, <2>2, SetFlagFacts DEF Rows
  <2>4. Rows(u)' = Rows(u) /\ \A j \in Rows(u) : table'[j].isLogin = table[j].isLogin
    BY <2>2, <2>3 DEF Rows
  <2>5. \A d \in Client : user'[d] = u => pc'[d] \notin In
    BY <1>1, <2>1, <2>2 DEF TypeOK
  <2>6. Exists(u)' /\ (Unique(u)' => Unique(u))
    BY <1>1, <2>4 DEF Exists, Unique
  <2>7. QED
    BY <2>4, <2>5, <2>6 DEF Locked
<1>7. CASE Insert(c)
  <2>1. /\ pc[c] = "insert" /\ UNCHANGED user
        /\ table' = Append(table, [username |-> user[c], isLogin |-> 0])
        /\ \A d \in Client : pc'[d] = IF d = c THEN "login" ELSE pc[d]
    BY <1>1, <1>7 DEF Insert, Goto, TypeOK
  <2>2. user[c] \in Username
    BY <1>1, <2>1 DEF NameGiven
  <2>3. /\ DOMAIN table' = DOMAIN table \cup {Len(table) + 1}
        /\ Len(table) + 1 \notin DOMAIN table
        /\ table'[Len(table) + 1].username = user[c]
        /\ \A j \in DOMAIN table : table'[j] = table[j]
    BY <1>1, <2>1, <2>2, InsertFacts
  <2>4. \A d \in Client : user'[d] = u => pc'[d] \notin In
    BY <1>1, <2>1 DEF Holding
  <2>5. Rows(u) \subseteq DOMAIN table
        /\ Rows(u)' = IF user[c] = u THEN Rows(u) \cup {Len(table) + 1} ELSE Rows(u)
    BY <2>3 DEF Rows
  <2>6. Exists(u)' /\ (Unique(u)' => Rows(u)' = Rows(u) /\ Unique(u))
    BY <1>1, <2>3, <2>5 DEF Exists, Unique
  <2>7. \A j \in Rows(u) : table'[j] = table[j]
    BY <2>3, <2>5
  <2>8. QED
    BY <2>4, <2>6, <2>7 DEF Locked
<1>8. QED
  BY <1>3, <1>4, <1>5, <1>6, <1>7 DEF Step

(* A login left behind by a crash, or a doubled name, locks the account    *)
(* out for good: no handler of any client ever clears it.                  *)
THEOREM LockedForGood == Spec => LockedStays
<1>1. Inv /\ [Next]_vars => [\A u \in Username : Locked(u) => Locked(u)']_vars
  BY LockedStep DEF Next
<1>2. QED
  BY Invariance, <1>1, PTL DEF Spec, LockedStays

=============================================================================
