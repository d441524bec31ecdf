------------------------------- MODULE Authen -------------------------------
(***************************************************************************)
(* Accounts and logins: AuthenServiceImpl over the table user, and the     *)
(* scenes of the desktop client that call it (LoginController,             *)
(* SignInController, MainScreenController).                                *)
(*                                                                         *)
(* Several copies of the client share the table.  There is no transaction  *)
(* around a method of AuthenServiceImpl: every call of the repository is a *)
(* step of its own, and the other clients run in between.  Any of these    *)
(* calls may fail; the exception leaves the handler, and the program goes  *)
(* on.  The flag isLogin is all that remembers a session: a client that    *)
(* dies, or whose window is closed, leaves it set.                         *)
(***************************************************************************)
EXTENDS Naturals, Sequences

CONSTANTS
  Client,     \* the running copies of the program
  Username,
  NoUser,     \* no name has been entered
  MaxRows     \* bound of the model: rows of the table

ASSUME AuthenAssumption == NoUser \notin Username /\ MaxRows \in Nat

VARIABLES
  table,   \* the rows of table user, by id
  pc,      \* the scene of a client, or the repository call it is about to do
  user,    \* the name it was given (the field, then FXApplication.username)
  row,     \* id of the row it has read
  why,     \* what the logout under way was called for
  raced    \* history: names with which two clients were, at the same time,
           \* between a query and the save that rests on its result

vars == <<table, pc, user, row, why, raced>>

(* A client that has been let in, up to the save that ends its session.    *)
Holding == {"init", "main", "outfind", "outsave"}
Scene   == {"off", "login", "find", "check", "save", "insert"} \cup Holding

Holds(c, u) == user[c] = u /\ pc[c] \in Holding

Row == [username : Username, isLogin : {0, 1}]

Rows(u)   == {i \in DOMAIN table : table[i].username = u}
Unique(u) == \A i, j \in Rows(u) : i = j

Init ==
  /\ table \in UNION {[1..n -> Row] : n \in 0..1}
  /\ pc    = [c \in Client |-> "off"]
  /\ user  = [c \in Client |-> NoUser]
  /\ row   = [c \in Client |-> 0]
  /\ why   = [c \in Client |-> "button"]
  /\ raced = {}

-----------------------------------------------------------------------------
(* existsUserByUsername and findUserByUsername.  The latter throws when    *)
(* two rows match: the table has no constraint on the name.                *)
Exists(u) == Rows(u) # {}

Find(u, i) == Unique(u) /\ i \in Rows(u)

Goto(c, p) == pc' = [pc EXCEPT ![c] = p]

SetFlag(i, b) == table' = [table EXCEPT ![i].isLogin = b]

(* The program is started and shows the login scene.                       *)
Start(c) ==
  /\ pc[c] = "off"
  /\ Goto(c, "login")
  /\ UNCHANGED <<table, user, row, why, raced>>

(* The machine stops or the window is closed: nothing is written.          *)
Crash(c) ==
  /\ pc[c] # "off"
  /\ Goto(c, "off")
  /\ UNCHANGED <<table, user, row, why, raced>>

(* login: validateInput lets a name through; doesUsernameExist.            *)
Login(c, u) ==
  /\ pc[c] = "login"
  /\ Exists(u)
  /\ user' = [user EXCEPT ![c] = u]
  /\ Goto(c, "find")
  /\ UNCHANGED <<table, row, why, raced>>

(* login: the row; a wrong password ends it here.                          *)
LoginFind(c) ==
  /\ pc[c] = "find"
  /\ \E i \in DOMAIN table :
       /\ Find(user[c], i)
       /\ row' = [row EXCEPT ![c] = i]
  /\ \/ Goto(c, "check")
     \/ Goto(c, "login")
  /\ UNCHANGED <<table, user, why, raced>>

(* The other clients about to do p for the same name.                      *)
Meets(c, p) == \E d \in Client \ {c} : pc[d] = p /\ user[d] = user[c]

Race(c, p) == raced' = IF Meets(c, p) THEN raced \cup {user[c]} ELSE raced

FlagClearBug(i) == i \in DOMAIN table          \* isLoggingIn is not consulted

FlagClear(i) == table[i].isLogin = 0

(* login: isLoggingIn reads the row again; if it is set the method only    *)
(* picks the message of its refusal.                                       *)
LoginCheck(c) ==
  /\ pc[c] = "check"
  /\ \E i \in DOMAIN table :
       /\ Find(user[c], i)
       /\ \/ FlagClear(i)   /\ Goto(c, "save")  /\ Race(c, "save")
          \/ ~ FlagClear(i) /\ Goto(c, "login") /\ UNCHANGED raced
  /\ UNCHANGED <<table, user, row, why>>

(* login: save of the row read first, then the main screen is opened.      *)
LoginSave(c) ==
  /\ pc[c] = "save"
  /\ SetFlag(row[c], 1)
  /\ Goto(c, "init")
  /\ UNCHANGED <<user, row, why, raced>>

(* initialize of the main screen: the connection works, or logout is       *)
(* called and the program ends; the same for a list that cannot be had.    *)
Opened(c) ==
  /\ pc[c] = "init"
  /\ Goto(c, "main")
  /\ UNCHANGED <<table, user, row, why, raced>>

(* logout: doesUsernameExist, for the button, after a failed initialize,   *)
(* or after a failed refreshFiles.  A row never goes, so it does exist.    *)
Logout(c) ==
  /\ \/ pc[c] = "main" /\ \E w \in {"button", "refresh"} : why' = [why EXCEPT ![c] = w]
     \/ pc[c] = "init" /\ why' = [why EXCEPT ![c] = "init"]
  /\ Exists(user[c])
  /\ Goto(c, "outfind")
  /\ UNCHANGED <<table, user, row, raced>>

LogoutFind(c) ==
  /\ pc[c] = "outfind"
  /\ \E i \in DOMAIN table :
       /\ Find(user[c], i)
       /\ row' = [row EXCEPT ![c] = i]
  /\ Goto(c, "outsave")
  /\ UNCHANGED <<table, user, why, raced>>

(* logout: save; the button leads to the login scene, an error to exit(1). *)
LogoutSave(c) ==
  /\ pc[c] = "outsave"
  /\ SetFlag(row[c], 0)
  /\ Goto(c, IF why[c] = "button" THEN "login" ELSE "off")
  /\ UNCHANGED <<user, row, why, raced>>

NameFreeBug(u) == u \in Username               \* the name is not looked up

NameFree(u) == ~ Exists(u)

(* createNewAccount: existsUserByUsername finds the name free.             *)
SignIn(c, u) ==
  /\ pc[c] = "login"
  /\ NameFree(u)
  /\ user' = [user EXCEPT ![c] = u]
  /\ Goto(c, "insert")
  /\ raced' = IF \E d \in Client \ {c} : pc[d] = "insert" /\ user[d] = u
              THEN raced \cup {u} ELSE raced
  /\ UNCHANGED <<table, row, why>>

InsertBug(c) ==                               \* isLogin is left null
  /\ pc[c] = "insert"
  /\ Len(table) < MaxRows
  /\ table' = Append(table, [username |-> user[c], isLogin |-> NoUser])
  /\ Goto(c, "login")
  /\ UNCHANGED <<user, row, why, raced>>

(* createNewAccount: save of a new row.                                    *)
Insert(c) ==
  /\ pc[c] = "insert"
  /\ Len(table) < MaxRows
  /\ table' = Append(table, [username |-> user[c], isLogin |-> 0])
  /\ Goto(c, "login")
  /\ UNCHANGED <<user, row, why, raced>>

(* A repository call fails, or findUserByUsername meets two rows.  The     *)
(* exception of a logout leaves its caller before it can exit: the button  *)
(* and refreshFiles leave the main screen as it is, and a failed           *)
(* initialize leaves the login scene.                                      *)
CallFails(c) ==
  /\ \/ pc[c] \in {"find", "check", "save", "insert", "init"} /\ Goto(c, "login")
     \/ pc[c] \in {"outfind", "outsave"}
        /\ Goto(c, IF why[c] = "init" THEN "login" ELSE "main")
  /\ UNCHANGED <<table, user, row, why, raced>>

Step(c) ==
  \/ Start(c) \/ Crash(c) \/ CallFails(c)
  \/ \E u \in Username : Login(c, u) \/ SignIn(c, u)
  \/ LoginFind(c) \/ LoginCheck(c) \/ LoginSave(c) \/ Opened(c)
  \/ Logout(c) \/ LogoutFind(c) \/ LogoutSave(c) \/ Insert(c)

Next == \E c \in Client : Step(c)

Spec == Init /\ [][Next]_vars

-----------------------------------------------------------------------------
TypeOK ==
  /\ table \in Seq(Row)
  /\ pc \in [Client -> Scene]
  /\ user \in [Client -> Username \cup {NoUser}]
  /\ row \in [Client -> Nat]
  /\ why \in [Client -> {"button", "init", "refresh"}]
  /\ raced \subseteq Username

AtMostOne(u) == \A c, d \in Client : Holds(c, u) /\ Holds(d, u) => c = d

(* An account has one session at a time, and no two rows, except where two *)
(* clients met between query and save: crashes, failed calls, restarts and *)
(* logouts in any order cannot break it (login, logout, createNewAccount). *)
SingleSession == \A u \in Username \ raced : AtMostOne(u)

UniqueUsername == \A u \in Username \ raced : Unique(u)

(* Once a flag is set that no session stands behind, or a name has two     *)
(* rows and no session, the account is locked out: nothing the programs do *)
(* ever lets anybody in again.                                             *)
Locked(u) ==
  /\ Exists(u)
  /\ Unique(u) => \A i \in Rows(u) : table[i].isLogin = 1
  /\ \A c \in Client : user[c] = u => pc[c] \notin Holding \cup {"save"}

LockedStays == [][\A u \in Username : Locked(u) => Locked(u)']_vars

(* "Your account is already logged in from another device!": an account is *)
(* never open on two devices.  "Username already existed!": a name is      *)
(* never given to two accounts.                                            *)
OneDevice     == \A u \in Username : AtMostOne(u)
UsernameTaken == \A u \in Username : Unique(u)

=============================================================================
