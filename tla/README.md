# A TLA+ development of the file service

The program stores the files of its users on a server. A desktop client
(Spring Boot, JavaFX; `src/src/main/java`) does the logins against a MySQL
table and talks a small protocol over TCP to a server written in C
(`src/server in C`), which forks a process for every connection. This directory
models the parts that interact: the protocol with both its ends, the logins,
and the processes of the server. TLC checks the models on small instances;
TLAPS proves part of the same properties for all values of the constants.

## 1. Inventory

| part | state it keeps | operations | talks to |
|---|---|---|---|
| **Server process** (`socketThread` in `server.c`, `tfp.c`, `file.c`) | its folder `cdirectory`; during an upload the open file, `numblock`, `packNum`; the folders below `SERVER_ROOT`, shared by all processes | a request read by `recv`, a switch on its first byte: CREATE_FOLDER, LIST_DIR, UPLOAD (with a receive loop of its own), DOWNLOAD, DATA, CONFIRM, DELETE, ERROR, EXIT | its client, over one TCP connection; the other processes, through the disk |
| **Network service and main screen** (`NetworkServiceImpl`, `MainScreenController`) | the socket, the list `files` behind the table, the files it made in Downloads | initialize, refresh, upload, download, delete, logout; each writes requests and reads replies on the JavaFX thread, with a timeout of 3 s on every read | the server process; the login service (logout on an error) |
| **Accounts and logins** (`AuthenServiceImpl`, `UserRepo`, `LoginController`, `SignInController`) | the table `user` (name, password, `isLogin`) | login, logout, createNewAccount, each several repository calls without a transaction | the table, shared by all copies of the client; main screen |
| **Accept loop** (`main` in `server.c`) | `i`, `pid[50]`, copied into every child by fork | accept, fork, and after 49 forks waitpid over the array | its children, the listening socket |
| **Encodings and listing** (`DataPackageSent`, `DataPackageReceived`, the helpers of `tfp.c`, `listFiles`) | none | shorts, strings, block counts, file sizes; `opendir`, `readdir`, two or three `stat` calls an entry | client and server; the disk |
| **Text client** (`client.c`) | one buffer, used for the line and for the answer | a line is typed and sent, one `recv`, the answer is shown as a listing | a server process |
| `test/server.c`, `utils/test.java` | | experiments | |
| Scenes, alerts, start-up (`StageManager`, `AlertUtils`, `ClientApp`) | none | windows | |

What makes the program hard to test, and what the properties are about:

* **Two protocol machines that count differently.** The client sends `n`
  blocks, the upload loop of the server takes `n + 1` packets without looking
  at their code or number. The packet after the last is the client's *next*
  request. Whether requests and replies stay in step from there on, whether
  the blocks of one file can reach another, whether a confirmed block is ever
  lost, needs several operations in a row to go wrong.
* **Late answers.** A read that times out ends its handler; the answer comes
  while a later handler waits for a different one.
* **Shared folders.** Two sessions of a user race through `dirExist` and
  `mkdir`, remove what the other writes, and see each other's files late. A
  listing looks at an entry with separate system calls, between which other
  processes add and remove files.
* **Names and numbers that change on the way.** A name, of a user or of a file,
  is cut to as many bytes as it has characters, so two may become one; a size is
  cut to 16 bits, and a `stat` that fails turns into a folder or into a size of
  65535.
* **Results nobody looks at.** `fwrite`, `remove` and the number of bytes of a
  `recv` are not checked, and the confirmation is sent all the same; the `logout`
  of an error path may throw, and the `exit(1)` behind it is skipped.
* **Non-atomic logins.** A query and the save that rests on it are separate
  calls; clients interleave between them, crash, or meet a failing call.
  `isLogin` is the only memory of a session and survives its client.
* **Processes that never end.** A child whose client sends EXIT returns into
  the accept loop of `main` with a copy of its parent's array of pids, and
  later waits for them itself; one whose EXIT an upload loop has swallowed calls
  `recv` for ever. The parent never closes its copy of the socket.

`PROJECT.json` lists these hazards with their lines.

What makes each part correct: for the **server process**, that it works in the
folder its client's user name leads to and in no other, stores the blocks it
confirms in order, and answers so that replies and requests stay in step; for
the **client**, that no handler hangs, takes a reply for another, or shows files
that are not there; for the **logins**, one session and one row a name; for the
**accept loop**, that connections are taken and the waiting does not stop the
server.

## 2. Plan

Order of the modules; those marked *done* are here.

1. *done* `TfpChannel`, `TfpServer`, `TfpClient`, `TfpSystem`: the protocol,
   its two ends, and their composition over the shared folders.
   `TfpSystemProofs`: types, the folder of a process, its client's process.
2. *done* `Authen`: the logins. `AuthenProofs`: one session, one row, and the
   lock-out, from one inductive invariant.
3. *done* `AcceptLoop`: the processes. `AcceptLoopProofs`: types, and that the
   waiting never wedges the server.
4. *done* `FolderStore`: what users are promised of their files, as an abstract
   specification; `TfpStore` maps `TfpSystem` to it, `TfpStoreProofs` proves
   that it implements it.
5. *done* `Wire`: the encodings as operators over bytes. `WireProofs`: what they
   keep and what they lose.
6. *done* `FileList`, `FileTable`, `TextClient`, `ListSystem`: a listing put
   together beside other processes, and what two clients make of it.
7. *done* `TfpListingProofs`: `ListingIsAwaited` and `CacheSound`.
8. *done* `TfpPromptProofs`: replies in step, blocks in order and in their own
   file, confirmed files kept, deletes confirmed only when done.
9. *done* `ListSystemProofs`: a listing read back, what the table shows of files
   that change meanwhile, the delete of a row, the text client.
10. *done* The failing `logout` of the two error paths, and a misread listing
   that `getFiles` returns: `Catch` and `ListMisread` in `TfpClient`, and what
   `ListingIsAwaited` and `CacheSound` become there.
11. The composition of `Authen` and `TfpSystem`: a logout writes the table
   before it closes the socket, so another device may be let in while the old
   process is still at work.
12. The composition of `AcceptLoop` and `TfpSystem`: one server over all
   connections, in which `Swallow` and `Killed` are steps of the process that
   `TfpServer` describes.

## 3. The modules

### TfpChannel
A session is one connection. `toSrv[s]` holds the requests that were written
and not yet received, whole; `toCli[s]` the replies, byte by byte, because the
client's reads are: the confirmation `'6'` (`Ack`), the bytes of "Create
Success" or "Delete success!" (`StringReply`, `StringLen` bytes of which the
last is the NUL), and a listing, `ListingLen` bytes whose first carries the
names. File contents are sequences of chunks, one for each `fwrite`:
`Block(f, i)` is block `i` of the local file `f`, `Junk` anything else.

Names are not taken as they are. `SentAs[f]` is what `addString` makes of the
name of the file `f`, and `FolderOf[u]` the folder that `server.c:34-36` makes of
the name of the user `u`; neither need be one-to-one. `Dir(s)` is the folder of a
session, `Sources(f)` the files that are sent under the name `f`.

### TfpServer
One action for each case of `socketThread`, and the loop of `upload_mess` as a
state of its own (`spc = "upload"`, actions `RecvPacket`, `RecvClosed`). `Recv`
takes one *or more* of the waiting messages, of which only the first is looked
at, as `recv` into one buffer does. `Send` to a client that has gone may kill
the process (`spc = "dead"`). `CREATE_FOLDER` is two steps, lookup and `mkdir`,
and a `mkdir` that fails, for whatever reason, ends the process, as
`createNewFolder` exits. `Remove` may fail, in which case the answer is the same
and `stuck` (history) remembers it; when it succeeds another process may go on
writing to the open file (`linked`). `fopen` may fail (`OpenFails`: no answer).
A chunk is stored at its `fwrite`, which no process but the writer can tell from
the buffer's being written later, unless it is lost: `Lost` takes away the chunk
and any number of those before it, when the process is killed in a send or a
write fails unnoticed, and `spoilt` (history) remembers the file. The mutex of
`socketThread` is private to a process (the processes are made by `fork`), so it
excludes nothing and is not modelled.

### TfpClient
`cpc` names the read a handler waits in; `idle` is the main screen between
handlers. The actions named `...Timeout` are the reads that give up: a missing
reply to an upload request is an alert, a missing confirmation of a block sends
`'8'`, delete and download give up with what they have consumed. createFolder
and getFiles throw, and `Catch` is what `initialize` and `refreshFiles` make of
it: `logout` and `exit(1)`, or, when `logout` throws as well, a program that
stays: on the main screen, or, when the main screen never came up, on the login
screen (`stranded`), its connection open and a listing perhaps still to come.
`ListMisread` is a getFiles that finds other bytes than a listing: it reads on
until the timeout, or returns with whatever rows the bytes make, when the count
they give is small enough. `astray` (history) marks a session that has gone on
in one of these two ways. `files` is the list behind the table, `acked`
(history) the files whose latest upload was confirmed to the last block. `Close`
may cut off the end of what was written when replies are unread, as a TCP reset
does.

### TfpSystem
Composes a client and a process for every session over one set of folders,
and states the properties. `LateReplies` says whether the three seconds may
pass while an answer is still on its way; with `FALSE` a read times out only
when the process has nothing left to handle (`Quiet`).

### FolderStore, TfpStore
`FolderStore` is the promise without processes: every folder has a set of names;
a name appears only by a request to upload it (`Begin`), and goes, for everybody
at once, only by a request to delete it or to upload it without a block
(`Drop`); the requests that wait to be carried out are its variable `asked`. A
name may be whole (it begins with every block of its file); while an upload is
under way (`busy`), and only then, it may turn from one into the other.
`TfpStore` maps the processes to it: a request is asked when it is the next that
a process of that folder takes; a file is busy when some process has it open in
its upload loop and it still has the name it was opened under (`Uploads`).
`KeepsFolders`, the abstract specification under this mapping, is what a process
that writes on to a removed file, beside a new upload of that name, could break.

### Wire
The helpers of both sides over bytes 0..255: `AddShort` and `WriteBytes` against
`ReadShort` and `EatByte` (a C `char` is signed, `Signed`), strings that end with
a NUL (`WriteString`, `Copy`, `EatString`, `CopyFull`), the number of blocks of
a file and `SizeToH`. There is nothing to run here; `WireProofs` proves what the
operators promise, for all arguments.

### FileList, FileTable, TextClient, ListSystem
`FileList` is one server process with the bytes of its socket and a folder that
`Others` change: `BeginList` opens the folder and has the names `readdir` will
return, `ReadDir` is `readdir` and the `stat` of `isDir`, `AddToStack` the later
`stat` of `fileSize`, `SendList` builds the bytes of the answer. Past the end of
the buffer (`BuffSize`) the process may be killed or send what it wrote. The
cases of `socketThread` that answer at once are there with their bytes, since a
text client may send them in any order: RES_LIST_DIR, CREATE_FOLDER, DELETE, an
UPLOAD of no blocks, EXIT, and every other byte (`Ignored`), for which the switch
does nothing. `Create` may end the process, `removeFile` may leave the file where
it is, and `fopen` may fail for any name and does for some (`Openable`): then the
line has no answer.

`FileTable` is the desktop client's table: `Parse` reads a listing as `getFiles`
does, one character for a byte; `DeleteRow` sends a row's name back through
`AddString`, as many bytes as the name has characters, in the charset of the
platform: UTF-8, ISO-8859-1, or windows-1252, which has other characters than
U+0080..U+009F in the place of those bytes (`Cp1252`) and writes a question mark
for a character it has not. `StoredAs` is the name an uploaded
file gets in this way. `TextClient` is `client.c`: a line, one `recv` of at most
`TextRoom` bytes, and what the start of the buffer looks like as a listing, with
the rest of the line behind it (`Buffer`). A line typed while the one before is
still in the socket goes behind it, and one `recv` of the process takes both:
`merged` (history) says so of the last line. Its `recv` never returns 0: the
process that accepted the connection keeps the socket open (`server.c:187-207`),
so the end of the child is not told to the client. `ListSystem` joins the process with
one of the two clients; `touched` and `had` (history) are the names that changed
and the sizes files had since the last listing began.

### Authen
The table `user` and several clients. Every repository call is a step: `Login`
(existsUserByUsername), `LoginFind`, `LoginCheck` (isLoggingIn, which reads
again), `LoginSave` (which writes the row read first); likewise for logout and
registration. `CallFails` is a call that throws: the exception leaves the
handler, which differs by caller (`why`). A wrong password is the second
branch of `LoginFind`. `raced` (history) collects the names with which two
clients were between the same query and save at the same time.

### AcceptLoop
A tree of processes, each with its index and its array of pids, copied at the
fork. `serve` is a child in `socketThread`, `Return` its way back into the
accept loop after EXIT, `spin` a child whose client went without EXIT (`Vanish`)
or whose EXIT the loop of an upload took for a packet (`Swallow`, `tfp.c:97-119`).
`pid[49]` is never assigned before it is waited for: `Init` chooses a value that
is no child or one that means any child. A failed fork leaves `-1`, which waits
for any child. `AfterWait` is the last turn of the waiting loop, whose `printf`
reads `pid[50]`: undefined, so with `OverreadKills` it may end the process.

`MCTfp`, `MCList`, `MCAuthen`, `MCAccept` give the constants their values for TLC.
Operators whose names end in `Bug` are slips that the properties must notice;
no action uses them.

### Abstractions
* Requests are not cut in two by TCP; they may arrive together.
* In `TfpServer` a listing is a snapshot of the folder; how it is put together
  is the subject of `FileList`.
* In the `Tfp` modules names are atoms and sizes are left out; passwords are left
  out everywhere. Folders hold files only, and no folder lies in another (a user
  named "ann/x" would have one in ann's). Every name can be made a file of: for
  one that cannot, every upload is an `OpenFails`.
* Paths fit the 254 bytes of `fullPath` (`file.c:28`) and the buffers they are put
  together in. Beyond that a listing shows what the cut path leads to:
  `UntouchedListed` and `RowsHadTheirSize` are about paths that fit.
* In `FileList` the string answers are one letter long, a request is one `recv`
  (the desktop client has one outstanding, the text client sends a line and
  waits), the names of a folder are fetched by the first `readdir`,
  `cdirectory` before CREATE_FOLDER names the folder or none, and every
  CREATE_FOLDER names that one folder. The text client is
  alone with its process. Blocks are not sent; an upload of other processes is
  a change of size.
* A query that throws has had no effect (a commit whose answer is lost is left
  out). The failure to connect is in `Authen` (`Opened` or `Logout` from `init`).

## 4. What is checked

| run | instance | shows |
|---|---|---|
| `solo_prompt` | one session, files of 2, 1 and 0 blocks of which the last is sent under the name of the second, 5 buttons, any initial folder, answers in time | `NoStaleReply`: whatever the upload loop swallowed and DOWNLOAD left unanswered, an idle client has no reply left to read. `UploadStoredInOrder`, `AckedBlocksKept`, `NoForeignBlock`: the blind loop stores the blocks in order, keeps every confirmed one whatever the session does later (but use the name again), and never mixes files; a block is lost only by a write that fails or a process that is killed before `fclose`. `DeleteConfirmed`: a delete is confirmed only when `remove` has been tried on the very file |
| `late` | one session, files of 2 and 1 blocks, 3 buttons, any answer late, `logout` may throw; fairness | `ListingIsAwaited`: until a session has gone on without its listing, no listing is overtaken nor read by another handler. `CacheSound`: until then the table shows no file the server has not. `HandlerReturns`: the JavaFX thread is never held for ever. `UploadLoopLeft`: an upload loop whose client has gone ends |
| `pair` | two sessions of users whose names lead to one folder, one of a third user, one button each, answers in time | `DirIsOwners`, `FolderIsolation`: a process works in, and changes, only the folder its client's user name leads to. `FolderReady`: the main screen appears only over a folder that exists and a process that is there to serve it, whoever loses the race for `mkdir`, and the process stays as long as the client does |
| `store` | two sessions of one folder, two buttons each, a file of 1 block and one of none, answers in time | `KeepsFolders`: the processes together implement `FolderStore`. An upload, a delete by the other session and a new upload of the name, beside the process that still has the old file open, are among the runs |
| `listing` | one process and the table, or the text client; four names, two sizes, two changes by other processes, three charsets | `UntouchedListed`: what nobody touched while it was listed is there once, with the low 16 bits of its size. `RowsHadTheirSize`: a row never shows the size of another file or bytes of a name. `DeleteHitsItsRow`: a delete removes no file but that of its row when the charset writes the name as it was read; in UTF-8 it otherwise removes no file with a plain name. `TextShowsAnswer`: as long as answers fit one `recv`, the text client shows the number of files and the first of them. `TextWaitsInVain`: it waits for ever only after a line the server does not answer, or one that reached it in the same `recv` as the line before |
| `authen` | 3 clients, 2 names, at most 2 rows, crashes, failing calls | `SingleSession`, `UniqueUsername` for names that were not raced for; `LockedStays`: a flag without a session, or a doubled name, is never repaired |
| `accept` | 3 slots instead of 50, 6 processes, 6 connections, vanishing clients, swallowed EXITs, kills, the read of `pid[50]` that may end a process; fairness of the processes only | `NotWedged`: processes never all wait for each other. `BacklogDrains`: waiting connections are accepted in the end, unless some client keeps its process for ever: by staying, by vanishing, or by an EXIT that is swallowed |

Five properties are what the documents and messages of the program say; TLC
finds a counterexample to each:

| run | says | does |
|---|---|---|
| `v_intact` | "Upload file done!" (`NetworkServiceImpl.java:136`) | the request after an upload is appended to the file (`tfp.c:115`); the property also excludes the empty file, which is removed at once (`tfp.c:122`) |
| `v_duplicate` | "check duplicate file name" (`README.md:5`) | an upload does not change the list that is checked, and the server's check is commented out |
| `v_device` | "already logged in from another device!" | two logins between `isLoggingIn` and `save` |
| `v_username` | "Username already existed!" | two registrations between `existsUserByUsername` and `save`; no unique constraint |
| `v_wait` | "Child %d terminated" (`server.c:202`) | a child whose client exits goes on accepting, so its parent waits for ever |

Also noticed: a failed `remove` (`file.c:129`) is answered "Delete success!" like
one that succeeded, which is why `DeleteConfirmed` speaks of a `remove` that has
been tried; a download (`README.md:5`) is never answered (`server.c:113`), so it
ends in a timeout, which `HandlerReturns` covers, and leaves an empty local file.
`README.md:4` speaks of UDP, client and server use TCP. The table
shows the low 16 bits of a size in bytes as "kB" (`NetworkServiceImpl.java:64`);
a folder, or a file removed while it is listed, shows 17481, the letters "DI"
read as a number; a file removed a moment later shows 65535. With UTF-8 the
delete of a row whose name is not ASCII may ask for another file, and is
confirmed. (Not always: the bytes 97, 195 come back as they were, because only
the first byte of the two that stand for 195 is sent. So the most that holds of
such a row is that no file with an ASCII name goes. In windows-1252 a character
of U+0080..U+009F is sent as a question mark, and a file of that name may go.)
Two users whose names are cut to one, or lead to one folder, share their files.
`freeFiles` is never called.

### Bounds
`MaxOps` buttons a session: the longest interplay of the upload loop is an
upload, a request it swallows, a request that meets what is left, and one more;
that is four, and a fifth lets an upload under a name that is cut to the same
come in between. `Blocks`: two blocks have a first, a last and an order; one
block is the shortest upload; none is the special case of the code.
`MaxBlockNumber` is the controller's limit (5120 in the code). `StringLen = 2`
keeps a byte before the NUL, so a string may be cut into by other reads;
`ListingLen = 4` has the code, both bytes of the count and the rest, so a
listing can be cut into at each. In `pair` one button a session is enough to
race folder creation with a use of the folder; in `store` two are enough for
upload and delete in one session beside delete and upload in the other. `MaxRows
= 2` gives a doubled name or two single ones. `Slots = 3` keeps two pids, so
that there is a first, a last and the element that is never assigned; six
processes are two full arrays and children of children. `MaxProc` and `MaxConn`
bound the run of the server: beyond `MaxProc` a fork fails, as in the code it
may.

In `listing` the buffer of 12 bytes takes a listing of two short names and not
of three, and the text client's `recv` of 8 bytes takes that of one and not of
two, so both limits are met and passed; the sizes 256 and 65543 have a zero low
byte and lose their high bits; two changes are enough to remove a file and make
it again, or to disturb two. `LocalName` has "a", ".a", which is never listed,
and two names outside ASCII, `<<8364, 98>>` and `<<226, 97>>`, of which one, stored
in UTF-8, shown and sent back, asks for the other: the first is stored and shown
as `<<226, 130>>`, its delete sends `<<195, 162>>`, the bytes under which the second
is stored. 8364 is the euro, which windows-1252 writes as the byte 128, and 128 is
sent back as a question mark (`MCCp1252`). `MaxUnread` bounds
the answers the text client leaves unread; `MCLine` has a line for every case.

In `late` and the runs of `AcceptLoop` no symmetry is used, because they check
liveness. In `pair` and `store` the two sessions of one folder are alike, each
with its user; in `authen` clients and names.

Deadlock is not checked where the system stops by design: when every client
has closed, or every connection of the bounded number has been made. In
`listing` the text client may wait for an answer that does not come, which is
what `TextWaitsInVain` is about.

### Fairness
`TfpSystem`: weak fairness of every process (the kernel runs it), of a read
that has bytes (it returns) and of a read that has none (`setSoTimeout`
throws). Nothing is assumed of users: no button need be pressed, no session
need end. `AcceptLoop`: weak fairness of each process that can go on by itself
(`Step`). Nothing is assumed of clients; `BacklogDrains` and `WaitEnds` have a
hypothesis instead, `ClientsLeave`: that no child is kept by its client for ever.

## 5. What is proved

`TfpSystemProofs`, for any sets of sessions, users and files, any assignment of
users to sessions, and answers late or in time (assumptions: those named in
`TfpChannel`, `TfpClient` and `TfpSystem`, which only give types):

* `TypeCorrect`, `DirectoryOfOwner`, `FolderIsReady`: `TypeOK`, `DirIsOwners`
  and `FolderReady` hold in every reachable state;
* `Isolation`: `FolderIsolation`, an action property, from the same invariant.

Both `DirIsOwners` and `FolderIsolation` are about the folder that a user's name
leads to. `FolderOf` is any function, so two users may share a folder, as two
names that are cut to one, or "ann" and "ann/.", do in the code; that the files
of two users are apart is neither claimed nor true.

`TypeOK` alone is not inductive: a process that listed a folder it does not have
would send anything at all. `IInv` adds that a process without a folder has only
the creation request ahead of it, that its client still waits for the answer,
that requests name the session's own user, and that a reply is only there when
the folder is (`OwnRequests`, `DirIsOwners`, `NoFolderYet`, `FolderMade`).
`FolderReady` also says that the process is there, for which a second layer,
`AInv`, is needed: a client has its connection open exactly while it runs; the
request for the folder is made once, before any answer; and under an open
connection a process waits for `mkdir`, or has ended in it, only before it has
answered anything (`Attended`). There is a lemma for what each primitive (recv,
send, write, take, close) does to the queues, one for each action, and one that
combines them. `Isolation` needs in addition that a step of the disk is a step
of a server process with a folder.

`TfpStoreProofs`, under the same assumptions: `StoreImplemented`, that the
specification implements `KeepsFolders`. Each step of a process maps to a
`Begin`, `Store` or `Drop` of the store or to none, and for `Begin` and `Drop` the
request is shown to be the one that waited; clients change what is asked and
nothing else.
The types and the folder of a process come from `IInv`; added is that an open
file has the name of a file (`OpenFileNamed`).

`TfpListingProofs`: `ListingIsForGetFiles` and `TableSound`, which are
`ListingIsAwaited` and `CacheSound`, also when every answer is late, for sessions
that have not gone on after a failed `logout` or a misread listing (`astray`).
Both are false beyond that: a listing that was given up is read by the next
handler, and a misread one makes rows of any bytes. `LInv` adds
to `IInv`, for each session, that a request for the list is the last request and
its client waits for it, that nothing is left to handle once the listing is on
its way (`Requests`, `Replies`), that no file of a row has a delete or an upload
on its way, and that the names in a listing are still held when it is read. The
last two are what makes `CacheSound` inductive: the only steps that take a name
from a folder are those that were asked to.

`WireProofs`: `ShortRoundTrip` (a number comes back modulo 2^16),
`EatByteAgrees` (`eatByte`, whose calls the authors replaced, agrees with `ntohs`
exactly when the low byte is below 128 or the high byte 255), `StringRoundTrip`
(a string without a NUL comes back, and reading goes on behind it), `BlocksFit`
(the announced blocks hold the file, the last is not empty, and their number
stays below the sign bit of the Java `short` that counts them), `SizeRounded`.

`AuthenProofs`, for any number of clients, names and rows:

* `TypeCorrect`; `OneSession` and `OneRow`: `SingleSession` and
  `UniqueUsername`; `LockedForGood`: `LockedStays`.

`SingleSession` is not inductive either. `Inv` adds, for every name that was not
raced for (`Orderly`): an open session keeps the flag of its row set; a login
before its save is alone with its name and finds no session; a registration
before its save is alone and finds no row; and, for every client, that the row
it remembers is a row of its name (`RowKnown`). The lock-out needs `RowKnown`
only: a client writes to no row but its own name's, so the flag of a name
without a session is written by nobody.

`AcceptLoopProofs`, for any number of slots (at least 2), processes and
connections: `TypeCorrect` (every element of `pid` that is stored or given to
`waitpid` is one of the array; the one that is printed at the end is not, see
`AfterWait`), and `NeverWedged`, which is `NotWedged`. `NotWedged`
excepts only that the read beyond the array has ended every process, and
says nothing of how processes are related, so the invariant `Inv` adds that
they are born in the order of their numbers (`BornInOrder`), that each is
younger than its parent (`Younger`), and that the first is never served
(`RootStays`). A process can only wait for its own children, so the youngest
process alive, which exists because a set of naturals bounded above has a
greatest element (`Youngest`, from the well-foundedness of `<`), has no child
alive, and its `waitpid` returns.

`TfpPromptProofs`, for any sessions, users and files, under `LateReplies = FALSE`:
`RepliesKeepStep`, `StoredInOrder`, `ConfirmedIsKept`, `DeleteIsConfirmed` and
`OwnBlocksOnly`, which are `NoStaleReply`, `UploadStoredInOrder`,
`AckedBlocksKept`, `DeleteConfirmed` and `NoForeignBlock`. The hypothesis is that
of the run `solo_prompt`: a read gives up only when the process has nothing left
to handle. Without it none of the five is claimed, nor, for most of them, true:
a confirmation that is late is taken for the reply to a later request. What the
code does not look at is in the statements: a block may be lost where the file is
`spoilt`, a file may stay where `remove` has failed (`stuck`), and a name may be
sent as another (`SentAs` is any function). The
argument is in two layers:

* `PInv` adds to `IInv`, for every session, `Sync`: the socket is open exactly
  between the first dialog and the exit, and then one of seven phases (`Phase`)
  holds, one for each place a handler can be in (`InIdle`, `InList`, ...). A
  phase says where the process is, which request is on its way to it and what is
  on its way back: one request at most, perhaps behind a late error message, and
  at most the one reply this place reads. The loop of an upload may take such a
  request for the packet after the last one (`Unanswered`).
* `UInv` adds `Upload`. A request on its way deletes or uploads no file that
  counts as confirmed, and a block waits alone, for the loop of its own file
  (`Queued`, `Pending`). The loop counts to the number of blocks of its file, and
  has reached it once the file is confirmed (`Loop`). For a user without a second
  session, the file of the loop begins with the blocks received so far (`InOrder`), a
  file in `acked` begins with all its blocks (`Kept`), and an answered delete has
  been done (`Deleted`). `OwnBlocksOnly` needs from this only that a block
  received is one of the open file; any other packet is stored as `Junk`, which
  is of no file.

`ListSystemProofs`, for any names of Java characters outside the surrogates, any
sizes and lines, a buffer of fewer than 65536 bytes, any number of changes:

* `ListingReadBack`: whatever entries LIST_DIR sends, getFiles reads the rows
  of those entries, as many as a short can count. `Parse` goes through the bytes
  with a recursive function and `ListReply` joins the parts of a list with a
  fold. The induction this needs is over sets of naturals, not over a predicate:
  a set that has 0 and is closed under `+ 1` has every number up to `n` (`UpTo`,
  from `Least`), applied to the set of the positions where the two sides agree.
  `Runs` names the beginnings of the joined bytes; `FlattenRuns`, `RunsGrow` and
  `RunsPart` say that each part begins where the one before ended.
* `ListTypes`: `TypeOK`. A row has the name of a stored file only because the
  reply of a list is one whole listing, so `IInv` adds that a request and its
  answer take turns (`InTurn`, `TableTurn`), that the process has entries only
  while it lists, and that stored names are strings without a NUL.
* `RowsShowTheirSize`, `UntouchedInTable`: `RowsHadTheirSize` and
  `UntouchedListed`. `LInv` adds `ScanKept`: while the process lists, every file
  has a size that `had` records, a name readdir has still to return is there or
  was touched, and what is in the list is right (`Sound`) and complete for what
  is no longer to come (`Kept`), for the files nobody touched. Other processes
  can only shrink that set (`FolderStep`, `KeptLater`), and each step of
  `listFiles` moves one name from what is to come into the list (`KeptPush`).
* `DeleteOfARow`: `DeleteHitsItsRow`, with or without the file going. A name of
  ASCII, any name in ISO-8859-1, and in windows-1252 one without U+0080..U+009F is
  sent as it is (`SentPlain`); in UTF-8 the first character that is not plain is
  sent as a byte of 128 or more (`SentNotPlain`). Of windows-1252 the proof uses
  only that its characters above 255 are written as bytes 128..159
  (`Cp1252Assumption`).
* `WaitsOnlyUnanswered`, `ShowsTheAnswer`: `TextWaitsInVain` and
  `TextShowsAnswer`; the client is never told that its process has ended, and
  `fopen`, `remove` and `mkdir` may fail. `TextTurn` says that a line that went out alone lies in the
  socket or is dealt with, and that, as long as every answer was taken whole, a
  line and its answer take turns as for the table.

Left to TLC: liveness (`HandlerReturns`, `UploadLoopLeft`, `BacklogDrains`,
`WaitEnds`) and the reachability of the counterexamples of the `v_` runs. Every
safety invariant and action property that a passing run checks is a theorem.
`WireProofs` also holds the lemmas about joined sequences that
`ListSystemProofs` rests on.

## 6. What is not modelled

Subfolders (the program makes none on purpose), `isExecutable`, whose result
nobody reads, the memory that `listFiles` never gives back and the descriptors
the parent never closes; paths that do not fit the buffers of the server; a
message that arrives in two halves; `test/server.c` and `utils/test.java`, which
are experiments; `CMakeCCompilerId.c`, which is generated by CMake; scenes and
dialogs, beyond the change of scene that ends a handler; a password, beyond
being right or wrong.
