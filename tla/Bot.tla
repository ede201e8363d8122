--------------------------------- MODULE Bot ---------------------------------
(***************************************************************************)
(* A bot that uses gsbot's Auth and ServerList over restarts: the sentry   *)
(* file, the file of the server list, the Steam directory and the choice   *)
(* of a server in Connect.  ioutil.WriteFile truncates a file before it    *)
(* writes, and the program may be ended at any time: what is in memory is  *)
(* lost, a file in between stays truncated.                                *)
(***************************************************************************)
EXTENDS Naturals, Sequences

CONSTANTS
  MaxEnds,      \* bound: ends of the program
  MaxHashes,    \* bound: sentry hashes
  MaxLists      \* bound: server lists the server sends

ASSUME BoundsAssumption == {MaxEnds, MaxHashes, MaxLists} \subseteq Nat

NoHash    == 0
Truncated == MaxHashes + 1   \* the content of a sentry file that was not written to its end
Contents  == NoHash..Truncated

VARIABLES
  up,                \* the program runs
  initialized,       \* steamDirectoryCache.isInitialized
  directory,         \* the Steam directory: at rest, asked, answered
  listFile,          \* none, truncated, an empty list, or addresses
  sentryFile,        \* NoHash when there is no file
  saving,            \* the WriteFile under way, a file and what is written to it
  machineAuthHash,   \* a.machineAuthHash
  link,              \* the connection: off, connected, loggedOn
  idle,              \* the application knows that it is not connected
  events,            \* c.events
  latest,            \* history: the hash of the last response to Steam
  cut,               \* history: the program ended before that hash was saved
  replayed,          \* history: the last logon carried the latest hash
  lists, ends        \* counters

vars == <<up, initialized, directory, listFile, sentryFile, saving, machineAuthHash, link,
          idle, events, latest, cut, replayed, lists, ends>>

Nothing == <<"nothing", 0>>

Init ==
  /\ up = TRUE /\ initialized = FALSE /\ directory = "rest" /\ listFile = "none"
  /\ sentryFile = NoHash /\ saving = Nothing /\ machineAuthHash = NoHash /\ link = "off" /\ idle = TRUE
  /\ events = <<>> /\ latest = NoHash /\ cut = FALSE /\ replayed = TRUE /\ lists = 0 /\ ends = 0

-----------------------------------------------------------------------------
(* Connecting *)

\* Dialling; an error leaves the application to try again.
Dial ==
  \/ link' = "connected" /\ idle' = FALSE /\ events' = Append(events, <<"Connected", 0>>)
  \/ UNCHANGED <<link, idle, events>>

\* Variant for mutation: without the directory there is no server to connect to.
ConnectDirectory ==
  (initialized \/ directory = "answered")
    /\ IF initialized THEN Dial ELSE UNCHANGED <<link, idle, events>>
\* Client.Connect dials a server of the directory, or of the built-in list when the directory
\* has answered with an error.
ClientConnect == (initialized \/ directory = "answered") /\ Dial

\* The end of the program: a panic or a crash.
End ==
  /\ up' = FALSE /\ initialized' = FALSE /\ directory' = "rest" /\ machineAuthHash' = NoHash
  /\ link' = "off" /\ idle' = TRUE /\ events' = <<>> /\ saving' = Nothing
  /\ cut' = (cut \/ saving[1] = "sentry" \/ \E k \in DOMAIN events : events[k][1] = "Sentry")

\* The application is in a call of ServerList.Connect, or calls it again.
Connecting == up /\ idle /\ directory # "asked" /\ saving = Nothing

\* Without a file Client.Connect is called, which asks the directory unless it is initialized:
\* an HTTP request without a timeout, with sd.Lock held.
AskDirectory ==
  /\ Connecting /\ listFile = "none" /\ ~initialized /\ directory = "rest"
  /\ directory' = "asked"
  /\ UNCHANGED <<up, initialized, listFile, sentryFile, saving, machineAuthHash, link, idle,
                 events, latest, cut, replayed, lists, ends>>
\* The answer comes: an error, a result other than 1 and an empty list leave the directory
\* as it is, not initialized.
Initialize ==
  /\ up /\ directory = "asked" /\ directory' = "answered" /\ initialized' \in BOOLEAN
  /\ UNCHANGED <<up, listFile, sentryFile, saving, machineAuthHash, link, idle, events,
                 latest, cut, replayed, lists, ends>>

\* A file that is there is used; one that does not parse is an error, and rand.Intn panics on
\* an empty list.
Connect ==
  /\ Connecting /\ directory' = "rest"
  /\ \/ listFile = "none" /\ ClientConnect
     \/ listFile = "truncated" /\ UNCHANGED <<link, idle, events>>
     \/ listFile = "addresses" /\ Dial
  /\ UNCHANGED <<up, initialized, listFile, sentryFile, saving, machineAuthHash, latest, cut,
                 replayed, lists, ends>>
ConnectPanics ==
  /\ Connecting /\ listFile = "empty" /\ ends < MaxEnds
  /\ End /\ ends' = ends + 1
  /\ UNCHANGED <<listFile, sentryFile, latest, replayed, lists>>

-----------------------------------------------------------------------------
(* The event loop *)

Event(t) ==
  up /\ saving = Nothing /\ events # <<>> /\ Head(events)[1] = t /\ events' = Tail(events)

\* Variant for mutation: the hash in memory is sent.
HashInMemory == machineAuthHash
\* Auth.LogOn reads the file each time.
SentryFileHash == sentryFile

\* ConnectedEvent: LogOn.  It is sent if the connection still exists.
HandleConnected ==
  /\ Event("Connected")
  /\ IF link = "connected" THEN link' = "loggedOn" /\ replayed' = (SentryFileHash = latest)
     ELSE UNCHANGED <<link, replayed>>
  /\ UNCHANGED <<up, initialized, directory, listFile, sentryFile, saving, machineAuthHash,
                 idle, latest, cut, lists, ends>>

\* DisconnectedEvent: the application will connect again.
HandleDisconnected ==
  /\ Event("Disconnected") /\ idle' = TRUE
  /\ UNCHANGED <<up, initialized, directory, listFile, sentryFile, saving, machineAuthHash,
                 link, latest, cut, replayed, lists, ends>>

\* MachineAuthUpdateEvent, ClientCMListEvent: WriteFile truncates, then writes.
HandleSentry ==
  /\ Event("Sentry")
  /\ LET h == Head(events)[2]
     IN  machineAuthHash' = h /\ saving' = <<"sentry", h>> /\ sentryFile' = Truncated
  /\ UNCHANGED <<up, initialized, directory, listFile, link, idle, latest, cut, replayed,
                 lists, ends>>
HandleCMList ==
  /\ Event("CMList")
  /\ saving' = <<"list", Head(events)[2]>> /\ listFile' = "truncated"
  /\ UNCHANGED <<up, initialized, directory, sentryFile, machineAuthHash, link, idle, latest,
                 cut, replayed, lists, ends>>
Written ==
  /\ up /\ saving # Nothing /\ saving' = Nothing
  /\ \/ saving[1] = "sentry" /\ sentryFile' = saving[2] /\ UNCHANGED listFile
        /\ cut' = (cut /\ saving[2] # latest)
     \/ saving[1] = "list" /\ listFile' = (IF saving[2] = 0 THEN "empty" ELSE "addresses")
        /\ UNCHANGED <<sentryFile, cut>>
  /\ UNCHANGED <<up, initialized, directory, machineAuthHash, link, idle, events, latest,
                 replayed, lists, ends>>

-----------------------------------------------------------------------------
(* The read loop and the environment *)

\* handleUpdateMachineAuth: Steam is told the hash, then the event is emitted.
UpdateMachineAuth ==
  /\ link = "loggedOn" /\ latest < MaxHashes
  /\ latest' = latest + 1 /\ events' = Append(events, <<"Sentry", latest'>>)
  /\ UNCHANGED <<up, initialized, directory, listFile, sentryFile, saving, machineAuthHash,
                 link, idle, cut, replayed, lists, ends>>

\* handleClientCMList, with a list of n addresses.
ClientCMList(n) ==
  /\ link = "loggedOn" /\ lists < MaxLists /\ lists' = lists + 1
  /\ events' = Append(events, <<"CMList", n>>)
  /\ UNCHANGED <<up, initialized, directory, listFile, sentryFile, saving, machineAuthHash,
                 link, idle, latest, cut, replayed, ends>>

\* The connection ends: DisconnectedEvent.
Lose ==
  /\ link # "off" /\ link' = "off" /\ events' = Append(events, <<"Disconnected", 0>>)
  /\ UNCHANGED <<up, initialized, directory, listFile, sentryFile, saving, machineAuthHash,
                 idle, latest, cut, replayed, lists, ends>>

Crash ==
  /\ up /\ ends < MaxEnds /\ ends' = ends + 1 /\ End
  /\ UNCHANGED <<listFile, sentryFile, latest, replayed, lists>>
Restart ==
  /\ ~up /\ up' = TRUE
  /\ UNCHANGED <<initialized, directory, listFile, sentryFile, saving, machineAuthHash, link,
                 idle, events, latest, cut, replayed, lists, ends>>

Next ==
  \/ AskDirectory \/ Initialize \/ Connect \/ ConnectPanics \/ HandleConnected
  \/ HandleDisconnected \/ HandleSentry \/ HandleCMList \/ Written \/ UpdateMachineAuth
  \/ Lose \/ Crash \/ Restart
  \/ \E n \in 0..1 : ClientCMList(n)

\* The program runs on and is restarted; a server that is dialled again and again answers at
\* last.  The directory owes nothing: it may fail each time, or leave a request unanswered.
Spec ==
  /\ Init /\ [][Next]_vars
  /\ WF_vars(Restart) /\ WF_vars(Written) /\ WF_vars(AskDirectory)
  /\ WF_vars(HandleConnected \/ HandleDisconnected \/ HandleSentry \/ HandleCMList)
  /\ SF_vars(Connect /\ link' = "connected")

-----------------------------------------------------------------------------
(* Properties *)

\* Every logon carries the hash Steam was last told, over lost connections and restarts: a
\* hash is saved before the logon of the next connection.  The exception is a program that
\* ends between the response and the end of the save (auth.go:293-295, gsbot.go:66-88).
SentryReplayed == [][HandleConnected /\ link' = "loggedOn" => replayed' \/ cut]_vars

\* A bot that is not connected gets connected, also where the directory answers every request
\* with an error, and after any number of restarts; unless a request to the directory is never
\* answered at all, or the program has ended within the save of a server list or saved an
\* empty one: then no later Connect succeeds (gsbot.go:108-142, client.go:150-165,
\* steam_directory.go:30-58).
BotConnects ==
  []<>(directory # "asked") =>
    ((up /\ idle) ~>
       (link # "off" \/ ~up \/ (saving = Nothing /\ listFile \in {"truncated", "empty"})))
=============================================================================
