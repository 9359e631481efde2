-------------------------------- MODULE Mpd --------------------------------
(***************************************************************************)
(* The mpd module (modules/mpd.cpp) and its connection (adapters/mpd.cpp). *)
(* The runner polls the server with idle and noidle and keeps the last     *)
(* status; the event queue's worker opens a second connection for every    *)
(* action and looks at the status for the format.  The server stops and    *)
(* starts.                                                                 *)
(*                                                                         *)
(* The status is the play state.  m_mpd exists exactly while it has a      *)
(* connection: connect() drops both when it fails.  The SIGPIPE handler    *)
(* and its flag belong to the process.  Operators whose name has a suffix  *)
(* are bugs that the code could have.                                      *)
(***************************************************************************)
EXTENDS Naturals

CONSTANT MaxChanges  \* bound on what the server and the user do

Players == {"play", "pause", "stop"}

VARIABLES
  server,           \* "up" or "down"
  player,           \* its play state
  changes,          \* how often something happened
  link,             \* m_mpd's connection: "none", "ok", "broken" by the
                    \* server, or "dead" with an error recorded
  pending,          \* the server holds events for it
  m_idle, m_status, m_statebroadcasted,
  g_connection_closed,
  handler,          \* of SIGPIPE: is it polybar's?
  rpc, def,         \* the runner; has_event()'s default answer
  wpc,              \* the worker: at an "action"
  killed,           \* what ended polybar: "no", "pipe", "null"
  stale,            \* history: m_status is of an earlier connection
  disarmed, stolen  \* history: the handler, the flag went to an action

client == <<link, pending, m_idle>>
world == <<server, player, changes>>
history == <<stale, disarmed, stolen>>
vars == <<world, client, m_status, m_statebroadcasted, g_connection_closed,
          handler, rpc, def, wpc, killed, history>>

TypeOK ==
  /\ server \in {"up", "down"} /\ player \in Players /\ changes \in 0 .. MaxChanges
  /\ link \in {"none", "ok", "broken", "dead"}
  /\ pending \in BOOLEAN /\ m_idle \in BOOLEAN
  /\ m_status \in Players \cup {"null"}
  /\ m_statebroadcasted \in {"none", "connected", "disconnected"}
  /\ g_connection_closed \in BOOLEAN /\ handler \in BOOLEAN
  /\ rpc \in {"event", "fetch", "idle", "noidle", "flags", "rest", "update",
              "song", "sleep"}
  /\ def \in BOOLEAN /\ wpc \in {"none", "action"}
  /\ killed \in {"no", "pipe", "null"}
  /\ stale \in BOOLEAN /\ disarmed \in BOOLEAN /\ stolen \in BOOLEAN

(* The constructor connects and fetches the status, or fails.              *)
Init ==
  /\ server \in {"up", "down"} /\ player \in Players /\ changes = 0
  /\ link = IF server = "up" THEN "ok" ELSE "none"
  /\ m_status = IF server = "up" THEN player ELSE "null"
  /\ pending = FALSE /\ m_idle = FALSE
  /\ m_statebroadcasted = "none" /\ g_connection_closed = FALSE
  /\ handler = (server = "up")
  /\ rpc = "update" /\ def = FALSE /\ wpc = "none" /\ killed = "no"
  /\ stale = FALSE /\ disarmed = FALSE /\ stolen = FALSE

connected == link # "none"
Running == killed = "no"
Goto(pc) == rpc' = pc

-----------------------------------------------------------------------------
(* The server: external.                                                   *)
ServerOnly == <<m_idle, m_status, m_statebroadcasted, g_connection_closed,
                handler, rpc, def, wpc, killed, history>>
Happens == Running /\ changes < MaxChanges /\ changes' = changes + 1

Change ==
  /\ Happens /\ server = "up" /\ player' \in Players \ {player}
  /\ pending' = (link = "ok")
  /\ UNCHANGED <<server, link, ServerOnly>>

ServerStops ==
  /\ Happens /\ server = "up" /\ server' = "down"
  /\ link' = (IF link = "ok" THEN "broken" ELSE link) /\ pending' = FALSE
  /\ UNCHANGED <<player, ServerOnly>>

ServerStarts ==
  /\ Happens /\ server = "down" /\ server' = "up" /\ player' \in Players
  /\ UNCHANGED <<link, pending, ServerOnly>>

-----------------------------------------------------------------------------
(* Writing to a connection that the server has closed raises SIGPIPE.      *)
Pipe_Forgotten == UNCHANGED <<g_connection_closed, killed>>
Pipe_Unhandled == killed' = "pipe" /\ UNCHANGED g_connection_closed

Pipe ==
  IF handler THEN g_connection_closed' = TRUE /\ UNCHANGED killed
  ELSE killed' = "pipe" /\ UNCHANGED g_connection_closed

(* m_mpd.reset(): its destructor restores the default handler.             *)
ResetMpd ==
  /\ link' = "none" /\ pending' = FALSE /\ m_idle' = FALSE
  /\ handler' = FALSE /\ disarmed' = FALSE /\ stolen' = FALSE

(* A reset because check_connection() saw the flag, which it clears.       *)
Closed == g_connection_closed /\ g_connection_closed' = FALSE

Answer == Goto(IF def THEN "update" ELSE "sleep")

(* Fetching: m_status is dereferenced, and the answer of the server too.   *)
FetchStatus ==
  IF link = "ok" THEN m_status' = player /\ stale' = FALSE /\ UNCHANGED killed
  ELSE killed' = "null" /\ UNCHANGED <<m_status, stale>>

-----------------------------------------------------------------------------
(* has_event().                                                            *)
RunnerOnly == <<world, m_statebroadcasted, wpc>>

HasEvent ==
  /\ rpc = "event"
  /\ def' = (m_statebroadcasted = IF connected THEN "disconnected" ELSE "connected")
  /\ \/ connected /\ Goto("fetch") /\ UNCHANGED <<client, handler, g_connection_closed, history>>
     \/ /\ ~connected /\ g_connection_closed' = FALSE
        /\ IF server = "up" /\ ~g_connection_closed
           THEN /\ link' = "ok" /\ handler' = TRUE /\ disarmed' = FALSE
                /\ stale' = (m_status # "null") /\ Goto("fetch")
                /\ UNCHANGED <<pending, m_idle, stolen>>
           ELSE /\ ResetMpd /\ Goto(IF def' THEN "update" ELSE "sleep")
                /\ UNCHANGED stale
  /\ UNCHANGED <<RunnerOnly, m_status, killed>>

(* get_status_safe(), without a status: it gives none if the flag is set.  *)
Fetch ==
  /\ rpc = "fetch" /\ Goto("idle")
  /\ IF m_status # "null" THEN UNCHANGED <<m_status, stale, killed, g_connection_closed>>
     ELSE IF g_connection_closed THEN Closed /\ UNCHANGED <<m_status, stale, killed>>
     ELSE FetchStatus /\ UNCHANGED g_connection_closed
  /\ UNCHANGED <<RunnerOnly, client, handler, def, disarmed, stolen>>

Keep == UNCHANGED <<client, handler, g_connection_closed, disarmed, stolen>>
Throw == ResetMpd /\ Answer

(* The server may have gone: the first bytes still leave.                  *)
Idle ==
  /\ rpc = "idle" /\ UNCHANGED <<RunnerOnly, m_status, def, killed, stale>>
  /\ \/ Closed /\ Throw
     \/ /\ ~g_connection_closed /\ m_idle' = TRUE /\ Goto("noidle")
        /\ UNCHANGED <<link, pending, handler, g_connection_closed, disarmed, stolen>>
     \/ ~g_connection_closed /\ ~m_idle /\ link = "broken" /\ Throw /\ UNCHANGED g_connection_closed

(* If noidle cannot be sent, the error stays unseen and m_idle set.        *)
Noidle ==
  /\ rpc = "noidle" /\ UNCHANGED <<RunnerOnly, m_status, def, stale>>
  /\ \/ Closed /\ Throw /\ UNCHANGED killed
     \/ /\ ~g_connection_closed /\ link = "ok"
        /\ m_idle' = FALSE /\ pending' = FALSE
        /\ Goto(IF pending THEN "flags" ELSE "rest")
        /\ UNCHANGED <<link, handler, g_connection_closed, disarmed, stolen, killed>>
     \/ /\ ~g_connection_closed /\ link = "broken"
        /\ link' = "dead" /\ Pipe /\ Goto("rest")
        /\ UNCHANGED <<pending, m_idle, handler, disarmed, stolen>>
     \/ ~g_connection_closed /\ link = "broken" /\ Throw /\ UNCHANGED <<g_connection_closed, killed>>
     \/ ~g_connection_closed /\ link = "dead" /\ Goto("rest") /\ Keep /\ UNCHANGED killed

Flags_OnlyPlaying ==
  /\ rpc = "flags" /\ Goto("update")
  /\ IF m_status = "null" THEN killed' = "null" /\ UNCHANGED <<m_status, stale>>
     ELSE IF m_status = "play" THEN FetchStatus
     ELSE UNCHANGED <<m_status, stale, killed>>
  /\ Keep /\ UNCHANGED <<RunnerOnly, def>>

Flags ==
  /\ rpc = "flags" /\ Goto("update")
  /\ IF m_status = "null" THEN killed' = "null" /\ UNCHANGED <<m_status, stale>>
     ELSE FetchStatus
  /\ Keep /\ UNCHANGED <<RunnerOnly, def>>

(* While it plays, the time shown is refreshed now and then.               *)
Rest ==
  /\ rpc = "rest"
  /\ \/ m_status = "null" /\ killed' = "null" /\ UNCHANGED rpc
     \/ m_status # "null" /\ Answer /\ UNCHANGED killed
     \/ m_status = "play" /\ Goto("update") /\ UNCHANGED killed
  /\ Keep /\ UNCHANGED <<RunnerOnly, def, m_status, stale>>

-----------------------------------------------------------------------------
(* update() and idle() of the module.                                      *)
Update ==
  /\ rpc = "update"
  /\ m_statebroadcasted' = IF connected THEN "connected" ELSE "disconnected"
  /\ IF ~connected
     THEN /\ Goto(IF m_statebroadcasted = "disconnected" THEN "sleep" ELSE "song")
          /\ UNCHANGED <<m_status, stale, killed, g_connection_closed>>
     ELSE CASE m_status = "null" /\ g_connection_closed ->
                 Closed /\ Goto("song") /\ UNCHANGED <<m_status, stale, killed>>
            [] m_status = "null" /\ ~g_connection_closed ->
                 FetchStatus /\ Goto("sleep") /\ UNCHANGED g_connection_closed
            [] m_status = "play" -> FetchStatus /\ Goto("song") /\ UNCHANGED g_connection_closed
            [] OTHER -> Goto("song") /\ UNCHANGED <<m_status, stale, killed, g_connection_closed>>
  /\ UNCHANGED <<world, wpc, client, handler, def, disarmed, stolen>>

(* get_song(): any error drops the connection.                             *)
Song ==
  /\ rpc = "song" /\ Goto("sleep")
  /\ IF ~connected THEN Keep /\ UNCHANGED killed
     ELSE \/ Closed /\ ResetMpd /\ UNCHANGED killed
          \/ ~g_connection_closed /\ link = "ok" /\ Keep /\ UNCHANGED killed
          \/ ~g_connection_closed /\ link # "ok" /\ ResetMpd /\ UNCHANGED <<g_connection_closed, killed>>
          \/ link = "broken" /\ ~handler /\ killed' = "pipe" /\ Keep
  /\ UNCHANGED <<RunnerOnly, def, m_status, stale>>

Sleep ==
  /\ rpc = "sleep" /\ Goto("event")
  /\ Keep /\ UNCHANGED <<RunnerOnly, def, m_status, stale, killed>>

RunnerStep ==
  /\ Running
  /\ \/ HasEvent \/ Fetch \/ Idle \/ Noidle \/ Flags \/ Rest \/ Update
     \/ Song \/ Sleep

-----------------------------------------------------------------------------
ActionOnly == <<client, m_status, m_statebroadcasted, rpc, def, killed, stale>>

(* An action: its connection installs the handler and takes the flag.      *)
BeginAction ==
  /\ Happens /\ wpc = "none" /\ wpc' = "action" /\ handler' = TRUE
  /\ stolen' = (stolen \/ g_connection_closed) /\ g_connection_closed' = FALSE
  /\ UNCHANGED <<server, player, ActionOnly, disarmed>>

(* It changes the state if the server is up; then its connection goes, and *)
(* with it the handler.                                                    *)
EndAction ==
  /\ Running /\ wpc = "action" /\ wpc' = "none"
  /\ handler' = FALSE /\ disarmed' = (link # "none")
  /\ player' \in IF server = "up" THEN Players ELSE {player}
  /\ pending' = (pending \/ (player' # player /\ link = "ok"))
  /\ UNCHANGED <<server, changes, link, m_idle, m_status, m_statebroadcasted,
                 g_connection_closed, rpc, def, killed, stale, stolen>>

(* get_format(), on the worker too, under another lock than the runner's.  *)
GetFormat ==
  /\ Running /\ wpc = "none" /\ connected /\ m_status = "null" /\ killed' = "null"
  /\ UNCHANGED <<world, client, m_status, m_statebroadcasted,
                 g_connection_closed, handler, rpc, def, wpc, history>>

Next ==
  \/ Change \/ ServerStops \/ ServerStarts
  \/ RunnerStep \/ BeginAction \/ EndAction \/ GetFormat

Spec == Init /\ [][Next]_vars

(* The runner runs and its timed sleeps end.                               *)
FairSpec == Spec /\ WF_vars(RunnerStep)

-----------------------------------------------------------------------------
(* The play state shown is the server's, or an event is on its way that    *)
(* will fetch it, unless it was kept over a reconnection.                  *)
StatusFollows ==
  link = "ok" /\ m_status \notin {"null", player} =>
    pending \/ rpc = "flags" \/ stale

(* A broken connection ends polybar only if an action ended since the      *)
(* module connected: its connection took the SIGPIPE handler with it.      *)
PipeHandled == killed = "pipe" => disarmed

(* A connection that the server closed is given up, unless an action took  *)
(* the flag that the runner waits for.                                     *)
Lost == link \in {"broken", "dead"}
Noticed == ~Lost \/ ~Running \/ stolen
LostServerNoticed == Lost ~> Noticed

-----------------------------------------------------------------------------
(* What is proved of it: a connection that broke does not end polybar      *)
(* unless an action has disarmed the SIGPIPE handler, and the play state   *)
(* shown is the server's or about to be.                                   *)

(* The handler belongs to the process, and connecting arms it: while the   *)
(* module is connected it is armed, unless an action has taken it down.    *)
Armed == connected => handler \/ disarmed

(* Only a server that is up keeps a connection.                            *)
Served == link = "ok" => server = "up"

Inv == Armed /\ PipeHandled /\ Served /\ StatusFollows
=============================================================================
