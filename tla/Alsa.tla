-------------------------------- MODULE Alsa --------------------------------
(***************************************************************************)
(* The alsa module: modules/alsa.cpp polls up to three mixers and one      *)
(* headphone jack, multiplies what they say into one volume, and changes   *)
(* them through fresh handles of its own (adapters/alsa/mixer.cpp).  The   *)
(* runner updates while the event queue's worker runs actions, without a   *)
(* lock.                                                                   *)
(*                                                                         *)
(* alsa-lib (external): a handle knows the values that it has read; a      *)
(* change by anybody else leaves an event in it.  Volumes are the raw      *)
(* 0 .. Top of a mixer; decibels (mapped = true) are left out.             *)
(***************************************************************************)
EXTENDS Integers, Sequences

CONSTANTS Configurations,  \* sets of mixers that a configuration may name
          Top, Interval,   \* loudest raw volume; per cent of a wheel step
          MaxOps           \* bound on what users and other programs do

VARIABLES
  m_mixer, hw, plugged,    \* configured mixers; the sound card, the jack
  m_cache, unread, jacks,  \* the module's handles, events waiting in them
  m_volume, m_muted, m_headphones,
  runner,                  \* "update", "master", "headphone", "speaker", "poll"
  action, ops,             \* the action that the worker runs; bound
  was                      \* muted before an undisturbed toggle, or "unknown"

vars == <<m_mixer, hw, plugged, m_cache, unread, jacks, m_volume, m_muted,
          m_headphones, runner, action, ops, was>>
module == <<m_volume, m_muted, m_headphones, runner>>
handles == <<m_cache, unread, jacks>>

Elements == [vol : 0 .. Top, on : BOOLEAN]
NoAction == [is |-> "none", todo |-> <<>>, own |-> << >>]

TypeOK ==
  /\ m_mixer \in Configurations /\ hw \in [m_mixer -> Elements]
  /\ m_cache \in [m_mixer -> Elements] /\ unread \subseteq m_mixer
  /\ m_volume \in 0 .. 100 /\ jacks \in 0 .. MaxOps
  /\ action.todo \in Seq(m_mixer) /\ was \in {"unknown", "muted", "loud"}

-----------------------------------------------------------------------------
(* math_util, in integers: the nearest per cent, the nearest raw volume.   *)
Percent(raw, top) == (200 * raw + top) \div (2 * top)
Cap(n, lo, hi) == IF n > hi THEN hi ELSE IF n < lo THEN lo ELSE n
PercentToValue(p, top) == Cap((2 * p * top + 100) \div 200, 0, top)
Stepped(raw, step, top) == PercentToValue(Cap(Percent(raw, top) + step, 0, 100), top)

Times(volume, e) == (volume * Percent(e.vol, Top)) \div 100

(* What all of it sounds like: the master and what is listened to.         *)
Heard == m_mixer \cap
  IF plugged /\ "HEADPHONE" \in m_mixer THEN {"MASTER", "HEADPHONE"} ELSE {"MASTER", "SPEAKER"}
By(volume, m) == IF m \in Heard THEN Times(volume, hw[m]) ELSE volume
Loudness == By(By(By(100, "MASTER"), "HEADPHONE"), "SPEAKER")
Silenced == \E m \in Heard : ~hw[m].on

Init ==
  /\ m_mixer \in Configurations /\ plugged \in BOOLEAN
  /\ hw \in [m_mixer -> {e \in Elements : e.vol = Top \div 2}]
  /\ m_cache = hw /\ unread = {} /\ jacks = 0
  /\ m_volume = 100 /\ m_muted = FALSE /\ m_headphones = FALSE
  /\ runner = "update" /\ action = NoAction /\ ops = 0 /\ was = "unknown"

-----------------------------------------------------------------------------
(* has_event(): the first handle with an event ends the poll; the event is *)
(* gone from it.  An event of the jack is one of several.                  *)
Polled ==
  CHOOSE m \in unread : \A n \in unread :
    m = "MASTER" \/ n = "HEADPHONE" \/ m = n

JackEvent == jacks > 0 /\ jacks' = jacks - 1
DevicePlugged == "HEADPHONE" \in m_mixer /\ plugged

Poll ==
  /\ runner = "poll" /\ runner' = "update"
  /\ IF unread # {}
     THEN /\ unread' = unread \ {Polled} /\ UNCHANGED jacks
          /\ m_cache' = [m_cache EXCEPT ![Polled] = hw[Polled]]
     ELSE JackEvent /\ UNCHANGED <<unread, m_cache>>
  /\ UNCHANGED <<m_mixer, hw, plugged, m_volume, m_muted, m_headphones, action, ops, was>>

(* update(): reads what is waiting, starts from nothing, and goes through  *)
(* the mixers.                                                             *)
Update ==
  /\ runner = "update" /\ runner' = "master"
  /\ m_cache' = hw /\ unread' = {} /\ jacks' = IF jacks > 0 THEN jacks - 1 ELSE 0
  /\ m_volume' = 100 /\ m_muted' = FALSE /\ m_headphones' = FALSE
  /\ was' = IF action.is = "toggle" THEN "unknown" ELSE was
  /\ UNCHANGED <<m_mixer, hw, plugged, action, ops>>

Query(m) ==
  /\ m_volume' = Times(m_volume, m_cache[m])
  /\ m_muted' = (m_muted \/ ~m_cache[m].on)

UpdateMaster ==
  /\ runner = "master" /\ runner' = "headphone"
  /\ IF "MASTER" \in m_mixer THEN Query("MASTER") ELSE UNCHANGED <<m_volume, m_muted>>
  /\ UNCHANGED <<m_mixer, hw, plugged, handles, m_headphones, action, ops, was>>

UpdateHeadphone ==
  /\ runner = "headphone" /\ runner' = "speaker"
  /\ IF DevicePlugged
     THEN m_headphones' = TRUE /\ Query("HEADPHONE")
     ELSE UNCHANGED <<m_headphones, m_volume, m_muted>>
  /\ UNCHANGED <<m_mixer, hw, plugged, handles, action, ops, was>>

UpdateSpeaker ==
  /\ runner = "speaker" /\ runner' = "poll"
  /\ IF "SPEAKER" \in m_mixer /\ ~m_headphones THEN Query("SPEAKER") ELSE UNCHANGED <<m_volume, m_muted>>
  /\ UNCHANGED <<m_mixer, hw, plugged, handles, m_headphones, action, ops, was>>

RunnerStep == Poll \/ Update \/ UpdateMaster \/ UpdateHeadphone \/ UpdateSpeaker

Settled == runner = "poll" /\ unread = {} /\ jacks = 0

-----------------------------------------------------------------------------
(* get_mixers(): what an action works on, in this order, by new handles.   *)
Other == IF m_headphones THEN "HEADPHONE" ELSE "SPEAKER"
Mixers == IF Other \in m_mixer THEN <<"MASTER", Other>> ELSE <<"MASTER">>

Begin(is) ==
  /\ action = NoAction /\ "MASTER" \in m_mixer /\ ops < MaxOps /\ ops' = ops + 1
  /\ action' = [is |-> is, todo |-> Mixers, own |-> hw]
  /\ was' = IF is # "toggle" \/ ~Settled THEN "unknown" ELSE IF Silenced THEN "muted" ELSE "loud"
  /\ UNCHANGED <<m_mixer, hw, plugged, handles, module>>

(* A mixer is set through its new handle; the module's gets an event when  *)
(* that changes anything.                                                  *)
Set(m, e) ==
  /\ hw' = [hw EXCEPT ![m] = e]
  /\ unread' = IF e # hw[m] THEN unread \cup {m} ELSE unread
  /\ action' = IF Len(action.todo) = 1 THEN NoAction
               ELSE [action EXCEPT !.todo = Tail(@), !.own[m] = e]

(* set_mute(on): what is passed is the playback switch.  It is computed    *)
(* anew for each mixer, after the master has been switched.                *)
Switch_MasterOnly == ~action.own["MASTER"].on
Switch == m_muted \/ ~action.own["MASTER"].on

ToggleNext ==
  /\ action.is = "toggle"
  /\ LET m == Head(action.todo) IN Set(m, [action.own[m] EXCEPT !.on = Switch])
  /\ UNCHANGED <<m_mixer, plugged, m_cache, jacks, module, ops, was>>

(* set_volume() of a muted mixer does nothing.                             *)
ChangeNext ==
  /\ action.is \in {"inc", "dec"}
  /\ LET m == Head(action.todo)  e == action.own[m]
         step == IF action.is = "inc" THEN Interval ELSE -Interval
     IN Set(m, IF e.on THEN [e EXCEPT !.vol = Stepped(@, step, Top)] ELSE e)
  /\ UNCHANGED <<m_mixer, plugged, m_cache, jacks, module, ops, was>>

ActionStep == (\E is \in {"toggle", "inc", "dec"} : Begin(is)) \/ ToggleNext \/ ChangeNext

(* Another program, or a hand at the jack.                                 *)
Elsewhere ==
  /\ ops < MaxOps /\ ops' = ops + 1 /\ was' = "unknown"
  /\ \/ /\ \E m \in m_mixer : /\ hw' = [hw EXCEPT ![m].on = ~@]
                              /\ unread' = unread \cup {m}
        /\ UNCHANGED <<plugged, jacks>>
     \/ /\ "HEADPHONE" \in m_mixer /\ plugged' = ~plugged /\ jacks' = jacks + 1
        /\ UNCHANGED <<hw, unread>>
  /\ UNCHANGED <<m_mixer, m_cache, module, action>>

Next == RunnerStep \/ ActionStep \/ Elsewhere
Spec == Init /\ [][Next]_vars

-----------------------------------------------------------------------------
(* Once everything is read, what the module shows is what is heard.        *)
ShowsHeard ==
  Settled => /\ m_volume = Loudness /\ m_muted = Silenced
             /\ m_headphones = (plugged /\ "HEADPHONE" \in m_mixer)

(* A toggle that starts from what is heard, with nothing in between, turns *)
(* sound into silence and silence into sound, for all mixers together.     *)
ToggleTurns ==
  action = NoAction =>
    /\ was = "muted" => ~Silenced
    /\ was = "loud" => Silenced

(* A wheel step of at least one raw volume moves any mixer, up to its end; *)
(* looked at once for each beginning.                                      *)
StepMoves ==
  \A top \in 1 .. 20, step \in {1, 2, 5, 7, 10, 33, 50} :
    ops = 0 /\ runner = "update" /\ step * top >= 100 =>
      \A raw \in 0 .. top - 1 :
        /\ Stepped(raw, step, top) > raw
        /\ Stepped(raw + 1, -step, top) < raw + 1

-----------------------------------------------------------------------------
(* What is proved of it.  A handle without an event knows the card ...     *)
Cached ==
  /\ hw = [m \in m_mixer |-> hw[m]] /\ m_cache = [m \in m_mixer |-> m_cache[m]]
  /\ \A m \in m_mixer : m \notin unread => m_cache[m] = hw[m]

(* ... and without any, an update is as far as the runner is.              *)
Quiet(m) == m \in Heard /\ ~hw[m].on
Updated ==
  /\ runner = "master" => m_volume = 100 /\ m_muted = FALSE /\ m_headphones = FALSE
  /\ runner = "headphone" =>
       /\ m_volume = By(100, "MASTER") /\ m_muted = Quiet("MASTER") /\ m_headphones = FALSE
  /\ runner = "speaker" =>
       /\ m_volume = By(By(100, "MASTER"), "HEADPHONE")
       /\ m_muted = (Quiet("MASTER") \/ Quiet("HEADPHONE")) /\ m_headphones = DevicePlugged
  /\ runner = "poll" =>
       /\ m_volume = Loudness /\ m_headphones = DevicePlugged
       /\ m_muted = (Quiet("MASTER") \/ Quiet("HEADPHONE") \/ Quiet("SPEAKER"))

Following == jacks \in Nat /\ Cached /\ (unread = {} /\ jacks = 0 => Updated)

(* A toggle that nothing crosses has all mixers before it, or the master   *)
(* is switched and the other one is not: it will be on.                    *)
Formed(e) == DOMAIN e = {"vol", "on"} /\ e.on \in BOOLEAN
Settable ==
  /\ m_muted \in BOOLEAN /\ \A m \in m_mixer : Formed(hw[m])
  /\ action = [is |-> action.is, todo |-> action.todo, own |-> action.own]
  /\ action # NoAction =>
       /\ "MASTER" \in m_mixer /\ \E m \in m_mixer : action.todo \in {<<"MASTER", m>>, <<m>>}
       /\ action.own = [m \in m_mixer |-> action.own[m]] /\ \A m \in m_mixer : Formed(action.own[m])

Begun == action.todo = Mixers /\ action.own = hw /\ Silenced = (was = "muted")
HalfDone ==
  /\ action.todo = <<Other>> /\ Other \in m_mixer
  /\ hw["MASTER"].on = (was = "muted") /\ action.own["MASTER"].on = (was = "muted")
Undisturbed ==
  /\ action.is = "toggle" /\ "MASTER" \in m_mixer /\ runner \in {"poll", "update"}
  /\ m_muted = (was = "muted") /\ m_headphones = DevicePlugged
Toggling ==
  was # "unknown" =>
    /\ was \in {"muted", "loud"}
    /\ action = NoAction => Silenced = (was = "loud")
    /\ action # NoAction => Undisturbed /\ (Begun \/ HalfDone)

Inv == Following /\ Settable /\ Toggling
=============================================================================
