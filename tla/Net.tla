-------------------------------- MODULE Net --------------------------------
(***************************************************************************)
(* The network module (modules/network.cpp) and its adapter: net.cpp for   *)
(* every interface, net_nl.cpp (nl80211) or net_iw.cpp (wireless           *)
(* extensions), whichever is built, for a wireless one.  The runner        *)
(* queries the interface once in a while, pings now and then, and a second *)
(* thread redraws the animation while packets get lost.                    *)
(*                                                                         *)
(* The system (external) is a record: whether its calls work, the state of *)
(* the interface, its addresses, the access points in the last scan.       *)
(***************************************************************************)
EXTENDS Integers, Sequences, FiniteSetsExt

CONSTANTS Configs,  \* [type, built, accumulate, tuntap, unknown_up, ping]
          Systems,
          Word,     \* byte counters wrap there (2^32)
          MaxOps    \* bound on what the system does

VARIABLES
  conf, system,
  bytes, since,     \* received by both interfaces; since the last query
  runner,           \* "update", "ping", "publish", "sleep"
  current, previous, ip,
  m_essid, m_signal, m_connected, m_packetloss, m_counter,
  shown,            \* what was broadcast last
  last, queried,    \* history: the system at the last query; whether the
                    \* last two went well; the bytes between them;
  traffic, age, ops \* connected updates since a ping; bound

vars == <<conf, system, bytes, since, runner, current, previous, ip, m_essid, m_signal,
          m_connected, m_packetloss, m_counter, shown, last, queried, traffic, age, ops>>
status == <<current, previous, ip, m_essid, m_signal>>
history == <<last, queried, traffic, age>>
NO_IP == "N/A"
NoIp == [inet |-> NO_IP, inet6 |-> NO_IP]
Interface == "own"

TypeOK ==
  /\ conf \in Configs /\ system \in Systems
  /\ runner \in {"update", "ping", "publish", "sleep"}
  /\ {current, previous, bytes.own, bytes.other} \subseteq 0 .. Word - 1
  /\ m_counter \in -1 .. conf.ping /\ m_signal \in 0 .. 100
  /\ shown.format \in {"none", "connected", "disconnected", "packetloss"}

Init ==
  /\ conf \in Configs /\ system \in Systems
  /\ bytes = [own |-> Word - 2, other |-> 0] /\ since = 0 /\ runner = "update"
  /\ current = 0 /\ previous = 0 /\ ip = NoIp /\ m_essid = "" /\ m_signal = 0
  /\ m_connected = FALSE /\ m_packetloss = FALSE /\ m_counter = -1
  /\ shown = [format |-> "none", essid |-> "", ip |-> NoIp, rate |-> 0]
  /\ last = system /\ queried = <<FALSE, FALSE>> /\ traffic = 0 /\ age = 0 /\ ops = 0

-----------------------------------------------------------------------------
(* A list is gone through, and what counts replaces what was found before. *)
LastFound(n, counts, value, before) ==
  LET upto[k \in 0 .. n] == IF k = 0 THEN before ELSE IF k \in counts THEN value[k] ELSE upto[k - 1]
  IN upto[n]

(* network::query(): the last address of each family, among those of IPv6  *)
(* the last global one; the bytes of this interface or, with accumulate,   *)
(* of all.                                                                 *)
Counts(a, family) == a.name = Interface /\ a.family = family /\ (family = "inet6" => a.scope = "global")
Address(addrs, family) ==
  LastFound(Len(addrs), {i \in DOMAIN addrs : Counts(addrs[i], family)}, [i \in DOMAIN addrs |-> addrs[i].addr], NO_IP)
Ip(addrs) == [inet |-> Address(addrs, "inet"), inet6 |-> Address(addrs, "inet6")]

Received == IF conf.accumulate THEN (bytes.own + bytes.other) % Word ELSE bytes.own

(* parse_essid(): the loop looks for the first element that is an SSID;    *)
(* what it finds counts if there is still something behind it.             *)
ParseEssid(ies) ==
  LET ssids == {i \in DOMAIN ies : ies[i].id = "ssid"}
  IN IF ssids # {} /\ Min(ssids) < Len(ies) THEN ies[Min(ssids)].name ELSE ""

AssociatedOrJoined(bss) == bss.status \in {"associated", "joined", "authenticated"}

(* scan_cb() for each access point in turn; without an associated one the  *)
(* name of before stays.                                                   *)
Joined(scan) == {i \in DOMAIN scan : AssociatedOrJoined(scan[i])}
ScanEssid(scan) == LastFound(Len(scan), Joined(scan), [i \in DOMAIN scan |-> ParseEssid(scan[i].ies)], m_essid)

(* parse_signal(): mBm to a share of -90 .. -20 dBm.                       *)
Clamp(n, lo, hi) == IF n < lo THEN lo ELSE IF n > hi THEN hi ELSE n
ParseSignal(mbm) == ((Clamp(-((-mbm) \div 100), -90, -20) + 90) * 200 + 70) \div 140
ScanSignal(scan) == LastFound(Len(scan), Joined(scan), [i \in DOMAIN scan |-> ParseSignal(scan[i].mbm)], m_signal)

(* wireless_network::query() by netlink; by wireless extensions, where an  *)
(* ad-hoc network is refused and the name is cleared when there is none.   *)
Queryable ==
  /\ system.calls
  /\ conf.type = "wireless" => system.wireless /\ (conf.built = "iw" => ~system.adhoc)

QueryWireless ==
  IF conf.type = "wired" THEN UNCHANGED <<m_essid, m_signal>>
  ELSE IF conf.built = "nl" THEN m_essid' = ScanEssid(system.scan) /\ m_signal' = ScanSignal(system.scan)
  ELSE m_essid' = system.essid /\ UNCHANGED m_signal

TestInterface ==
  \/ system.operstate = "up"
  \/ conf.unknown_up /\ system.operstate = "unknown"

WiredConnected == (conf.tuntap \/ TestInterface) /\ system.link
WirelessConnected == TestInterface /\ m_essid' # ""
Connected == IF conf.type = "wired" THEN WiredConnected ELSE WirelessConnected

(* update(), up to the ping.  A query that fails leaves without a          *)
(* broadcast; what it has changed by then stays changed.                   *)
QueryFails ==
  /\ runner = "update" /\ ~Queryable /\ runner' = "sleep"
  /\ previous' = current /\ since' = 0 /\ traffic' = since /\ m_connected' = FALSE
  /\ current' = IF system.calls THEN Received ELSE 0
  /\ ip' = IF system.calls THEN Ip(system.addrs) ELSE NoIp
  /\ last' = system /\ queried' = <<queried[2], FALSE>>
  /\ UNCHANGED <<conf, system, bytes, m_essid, m_signal, m_packetloss, m_counter, shown, ops, age>>

PingsAt(n) == conf.ping > 0 /\ n % conf.ping = 0

Query ==
  /\ runner = "update" /\ Queryable
  /\ previous' = current /\ current' = Received /\ since' = 0 /\ traffic' = since /\ ip' = Ip(system.addrs)
  /\ QueryWireless /\ m_connected' = Connected
  /\ last' = system /\ queried' = <<queried[2], TRUE>>
  /\ IF m_counter = -1 THEN m_counter' = 0 /\ runner' = "publish" /\ UNCHANGED age
     ELSE IF conf.ping > 0 /\ m_connected'
     THEN /\ m_counter' = m_counter + 1 /\ age' = age + 1
          /\ runner' = IF PingsAt(m_counter + 1) THEN "ping" ELSE "publish"
     ELSE runner' = "publish" /\ UNCHANGED <<m_counter, age>>
  /\ UNCHANGED <<conf, system, bytes, m_packetloss, shown, ops>>

(* ping(): seconds go by.                                                  *)
Ping ==
  /\ runner = "ping" /\ runner' = "publish"
  /\ m_packetloss' = ~system.reaches /\ m_counter' = 0 /\ age' = 0
  /\ UNCHANGED <<conf, system, bytes, since, status, m_connected, shown, last, queried, traffic, ops>>

Format ==
  IF ~m_connected THEN "disconnected"
  ELSE IF m_packetloss /\ conf.ping > 0 THEN "packetloss" ELSE "connected"

Publish ==
  /\ runner = "publish" /\ runner' = "sleep"
  /\ shown' = [format |-> Format, essid |-> m_essid, ip |-> ip, rate |-> (current - previous) % Word]
  /\ UNCHANGED <<conf, system, bytes, since, status, m_connected, m_packetloss, m_counter, history, ops>>

Wake == runner = "sleep" /\ runner' = "update"
        /\ UNCHANGED <<conf, system, bytes, since, status, m_connected, m_packetloss, m_counter, shown, history, ops>>

(* subthread_routine(): redraws, whatever the runner is at.                *)
Subthread ==
  /\ conf.ping > 0 /\ m_connected /\ m_packetloss
  /\ shown' = [shown EXCEPT !.format = Format]
  /\ UNCHANGED <<conf, system, bytes, since, runner, status, m_connected, m_packetloss, m_counter, history, ops>>

Environment ==
  /\ ops < MaxOps /\ ops' = ops + 1
  /\ \/ system' \in Systems \ {system} /\ UNCHANGED <<bytes, since>>
     \/ /\ \E i \in {"own", "other"} : bytes' = [bytes EXCEPT ![i] = (@ + 3) % Word]
        /\ since' = IF conf.accumulate \/ bytes'.own # bytes.own THEN since + 3 ELSE since
        /\ UNCHANGED system
  /\ UNCHANGED <<conf, runner, status, m_connected, m_packetloss, m_counter, shown, history>>

Next == QueryFails \/ Query \/ Ping \/ Publish \/ Wake \/ Subthread \/ Environment
Spec == Init /\ [][Next]_vars

-----------------------------------------------------------------------------
(* What is broadcast after a query that went well: the state as it is; the *)
(* bytes since the query before, if that went well, wrapped counters too,  *)
(* unless they went all around; the last address of this interface.        *)
ShownAsQueried ==
  runner = "sleep" /\ queried[2] =>
    /\ shown.format = Format /\ shown.essid = m_essid
    /\ queried[1] /\ traffic < Word => shown.rate = traffic
    /\ \A f \in {"inet", "inet6"} :
         LET own == {i \in DOMAIN last.addrs :
                       /\ last.addrs[i].name = Interface /\ last.addrs[i].family = f
                       /\ f = "inet6" => last.addrs[i].scope = "global"}
         IN shown.ip[f] = IF own = {} THEN NO_IP ELSE last.addrs[Max(own)].addr

(* A wireless interface counts as connected to an access point of the last *)
(* scan: by netlink because its state says so, for the name of before      *)
(* stands in for one - unless unknown counts as up.                        *)
Associated(s) == \E i \in DOMAIN s.scan : AssociatedOrJoined(s.scan[i])
ConnectedToSomething ==
  m_connected /\ conf.type = "wireless" =>
    IF conf.built = "iw" THEN last.essid # "" ELSE Associated(last) \/ last.operstate = "unknown"

(* What is said of lost packets is at most ping-interval updates old.      *)
PingsRecent == conf.ping > 0 => age <= conf.ping /\ (runner # "ping" => age < conf.ping)

-----------------------------------------------------------------------------
(* What is proved of it, of drivers that say of a wireless interface that  *)
(* it is up only when an access point has been joined.                     *)
Plausible ==
  /\ Word \in Nat \ {0, 1}
  /\ \A c \in Configs : c.ping \in Nat
  /\ \A s \in Systems :
       /\ s.addrs \in Seq(Range(s.addrs))
       /\ s.wireless /\ s.operstate = "up" => Associated(s)

(* What has been received since the last query, if it went well, is what   *)
(* the counters have moved on by.                                          *)
Counted ==
  /\ bytes = [own |-> bytes.own, other |-> bytes.other] /\ bytes.own \in 0 .. Word - 1 /\ bytes.other \in 0 .. Word - 1
  /\ since \in Nat /\ traffic \in Nat /\ current \in Int /\ previous \in Int
  /\ queried \in BOOLEAN \X BOOLEAN
  /\ queried[2] => Received = (current + since) % Word
  /\ queried[1] /\ queried[2] => current = (previous + traffic) % Word

Published ==
  /\ queried[2] => ip = Ip(last.addrs)
  /\ shown = [format |-> shown.format, essid |-> shown.essid, ip |-> shown.ip, rate |-> shown.rate]
  /\ runner = "sleep" /\ queried[2] =>
       shown = [format |-> Format, essid |-> m_essid, ip |-> ip, rate |-> (current - previous) % Word]

Pinging ==
  conf.ping > 0 =>
    /\ m_counter \in -1 .. conf.ping /\ age = (IF m_counter = -1 THEN 0 ELSE m_counter)
    /\ runner # "ping" => m_counter < conf.ping

Inv ==
  /\ conf \in Configs /\ system \in Systems /\ last \in Systems
  /\ Counted /\ Published /\ ConnectedToSomething /\ Pinging
=============================================================================
