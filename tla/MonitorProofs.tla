---------------------------- MODULE MonitorProofs ----------------------------
(***************************************************************************)
(* What the monitor keeps to for any network, traffic and thresholds: how  *)
(* many alerts it raises, that none is lost unseen, and what a report has. *)
(***************************************************************************)
EXTENDS Monitor, NetworkOpsProofs, FoldProofs, SequenceTheorems

Checks == {"network_rate", "link_rate", "node_rate", "replay", "amplification", "ttl_expired",
           "logic_panicked", "relay_cycle"}
Subjects == NodeIds \cup LinkIds \cup {WholeNetwork}
Severities == {Warning, Error}
Alerts == [tick: Nat, check: Checks, severity: Severities, subject: Subjects, value: Nat]

Maps(D, R) == UNION {[S -> R] : S \in SUBSET D}

(* How often something was counted at each of finitely many ticks.         *)
Counts == {bag \in Maps(Nat, Nat) : IsFiniteSet(DOMAIN bag)}

Monitors ==
    [network_sends: Nat, link_sends: Maps(LinkIds, Nat), node_sends: Maps(NodeIds, Nat),
     replay: Maps(NodeIds \X Keys, Counts),
     fired: Maps(Checks \X Subjects, [tick: Nat, severity: Severities]),
     latest: Maps(Checks, Alerts), events: Seq(Alerts), discarded: Nat, drained: Nat,
     asked: SUBSET Alerts, raised: Seq(Alerts), checked: Nat]

LEMMA Inserted ==
    ASSUME NEW D, NEW R, NEW f \in Maps(D, R), NEW k \in D, NEW v \in R
    PROVE  Insert(f, k, v) \in Maps(D, R)
<1>1. PICK S \in SUBSET D : f \in [S -> R]
  BY DEF Maps
<1> DEFINE g == Insert(f, k, v)
<1>2. g = [x \in S \cup {k} |-> IF x = k THEN v ELSE f[x]]
  BY <1>1 DEF Insert
<1>3. g \in [S \cup {k} -> R] /\ S \cup {k} \in SUBSET D
  BY <1>1, <1>2
<1> HIDE DEF g
<1>4. g \in Maps(D, R)
  BY <1>3 DEF Maps
<1> QED
  BY <1>4 DEF g

LEMMA Added ==
    ASSUME NEW S, NEW s \in Seq(S), NEW x \in S
    PROVE  /\ Append(s, x) \in Seq(S) /\ Len(Append(s, x)) = Len(s) + 1
           /\ DOMAIN Append(s, x) = 1..(Len(s) + 1) /\ DOMAIN s = 1..Len(s) /\ Len(s) \in Nat
           /\ Append(s, x)[Len(s) + 1] = x
           /\ \A i \in 1..Len(s) : Append(s, x)[i] = s[i]
OBVIOUS

-----------------------------------------------------------------------------
(* The invariant of the monitor *)

Key(alert) == <<alert.check, alert.subject>>

(* Of two alerts of a kind the second comes a cooldown later or is worse.  *)
Escalating(raised, cooldown) ==
    \A i, j \in DOMAIN raised :
        i < j /\ Key(raised[i]) = Key(raised[j]) =>
            /\ raised[i].tick <= raised[j].tick
            /\ \/ raised[j].tick - raised[i].tick >= cooldown
               \/ raised[j].severity > raised[i].severity

(* `fired` knows the last of each kind.                                    *)
LastFired(raised, fired) ==
    /\ \A i \in DOMAIN raised : Key(raised[i]) \in DOMAIN fired
    /\ \A key \in DOMAIN fired : \E i \in DOMAIN raised :
          /\ Key(raised[i]) = key
          /\ fired[key] = [tick |-> raised[i].tick, severity |-> raised[i].severity]
          /\ \A j \in DOMAIN raised : Key(raised[j]) = key => j <= i

Covers(alert, asked, cooldown) ==
    /\ Key(alert) = Key(asked) /\ alert.severity >= asked.severity
    /\ asked.tick - alert.tick \in 0..(cooldown - 1)

Covered(raised, asked, cooldown) ==
    \A a \in asked : \E i \in DOMAIN raised : Covers(raised[i], a, cooldown)

(* The trace ends with what was raised last.                               *)
Traced(raised, events, gone) ==
    /\ Len(events) <= Capacity
    /\ Len(raised) = gone + Len(events)
    /\ \A i \in 1..Len(events) : events[i] = raised[gone + i]

(* The latest alert of a check is as bad as one that was raised, or too    *)
(* much later for that to matter; and it is not older unless it is worse.  *)
Represents(latest, alert) ==
    /\ latest.tick + LatestFor >= alert.tick
    /\ latest.tick >= alert.tick \/ latest.severity > alert.severity
    /\ latest.severity >= alert.severity \/ latest.tick > alert.tick + LatestFor

Latest(raised, latest, now) ==
    /\ \A c \in DOMAIN latest : latest[c].check = c /\ latest[c].tick <= now
    /\ \A i \in DOMAIN raised :
          raised[i].check \in DOMAIN latest /\ Represents(latest[raised[i].check], raised[i])

Told(x, now, cooldown) ==
    /\ x \in Monitors
    /\ \A i \in DOMAIN x.raised : x.raised[i].tick <= now
    /\ Escalating(x.raised, cooldown)
    /\ LastFired(x.raised, x.fired)
    /\ Covered(x.raised, x.asked, cooldown)
    /\ Traced(x.raised, x.events, x.drained + x.discarded)
    /\ Latest(x.raised, x.latest, now)

(* The parts that raising an alert leaves alone.                           *)
SameCounts(x, y) ==
    /\ y.network_sends = x.network_sends /\ y.link_sends = x.link_sends /\ y.node_sends = x.node_sends
    /\ y.replay = x.replay /\ y.checked = x.checked

LEMMA Thresholds ==
    /\ Capacity \in Nat \ {0} /\ LatestFor \in Nat \ {0} /\ ReportOver \in Nat /\ ReportOver >= 2 * LatestFor
    /\ \A S \in SUBSET (NodeIds \cup LinkIds) : IsFiniteSet(S)
BY MonitorAssumption, FS_Subset

LEMMA EscalationKept ==
    ASSUME NEW raised \in Seq(Alerts), NEW fired \in Maps(Checks \X Subjects, [tick: Nat, severity: Severities]),
           NEW cooldown \in Nat \ {0}, NEW a \in Alerts,
           Escalating(raised, cooldown), LastFired(raised, fired),
           \A i \in DOMAIN raised : raised[i].tick <= a.tick,
           Key(a) \in DOMAIN fired =>
              a.severity > fired[Key(a)].severity \/ a.tick - fired[Key(a)].tick >= cooldown
    PROVE  Escalating(Append(raised, a), cooldown)
<1> DEFINE all == Append(raised, a)
           n == Len(raised) + 1
<1>1. /\ DOMAIN all = 1..n /\ DOMAIN raised = 1..Len(raised) /\ Len(raised) \in Nat
      /\ all[n] = a /\ \A i \in 1..Len(raised) : all[i] = raised[i]
  BY Added
<1>2. \A i \in DOMAIN raised : raised[i] \in Alerts
  BY <1>1
<1> HIDE DEF all
<1> SUFFICES ASSUME NEW i \in 1..n, NEW j \in 1..n, i < j, Key(all[i]) = Key(all[j])
             PROVE  /\ all[i].tick <= all[j].tick
                    /\ \/ all[j].tick - all[i].tick >= cooldown
                       \/ all[j].severity > all[i].severity
  BY <1>1 DEF Escalating, all
<1>3. i \in DOMAIN raised /\ all[i] = raised[i]
  BY <1>1
<1>4. CASE j \in DOMAIN raised
  BY <1>1, <1>3, <1>4 DEF Escalating
<1>5. CASE j = n
  <2>1. all[j] = a /\ Key(raised[i]) = Key(a) /\ raised[i].tick <= a.tick
    BY <1>1, <1>3, <1>5
  <2>2. Key(a) \in DOMAIN fired
    BY <1>3, <2>1 DEF LastFired
  <2>3. PICK k \in DOMAIN raised :
          /\ Key(raised[k]) = Key(a)
          /\ fired[Key(a)] = [tick |-> raised[k].tick, severity |-> raised[k].severity]
          /\ \A l \in DOMAIN raised : Key(raised[l]) = Key(a) => l <= k
    BY <2>2 DEF LastFired
  <2>4. a.severity > raised[k].severity \/ a.tick - raised[k].tick >= cooldown
    BY <2>2, <2>3
  <2>5. raised[i] \in Alerts /\ raised[k] \in Alerts
    BY <1>2, <1>3
  <2>6. raised[i].tick \in Nat /\ raised[k].tick \in Nat /\ a.tick \in Nat
        /\ raised[i].severity \in {1, 2} /\ raised[k].severity \in {1, 2} /\ a.severity \in {1, 2}
    BY <2>5 DEF Alerts, Severities, Warning, Error
  <2>9. i <= k /\ raised[k].tick <= a.tick
    BY <1>3, <2>1, <2>3
  <2>7. CASE i = k
    BY <2>1, <2>4, <2>6, <1>3, <2>7
  <2>8. CASE i < k
    <3>1. /\ raised[i].tick <= raised[k].tick
          /\ raised[k].tick - raised[i].tick >= cooldown \/ raised[k].severity > raised[i].severity
      BY <1>3, <2>1, <2>3, <2>8 DEF Escalating
    <3> QED
      BY <1>3, <2>1, <2>4, <2>6, <2>9, <3>1, SMTT(30)
  <2> QED
    BY <1>1, <2>9, <2>7, <2>8
<1> QED
  BY <1>1, <1>4, <1>5

LEMMA LastFiredKept ==
    ASSUME NEW raised \in Seq(Alerts), NEW fired \in Maps(Checks \X Subjects, [tick: Nat, severity: Severities]),
           NEW a \in Alerts, LastFired(raised, fired)
    PROVE  LastFired(Append(raised, a), Insert(fired, Key(a), [tick |-> a.tick, severity |-> a.severity]))
<1> DEFINE all == Append(raised, a)
           n == Len(raised) + 1
           entry == [tick |-> a.tick, severity |-> a.severity]
           g == Insert(fired, Key(a), entry)
<1>1. /\ DOMAIN all = 1..n /\ DOMAIN raised = 1..Len(raised) /\ Len(raised) \in Nat
      /\ all[n] = a /\ \A i \in 1..Len(raised) : all[i] = raised[i]
  BY Added
<1>2. Key(a) \in Checks \X Subjects /\ entry \in [tick: Nat, severity: Severities]
  BY DEF Key, Alerts
<1> HIDE DEF all, entry
<1>3. DOMAIN g = DOMAIN fired \cup {Key(a)} /\ g[Key(a)] = entry
      /\ \A x \in DOMAIN fired \ {Key(a)} : g[x] = fired[x]
  BY DEF Insert
<1> HIDE DEF g
<1>4. \A i \in DOMAIN all : Key(all[i]) \in DOMAIN g
  BY <1>1, <1>3 DEF LastFired
<1>5. ASSUME NEW key \in DOMAIN g
      PROVE  \E i \in DOMAIN all :
                /\ Key(all[i]) = key
                /\ g[key] = [tick |-> all[i].tick, severity |-> all[i].severity]
                /\ \A j \in DOMAIN all : Key(all[j]) = key => j <= i
  <2>1. CASE key = Key(a)
    <3>1. n \in DOMAIN all /\ Key(all[n]) = key
          /\ g[key] = [tick |-> all[n].tick, severity |-> all[n].severity]
          /\ \A j \in DOMAIN all : j <= n
      BY <1>1, <1>3, <2>1 DEF entry
    <3> QED
      BY <3>1
  <2>2. CASE key # Key(a)
    <3>1. key \in DOMAIN fired /\ g[key] = fired[key]
      BY <1>3, <2>2
    <3>2. PICK i \in DOMAIN raised :
            /\ Key(raised[i]) = key
            /\ fired[key] = [tick |-> raised[i].tick, severity |-> raised[i].severity]
            /\ \A j \in DOMAIN raised : Key(raised[j]) = key => j <= i
      BY <3>1 DEF LastFired
    <3>3. i \in DOMAIN all /\ all[i] = raised[i]
      BY <1>1
    <3>4. \A j \in DOMAIN all : Key(all[j]) = key => j <= i
      BY <1>1, <2>2, <3>2
    <3> QED
      BY <3>1, <3>2, <3>3, <3>4
  <2> QED
    BY <2>1, <2>2
<1> QED
  BY <1>4, <1>5 DEF LastFired, all, g, entry

LEMMA TracedKept ==
    ASSUME NEW raised \in Seq(Alerts), NEW events \in Seq(Alerts), NEW gone \in Nat,
           NEW a \in Alerts, Traced(raised, events, gone)
    PROVE  IF Len(events) = Capacity THEN Traced(Append(raised, a), Append(Tail(events), a), gone + 1)
           ELSE Traced(Append(raised, a), Append(events, a), gone)
<1> DEFINE all == Append(raised, a)
<1>1. /\ Len(all) = Len(raised) + 1 /\ Len(raised) \in Nat
      /\ all[Len(raised) + 1] = a /\ \A i \in 1..Len(raised) : all[i] = raised[i]
  BY Added
<1>2. Capacity \in Nat \ {0}
  BY Thresholds
<1> HIDE DEF all
<1>3. CASE Len(events) = Capacity
  <2> DEFINE rest == Tail(events)
             kept == Append(rest, a)
  <2>1. events # <<>>
    BY <1>2, <1>3
  <2>2. rest \in Seq(Alerts) /\ Len(rest) = Capacity - 1 /\ \A i \in 1..(Capacity - 1) : rest[i] = events[i + 1]
    BY <1>2, <1>3, <2>1
  <2> HIDE DEF rest
  <2>3. /\ Len(kept) = Capacity /\ kept[Capacity] = a
        /\ \A i \in 1..(Capacity - 1) : kept[i] = rest[i]
    BY <1>2, <2>2, Added
  <2> HIDE DEF kept
  <2>4. Len(raised) = gone + Capacity /\ \A i \in 1..Capacity : events[i] = raised[gone + i]
    BY <1>3 DEF Traced
  <2>5. ASSUME NEW i \in 1..Capacity PROVE kept[i] = all[gone + 1 + i]
    <3>1. CASE i = Capacity
      BY <1>1, <1>2, <2>3, <2>4, <3>1
    <3>2. CASE i # Capacity
      <4>1. i \in 1..(Capacity - 1) /\ i + 1 \in 1..Capacity /\ gone + (i + 1) \in 1..Len(raised)
        BY <1>2, <2>4, <3>2
      <4>2. kept[i] = raised[gone + (i + 1)]
        BY <2>2, <2>3, <2>4, <4>1
      <4>3. gone + (i + 1) = gone + 1 + i
        BY <1>2
      <4> QED
        BY <1>1, <4>1, <4>2, <4>3
    <3> QED
      BY <3>1, <3>2
  <2>6. Traced(all, kept, gone + 1)
    BY <1>1, <1>2, <2>3, <2>4, <2>5 DEF Traced
  <2> QED
    BY <1>3, <2>6 DEF all, kept, rest
<1>4. CASE Len(events) # Capacity
  <2> DEFINE kept == Append(events, a)
  <2>1. /\ Len(kept) = Len(events) + 1 /\ kept[Len(events) + 1] = a /\ Len(events) \in Nat
        /\ \A i \in 1..Len(events) : kept[i] = events[i]
    BY Added
  <2> HIDE DEF kept
  <2>2. Len(raised) = gone + Len(events) /\ \A i \in 1..Len(events) : events[i] = raised[gone + i]
        /\ Len(events) < Capacity
    BY <1>2, <1>4, <2>1 DEF Traced
  <2>3. ASSUME NEW i \in 1..(Len(events) + 1) PROVE kept[i] = all[gone + i]
    <3>1. CASE i = Len(events) + 1
      <4>1. gone + i = Len(raised) + 1
        BY <2>1, <2>2, <3>1
      <4> QED
        BY <1>1, <2>1, <3>1, <4>1
    <3>2. CASE i # Len(events) + 1
      <4>1. i \in 1..Len(events) /\ gone + i \in 1..Len(raised)
        BY <2>1, <2>2, <3>2
      <4> QED
        BY <1>1, <2>1, <2>2, <4>1
    <3> QED
      BY <3>1, <3>2
  <2>4. Traced(all, kept, gone)
    BY <1>1, <1>2, <2>1, <2>2, <2>3 DEF Traced
  <2> QED
    BY <1>4, <2>4 DEF all, kept
<1> QED
  BY <1>3, <1>4

LEMMA CoveredKept ==
    ASSUME NEW raised \in Seq(Alerts), NEW fired \in Maps(Checks \X Subjects, [tick: Nat, severity: Severities]),
           NEW asked \in SUBSET Alerts, NEW cooldown \in Nat \ {0}, NEW a \in Alerts,
           LastFired(raised, fired), Covered(raised, asked, cooldown),
           \A i \in DOMAIN raised : raised[i].tick <= a.tick
    PROVE  /\ Covered(Append(raised, a), asked \cup {a}, cooldown)
           /\ Key(a) \in DOMAIN fired /\ a.severity <= fired[Key(a)].severity
                 /\ a.tick - fired[Key(a)].tick < cooldown =>
              Covered(raised, asked \cup {a}, cooldown)
<1> DEFINE all == Append(raised, a)
<1>1. /\ DOMAIN all = 1..(Len(raised) + 1) /\ DOMAIN raised = 1..Len(raised) /\ Len(raised) \in Nat
      /\ all[Len(raised) + 1] = a /\ \A i \in 1..Len(raised) : all[i] = raised[i]
  BY Added
<1> HIDE DEF all
<1>2. a.tick \in Nat /\ a.severity \in {1, 2}
  BY DEF Alerts, Severities, Warning, Error
<1>3. Covers(a, a, cooldown)
  BY <1>2 DEF Covers
<1>4. Covered(all, asked \cup {a}, cooldown)
  <2> SUFFICES ASSUME NEW b \in asked \cup {a} PROVE \E i \in DOMAIN all : Covers(all[i], b, cooldown)
    BY DEF Covered
  <2>1. CASE b = a
    BY <1>1, <1>3, <2>1
  <2>2. CASE b \in asked
    <3>1. PICK i \in DOMAIN raised : Covers(raised[i], b, cooldown)
      BY <2>2 DEF Covered
    <3> QED
      BY <1>1, <3>1
  <2> QED
    BY <2>1, <2>2
<1>5. ASSUME Key(a) \in DOMAIN fired, a.severity <= fired[Key(a)].severity,
             a.tick - fired[Key(a)].tick < cooldown
      PROVE  Covered(raised, asked \cup {a}, cooldown)
  <2>1. PICK k \in DOMAIN raised :
          /\ Key(raised[k]) = Key(a)
          /\ fired[Key(a)] = [tick |-> raised[k].tick, severity |-> raised[k].severity]
    BY <1>5 DEF LastFired
  <2>2. raised[k] \in Alerts
    BY <1>1
  <2>3. raised[k].tick \in Nat /\ raised[k].tick <= a.tick /\ a.severity <= raised[k].severity
        /\ a.tick - raised[k].tick < cooldown
    BY <1>5, <2>1, <2>2 DEF Alerts
  <2>4. Covers(raised[k], a, cooldown)
    BY <1>2, <2>1, <2>3 DEF Covers
  <2> QED
    BY <2>4 DEF Covered
<1> QED
  BY <1>4, <1>5 DEF all

LEMMA LatestKept ==
    ASSUME NEW raised \in Seq(Alerts), NEW latest \in Maps(Checks, Alerts), NEW a \in Alerts,
           Latest(raised, latest, a.tick), \A i \in DOMAIN raised : raised[i].tick <= a.tick
    PROVE  LET kept == a.check \in DOMAIN latest =>
                          \/ a.severity >= latest[a.check].severity
                          \/ a.tick > latest[a.check].tick + LatestFor
           IN  Latest(Append(raised, a), IF kept THEN Insert(latest, a.check, a) ELSE latest, a.tick)
<1> DEFINE all == Append(raised, a)
           c == a.check
           n == Len(raised) + 1
           kept == c \in DOMAIN latest =>
                      \/ a.severity >= latest[c].severity
                      \/ a.tick > latest[c].tick + LatestFor
<1>1. /\ DOMAIN all = 1..n /\ DOMAIN raised = 1..Len(raised) /\ Len(raised) \in Nat
      /\ all[n] = a /\ \A i \in 1..Len(raised) : all[i] = raised[i]
  BY Added
<1>2. LatestFor \in Nat
  BY Thresholds
<1>3. a.tick \in Nat /\ a.severity \in {1, 2} /\ c \in Checks
  BY DEF Alerts, Severities, Warning, Error
<1>4. ASSUME NEW d \in DOMAIN latest
      PROVE  latest[d].tick \in Nat /\ latest[d].severity \in {1, 2} /\ latest[d].check = d /\ latest[d].tick <= a.tick
  <2>1. latest[d] \in Alerts
    BY DEF Maps
  <2> QED
    BY <2>1 DEF Latest, Alerts, Severities, Warning, Error
<1>5. ASSUME NEW i \in 1..Len(raised)
      PROVE  /\ raised[i].tick \in Nat /\ raised[i].severity \in {1, 2} /\ raised[i].tick <= a.tick
             /\ raised[i].check \in DOMAIN latest /\ Represents(latest[raised[i].check], raised[i])
  <2>1. raised[i] \in Alerts
    BY <1>1
  <2> QED
    BY <1>1, <2>1 DEF Latest, Alerts, Severities, Warning, Error
<1> HIDE DEF all
<1>6. CASE kept
  <2> DEFINE g == Insert(latest, c, a)
  <2>1. DOMAIN g = DOMAIN latest \cup {c} /\ g[c] = a /\ \A d \in DOMAIN latest \ {c} : g[d] = latest[d]
    BY DEF Insert
  <2> HIDE DEF g
  <2>2. \A d \in DOMAIN g : g[d].check = d /\ g[d].tick <= a.tick
    BY <1>3, <1>4, <2>1
  <2>3. ASSUME NEW i \in DOMAIN all
        PROVE  all[i].check \in DOMAIN g /\ Represents(g[all[i].check], all[i])
    <3>1. CASE i = n
      BY <1>1, <1>2, <1>3, <2>1, <3>1 DEF Represents
    <3>2. CASE i # n /\ raised[i].check # c
      BY <1>1, <1>5, <2>1, <3>2
    <3>3. CASE i # n /\ raised[i].check = c
      <4>1. i \in 1..Len(raised) /\ all[i] = raised[i] /\ c \in DOMAIN latest /\ g[c] = a
        BY <1>1, <1>5, <2>1, <3>3
      <4> DEFINE r == raised[i]
                 l == latest[c]
      <4>2. /\ r.tick \in Nat /\ r.severity \in {1, 2} /\ r.tick <= a.tick
            /\ l.tick \in Nat /\ l.severity \in {1, 2} /\ l.tick <= a.tick
            /\ l.tick + LatestFor >= r.tick
            /\ l.tick >= r.tick \/ l.severity > r.severity
            /\ l.severity >= r.severity \/ l.tick > r.tick + LatestFor
        BY <1>4, <1>5, <3>3, <4>1 DEF Represents
      <4>3. a.severity >= l.severity \/ a.tick > l.tick + LatestFor
        BY <1>6, <4>1
      <4> HIDE DEF r, l
      <4>4. Represents(a, r)
        <5>1. CASE a.severity >= r.severity
          BY <1>2, <1>3, <4>2, <5>1 DEF Represents
        <5>2. CASE a.severity < r.severity
          <6>1. r.severity = 2 /\ a.severity = 1
            BY <1>3, <4>2, <5>2
          <6>2. CASE l.severity = 2
            BY <1>2, <1>3, <4>2, <4>3, <6>1, <6>2 DEF Represents
          <6>3. CASE l.severity = 1
            BY <1>2, <1>3, <4>2, <6>1, <6>3 DEF Represents
          <6> QED
            BY <4>2, <6>2, <6>3
        <5> QED
          BY <1>3, <4>2, <5>1, <5>2
      <4> QED
        BY <3>3, <4>1, <4>4, <2>1 DEF r
    <3> QED
      BY <3>1, <3>2, <3>3
  <2> QED
    BY <1>6, <2>2, <2>3 DEF Latest, g, all
<1>7. CASE ~kept
  <2>1. c \in DOMAIN latest /\ a.severity < latest[c].severity /\ a.tick <= latest[c].tick + LatestFor
    BY <1>2, <1>3, <1>4, <1>7
  <2>2. ASSUME NEW i \in DOMAIN all
        PROVE  all[i].check \in DOMAIN latest /\ Represents(latest[all[i].check], all[i])
    <3>1. CASE i = n
      BY <1>1, <1>3, <1>4, <2>1, <3>1 DEF Represents
    <3>2. CASE i # n
      BY <1>1, <1>5, <3>2
    <3> QED
      BY <3>1, <3>2
  <2>3. \A d \in DOMAIN latest : latest[d].check = d /\ latest[d].tick <= a.tick
    BY <1>4
  <2> QED
    BY <1>7, <2>2, <2>3 DEF Latest, all
<1> QED
  BY <1>6, <1>7

LEMMA RaiseKeeps ==
    ASSUME NEW x, NEW now \in Nat, NEW cooldown \in Nat \ {0}, cooldown = scene.config.cooldown,
           Told(x, now, cooldown), NEW a \in Alerts, a.tick = now
    PROVE  /\ Told(Raise(x, a), now, cooldown)
           /\ SameCounts(x, Raise(x, a)) /\ Raise(x, a).asked = x.asked \cup {a}
<1> DEFINE A == x.asked \cup {a}
           known == [x EXCEPT !.asked = A]
           y == Raise(x, a)
<1>1. /\ x \in Monitors /\ Escalating(x.raised, cooldown) /\ LastFired(x.raised, x.fired)
      /\ Covered(x.raised, x.asked, cooldown) /\ Traced(x.raised, x.events, x.drained + x.discarded)
      /\ Latest(x.raised, x.latest, a.tick) /\ \A i \in DOMAIN x.raised : x.raised[i].tick <= a.tick
  BY DEF Told
<1>2. /\ x.fired \in Maps(Checks \X Subjects, [tick: Nat, severity: Severities])
      /\ x.latest \in Maps(Checks, Alerts) /\ x.raised \in Seq(Alerts) /\ x.events \in Seq(Alerts)
      /\ x.asked \in SUBSET Alerts /\ x.drained \in Nat /\ x.discarded \in Nat
  BY <1>1 DEF Monitors
<1>3. A \in SUBSET Alerts
  BY <1>2
<1> HIDE DEF A
<1>4. /\ known \in Monitors /\ known.asked = A /\ SameCounts(x, known)
      /\ known.fired = x.fired /\ known.latest = x.latest /\ known.raised = x.raised
      /\ known.events = x.events /\ known.drained = x.drained /\ known.discarded = x.discarded
  BY <1>1, <1>3 DEF Monitors, SameCounts
<1>5. /\ Covered(Append(x.raised, a), A, cooldown)
      /\ Key(a) \in DOMAIN x.fired /\ a.severity <= x.fired[Key(a)].severity
            /\ a.tick - x.fired[Key(a)].tick < cooldown => Covered(x.raised, A, cooldown)
  BY <1>1, <1>2, CoveredKept DEF A
<1>6. CASE Suppressed(x, a)
  <2>1. y = known
    BY <1>6 DEF Raise, A
  <2> HIDE DEF y, known
  <2>2. Covered(x.raised, A, cooldown)
    BY <1>5, <1>6 DEF Suppressed, Key
  <2> QED
    BY <1>1, <1>4, <2>1, <2>2 DEF Told, y, A
<1>7. CASE ~Suppressed(x, a)
  <2> DEFINE F == Fired(x, a)
             R == Append(x.raised, a)
             L == IF KeptAsLatest(x, a) THEN Insert(x.latest, a.check, a) ELSE x.latest
             told == [known EXCEPT !.fired = F, !.raised = R, !.latest = L]
  <2>1. y = Push(told, a)
    BY <1>4, <1>7 DEF Raise, A
  <2>2. F = Insert(x.fired, Key(a), [tick |-> a.tick, severity |-> a.severity])
    BY <1>4 DEF Fired, Key
  <2>3. /\ F \in Maps(Checks \X Subjects, [tick: Nat, severity: Severities]) /\ LastFired(R, F)
    <3> DEFINE D == Checks \X Subjects
               V == [tick: Nat, severity: Severities]
               k == Key(a)
               v == [tick |-> a.tick, severity |-> a.severity]
    <3>1. k \in D /\ v \in V
      BY DEF Key, Alerts
    <3>2. LastFired(R, Insert(x.fired, k, v))
      BY <1>1, <1>2, LastFiredKept
    <3>3. x.fired \in Maps(D, V)
      BY <1>2
    <3> HIDE DEF D, V, k, v
    <3>4. Insert(x.fired, k, v) \in Maps(D, V)
      BY <3>1, <3>3, Inserted
    <3> QED
      BY <2>2, <3>2, <3>4 DEF D, V, k, v
  <2>4. L \in Maps(Checks, Alerts) /\ Latest(R, L, a.tick)
    <3>1. L = IF a.check \in DOMAIN x.latest =>
                    \/ a.severity >= x.latest[a.check].severity
                    \/ a.tick > x.latest[a.check].tick + LatestFor
              THEN Insert(x.latest, a.check, a) ELSE x.latest
      BY <1>4 DEF KeptAsLatest
    <3>2. Latest(R, L, a.tick)
      BY <1>1, <1>2, <3>1, LatestKept
    <3>3. a.check \in Checks
      BY DEF Alerts
    <3>4. Insert(x.latest, a.check, a) \in Maps(Checks, Alerts)
      BY <1>2, <3>3, Inserted
    <3> QED
      BY <1>2, <3>2, <3>4
  <2>5. Escalating(R, cooldown)
    <3>1. Key(a) \in DOMAIN x.fired =>
             a.severity > x.fired[Key(a)].severity \/ a.tick - x.fired[Key(a)].tick >= cooldown
      <4>1. ASSUME Key(a) \in DOMAIN x.fired
            PROVE  x.fired[Key(a)].severity \in {1, 2} /\ x.fired[Key(a)].tick \in Nat
        <5>1. x.fired[Key(a)] \in [tick: Nat, severity: Severities]
          BY <1>2, <4>1 DEF Maps
        <5> QED
          BY <5>1 DEF Severities, Warning, Error
      <4>2. a.severity \in {1, 2} /\ a.tick \in Nat
        BY DEF Alerts, Severities, Warning, Error
      <4> QED
        BY <1>7, <4>1, <4>2 DEF Suppressed, Key
    <3> QED
      BY <1>1, <1>2, <3>1, EscalationKept
  <2>6. R \in Seq(Alerts) /\ \A i \in DOMAIN R : R[i].tick <= a.tick
    <3>1. a.tick <= a.tick
      BY DEF Alerts
    <3> QED
      BY <1>1, <1>2, <3>1, Added
  <2>7. IF Len(x.events) = Capacity
        THEN Traced(R, Append(Tail(x.events), a), x.drained + x.discarded + 1)
        ELSE Traced(R, Append(x.events, a), x.drained + x.discarded)
    BY <1>1, <1>2, TracedKept, SMTT(30)
  <2> HIDE DEF F, R, L, known
  <2>8. /\ told \in Monitors /\ told.asked = A /\ SameCounts(x, told)
        /\ told.fired = F /\ told.raised = R /\ told.latest = L
        /\ told.events = x.events /\ told.drained = x.drained /\ told.discarded = x.discarded
    BY <1>4, <2>3, <2>4, <2>6 DEF Monitors, SameCounts
  <2> HIDE DEF told
  <2> DEFINE E == IF Len(x.events) = Capacity THEN Append(Tail(x.events), a) ELSE Append(x.events, a)
             d == IF Len(x.events) = Capacity THEN x.discarded + 1 ELSE x.discarded
  <2>9. y = [told EXCEPT !.events = E, !.discarded = d]
    <3>1. [told EXCEPT !.events = E] = [told EXCEPT !.events = E, !.discarded = x.discarded]
      BY <2>8 DEF Monitors
    <3> QED
      BY <2>1, <2>8, <3>1 DEF Push
  <2>10. E \in Seq(Alerts) /\ d \in Nat /\ Traced(R, E, x.drained + d)
    <3>1. Len(x.events) = Capacity => Tail(x.events) \in Seq(Alerts)
      <4>1. Len(x.events) = Capacity => x.events # <<>>
        BY Thresholds
      <4> QED
        BY <1>2, <4>1
    <3>2. x.drained + (x.discarded + 1) = x.drained + x.discarded + 1
      BY <1>2, SMTT(30)
    <3> QED
      BY <1>2, <2>7, <3>1, <3>2
  <2> HIDE DEF y, E, d
  <2>11. /\ y \in Monitors /\ y.asked = A /\ SameCounts(x, y)
         /\ y.fired = F /\ y.raised = R /\ y.latest = L
         /\ y.events = E /\ y.drained = x.drained /\ y.discarded = d
    BY <2>8, <2>9, <2>10 DEF Monitors, SameCounts
  <2>12. Covered(R, A, cooldown)
    BY <1>5 DEF R
  <2> QED
    BY <2>3, <2>4, <2>5, <2>6, <2>10, <2>11, <2>12 DEF Told, y, A
<1> QED
  BY <1>6, <1>7

(* The parts that only counting changes.                                   *)
SameAlerts(x, y) ==
    /\ y.raised = x.raised /\ y.fired = x.fired /\ y.asked = x.asked /\ y.latest = x.latest
    /\ y.events = x.events /\ y.drained = x.drained /\ y.discarded = x.discarded

LEMMA CountingKeeps ==
    ASSUME NEW x, NEW now, NEW cooldown, Told(x, now, cooldown), NEW y \in Monitors, SameAlerts(x, y)
    PROVE  Told(y, now, cooldown)
BY DEF Told, SameAlerts

LEMMA TimeKeeps ==
    ASSUME NEW x, NEW now \in Nat, NEW cooldown, Told(x, now, cooldown), NEW later \in Nat, now <= later
    PROVE  Told(x, later, cooldown)
<1>1. x \in Monitors
  BY DEF Told
<1>2. \A i \in DOMAIN x.raised : x.raised[i].tick <= later
  <2> SUFFICES ASSUME NEW i \in DOMAIN x.raised PROVE x.raised[i].tick <= later
    OBVIOUS
  <2>1. x.raised[i] \in Alerts
    BY <1>1 DEF Monitors
  <2> QED
    BY <2>1 DEF Told, Alerts
<1>3. \A c \in DOMAIN x.latest : x.latest[c].tick <= later
  <2> SUFFICES ASSUME NEW c \in DOMAIN x.latest PROVE x.latest[c].tick <= later
    OBVIOUS
  <2>1. x.latest[c] \in Alerts
    <3>1. x.latest \in Maps(Checks, Alerts)
      BY <1>1 DEF Monitors
    <3> QED
      BY <3>1 DEF Maps
  <2> QED
    BY <2>1 DEF Told, Latest, Alerts
<1> QED
  BY <1>2, <1>3 DEF Told, Latest

LEMMA RaiseOverKeeps ==
    ASSUME tick \in Nat, NEW x, NEW cooldown \in Nat \ {0}, cooldown = scene.config.cooldown,
           Told(x, tick, cooldown),
           NEW threshold, NEW check \in Checks, NEW subject \in Subjects, NEW value \in Nat
    PROVE  LET y == RaiseOver(x, threshold, check, subject, value)
               severity == Severity(threshold, value)
           IN  /\ Told(y, tick, cooldown) /\ SameCounts(x, y)
               /\ y.asked = x.asked \cup
                     (IF severity = 0 THEN {} ELSE {Alert(check, severity, subject, value)})
<1> DEFINE severity == Severity(threshold, value)
<1>1. severity \in {0, 1, 2}
  BY DEF Severity, Warning, Error
<1> HIDE DEF severity
<1>2. CASE severity = 0
  BY <1>2 DEF RaiseOver, SameCounts, severity
<1>3. CASE severity # 0
  <2> DEFINE a == Alert(check, severity, subject, value)
  <2>1. a \in Alerts /\ a.tick = tick
    BY <1>1, <1>3 DEF Alert, Alerts, Severities, Warning, Error
  <2> HIDE DEF a
  <2>2. /\ Told(Raise(x, a), tick, cooldown) /\ SameCounts(x, Raise(x, a))
        /\ Raise(x, a).asked = x.asked \cup {a}
    BY <2>1, RaiseKeeps
  <2>3. RaiseOver(x, threshold, check, subject, value) = Raise(x, a)
    BY <1>3 DEF RaiseOver, severity, a
  <2> QED
    BY <1>3, <2>2, <2>3 DEF severity, a
<1> QED
  BY <1>2, <1>3

(* Alerts that are asked for on their own account.                         *)
LEMMA ErrorKeeps ==
    ASSUME tick \in Nat, NEW x, NEW cooldown \in Nat \ {0}, cooldown = scene.config.cooldown,
           Told(x, tick, cooldown),
           NEW check \in Checks, NEW subject \in Subjects
    PROVE  LET a == Alert(check, Error, subject, 0)
           IN  /\ Told(Raise(x, a), tick, cooldown) /\ SameCounts(x, Raise(x, a))
               /\ Raise(x, a).asked = x.asked \cup {a}
<1> DEFINE a == Alert(check, Error, subject, 0)
<1>1. a \in Alerts /\ a.tick = tick
  BY DEF Alert, Alerts, Severities, Error
<1> HIDE DEF a
<1>2. /\ Told(Raise(x, a), tick, cooldown) /\ SameCounts(x, Raise(x, a))
      /\ Raise(x, a).asked = x.asked \cup {a}
  BY <1>1, RaiseKeeps
<1> QED
  BY <1>2 DEF a

LEMMA CountedMore ==
    ASSUME NEW D, NEW bag \in Maps(D, Nat), NEW e \in D
    PROVE  bag (+) SetToBag({e}) \in Maps(D, Nat)
<1>1. PICK S \in SUBSET D : bag \in [S -> Nat]
  BY DEF Maps
<1> DEFINE more == bag (+) SetToBag({e})
           value(d) == (IF d \in S THEN bag[d] ELSE 0) + (IF d \in {e} THEN 1 ELSE 0)
<1>2. more = [d \in S \cup {e} |-> value(d)]
  BY <1>1 DEF (+), SetToBag
<1>3. \A d \in S \cup {e} : value(d) \in Nat
  BY <1>1
<1> HIDE DEF value
<1>4. more \in [S \cup {e} -> Nat] /\ S \cup {e} \in SUBSET D
  BY <1>2, <1>3
<1> HIDE DEF more
<1> QED
  BY <1>4 DEF Maps, more

-----------------------------------------------------------------------------
(* What a bag holds in all *)

LEMMA TotalIsASum ==
    ASSUME NEW S, IsFiniteSet(S), NEW f \in [S -> Nat]
    PROVE  \E sum \in [SUBSET S -> Nat] : IsSum(S, f, sum) /\ Total(f) = sum[S]
<1> DEFINE pick == [s \in SUBSET S |-> CHOOSE x \in s : TRUE]
           Fold(g) == [s \in SUBSET S |->
                          IF s = {} THEN 0
                          ELSE g[s \ {CHOOSE x \in s : TRUE}] + f[CHOOSE x \in s : TRUE]]
           fold == CHOOSE g : g = Fold(g)
<1>1. Total(f) = fold[S]
  BY DEF Total, FoldSet, MapThenFoldSet
<1>2. \A s \in SUBSET S : pick[s] = CHOOSE x \in s : TRUE
  OBVIOUS
<1>3. Picks(S, pick)
  BY DEF Picks
<1> HIDE DEF pick
<1>4. PICK g : g = Fold(g)
  <2>1. PICK g : Adds(S, f, pick, g)
    BY <1>3, SumExists
  <2>2. g = Fold(g)
    BY <1>2, <2>1 DEF Adds
  <2> QED
    BY <2>2
<1>5. fold = Fold(fold)
  BY <1>4
<1> HIDE DEF fold
<1>6. Adds(S, f, pick, fold)
  BY <1>2, <1>5 DEF Adds
<1>7. fold \in [SUBSET S -> Nat] /\ IsSum(S, f, fold)
  BY <1>3, <1>6, SumInAnyOrder
<1> QED
  BY <1>1, <1>7

LEMMA TotalIsANumber ==
    ASSUME NEW bag \in Counts
    PROVE  Total(bag) \in Nat
<1>1. PICK S \in SUBSET Nat : bag \in [S -> Nat] /\ IsFiniteSet(S)
  BY DEF Counts, Maps
<1>2. PICK sum \in [SUBSET S -> Nat] : Total(bag) = sum[S]
  BY <1>1, TotalIsASum
<1> QED
  BY <1>2

-----------------------------------------------------------------------------
(* Alerts of other checks leave alone what is remembered of packets.       *)

Replayed(asked) == {a \in asked : a.check = "replay"}

(* And nothing takes back what was asked, or when the topology was checked.*)
Since(x, y) == x.asked \subseteq y.asked /\ y.checked = x.checked

Beside(x, now, cooldown) ==
    {y \in Monitors : /\ Told(y, now, cooldown) /\ Since(x, y)
                      /\ y.replay = x.replay /\ Replayed(y.asked) = Replayed(x.asked)}

LEMMA RaiseBeside ==
    ASSUME NEW x, NEW now \in Nat, NEW cooldown \in Nat \ {0}, cooldown = scene.config.cooldown,
           NEW v \in Beside(x, now, cooldown),
           NEW a \in Alerts, a.tick = now, a.check # "replay"
    PROVE  Raise(v, a) \in Beside(x, now, cooldown)
<1>1. Told(v, now, cooldown) /\ Since(x, v) /\ v.replay = x.replay /\ Replayed(v.asked) = Replayed(x.asked)
  BY DEF Beside
<1>2. Told(Raise(v, a), now, cooldown) /\ SameCounts(v, Raise(v, a)) /\ Raise(v, a).asked = v.asked \cup {a}
  BY <1>1, RaiseKeeps
<1>3. Raise(v, a) \in Monitors /\ Raise(v, a).replay = v.replay
  BY <1>2 DEF Told, SameCounts
<1>4. Replayed(Raise(v, a).asked) = Replayed(v.asked)
  BY <1>2 DEF Replayed
<1>5. Since(x, Raise(v, a))
  BY <1>1, <1>2 DEF Since, SameCounts
<1> QED
  BY <1>1, <1>2, <1>3, <1>4, <1>5 DEF Beside

LEMMA RaiseOverBeside ==
    ASSUME tick \in Nat, NEW x, NEW cooldown \in Nat \ {0}, cooldown = scene.config.cooldown,
           NEW v \in Beside(x, tick, cooldown),
           NEW threshold, NEW check \in Checks \ {"replay"}, NEW subject \in Subjects, NEW value \in Nat
    PROVE  RaiseOver(v, threshold, check, subject, value) \in Beside(x, tick, cooldown)
<1> DEFINE severity == Severity(threshold, value)
           a == Alert(check, severity, subject, value)
<1>1. severity \in {0, 1, 2}
  BY DEF Severity, Warning, Error
<1>2. severity # 0 => a \in Alerts /\ a.tick = tick /\ a.check # "replay"
  BY <1>1 DEF Alert, Alerts, Severities, Warning, Error
<1> HIDE DEF a, severity
<1>3. severity # 0 => Raise(v, a) \in Beside(x, tick, cooldown)
  BY <1>2, RaiseBeside
<1> QED
  BY <1>3 DEF RaiseOver, a, severity

LEMMA ErrorBeside ==
    ASSUME tick \in Nat, NEW x, NEW cooldown \in Nat \ {0}, cooldown = scene.config.cooldown,
           NEW v \in Beside(x, tick, cooldown),
           NEW check \in Checks \ {"replay"}, NEW subject \in Subjects
    PROVE  Raise(v, Alert(check, Error, subject, 0)) \in Beside(x, tick, cooldown)
<1> DEFINE a == Alert(check, Error, subject, 0)
<1>1. a \in Alerts /\ a.tick = tick /\ a.check # "replay"
  BY DEF Alert, Alerts, Severities, Error
<1> HIDE DEF a
<1> QED
  BY <1>1, RaiseBeside DEF a

-----------------------------------------------------------------------------
(* The ends of the ticks *)

LinkRates(x, v) ==
    FoldSet(LAMBDA l, over : RaiseOver(over, scene.config.link, "link_rate", l, x.link_sends[l]),
            v, BagToSet(x.link_sends))

LEMMA LinkRatesBeside ==
    ASSUME tick \in Nat, NEW x \in Monitors, NEW cooldown \in Nat \ {0}, cooldown = scene.config.cooldown,
           NEW v \in Beside(x, tick, cooldown)
    PROVE  LinkRates(x, v) \in Beside(x, tick, cooldown)
<1> DEFINE V == Beside(x, tick, cooldown)
           S == BagToSet(x.link_sends)
           Over(w, l) == RaiseOver(w, scene.config.link, "link_rate", l, x.link_sends[l])
           pick == [s \in SUBSET S |-> CHOOSE e \in s : TRUE]
           step == [c \in S \X V |-> Over(c[2], c[1])]
           Fold(g) == [s \in SUBSET S |->
                          IF s = {} THEN v ELSE Over(g[s \ {CHOOSE e \in s : TRUE}], CHOOSE e \in s : TRUE)]
           fold == CHOOSE g : g = Fold(g)
<1>1. LinkRates(x, v) = fold[S]
  BY DEF LinkRates, FoldSet, MapThenFoldSet
<1>2. S \in SUBSET LinkIds /\ \A l \in S : x.link_sends[l] \in Nat
  BY DEF Monitors, Maps, BagToSet
<1>3. \A l \in S, w \in V : Over(w, l) \in V
  <2> SUFFICES ASSUME NEW l \in S, NEW w \in V PROVE Over(w, l) \in V
    OBVIOUS
  <2>1. l \in Subjects /\ "link_rate" \in Checks \ {"replay"} /\ x.link_sends[l] \in Nat
    BY <1>2 DEF Subjects, Checks
  <2> QED
    BY <2>1, RaiseOverBeside
<1> HIDE DEF V, S, Over
<1>4. \A l \in S, w \in V : step[<<l, w>>] = Over(w, l)
  OBVIOUS
<1>5. \A s \in SUBSET S : s # {} => pick[s] = (CHOOSE e \in s : TRUE) /\ pick[s] \in s
  OBVIOUS
<1> HIDE DEF pick, step
<1>6. Steps(S, V, v, pick, step)
  BY <1>2, <1>3, <1>4, <1>5, Thresholds DEF Steps, V
<1>7. PICK g \in [SUBSET S -> V] : IsFold(S, v, pick, step, g)
  BY <1>6, FoldExists
<1>8. \A s \in SUBSET S : g[s] = Fold(g)[s]
  <2> TAKE s \in SUBSET S
  <2>1. CASE s = {}
    BY <1>7, <2>1 DEF IsFold
  <2>2. CASE s # {}
    <3>1. pick[s] \in S /\ g[s \ {pick[s]}] \in V
      BY <1>5, <1>7, <2>2
    <3>2. g[s] = Over(g[s \ {pick[s]}], pick[s])
      BY <1>4, <1>7, <2>2, <3>1 DEF IsFold
    <3> QED
      BY <1>5, <2>2, <3>2
  <2> QED
    BY <2>1, <2>2
<1>9. g = Fold(g)
  BY <1>7, <1>8
<1>10. fold = Fold(fold)
  BY <1>9
<1> HIDE DEF fold
<1>11. fold[{}] = v /\ \A s \in SUBSET S : s # {} => fold[s] = Over(fold[s \ {pick[s]}], pick[s])
  BY <1>5, <1>10, ZenonT(60)
<1>12. IsFoldWithin(S, V, v, pick, step, fold)
  <2>1. \A s \in SUBSET S : s # {} /\ fold[s \ {pick[s]}] \in V =>
           fold[s] = step[<<pick[s], fold[s \ {pick[s]}]>>]
    BY <1>4, <1>5, <1>11
  <2> QED
    BY <1>11, <2>1 DEF IsFoldWithin
<1>13. fold[S] \in V
  BY <1>6, <1>12, FoldStays
<1> QED
  BY <1>1, <1>13 DEF V, S

NodeRates(x, v) ==
    FoldSet(LAMBDA n, over : RaiseOver(over, scene.config.node, "node_rate", n, x.node_sends[n]),
            v, BagToSet(x.node_sends))

LEMMA NodeRatesBeside ==
    ASSUME tick \in Nat, NEW x \in Monitors, NEW cooldown \in Nat \ {0}, cooldown = scene.config.cooldown,
           NEW v \in Beside(x, tick, cooldown)
    PROVE  NodeRates(x, v) \in Beside(x, tick, cooldown)
<1> DEFINE V == Beside(x, tick, cooldown)
           S == BagToSet(x.node_sends)
           Over(w, n) == RaiseOver(w, scene.config.node, "node_rate", n, x.node_sends[n])
           pick == [s \in SUBSET S |-> CHOOSE e \in s : TRUE]
           step == [c \in S \X V |-> Over(c[2], c[1])]
           Fold(g) == [s \in SUBSET S |->
                          IF s = {} THEN v ELSE Over(g[s \ {CHOOSE e \in s : TRUE}], CHOOSE e \in s : TRUE)]
           fold == CHOOSE g : g = Fold(g)
<1>1. NodeRates(x, v) = fold[S]
  BY DEF NodeRates, FoldSet, MapThenFoldSet
<1>2. S \in SUBSET NodeIds /\ \A n \in S : x.node_sends[n] \in Nat
  BY DEF Monitors, Maps, BagToSet
<1>3. \A n \in S, w \in V : Over(w, n) \in V
  <2> SUFFICES ASSUME NEW n \in S, NEW w \in V PROVE Over(w, n) \in V
    OBVIOUS
  <2>1. n \in Subjects /\ "node_rate" \in Checks \ {"replay"} /\ x.node_sends[n] \in Nat
    BY <1>2 DEF Subjects, Checks
  <2> QED
    BY <2>1, RaiseOverBeside
<1> HIDE DEF V, S, Over
<1>4. \A n \in S, w \in V : step[<<n, w>>] = Over(w, n)
  OBVIOUS
<1>5. \A s \in SUBSET S : s # {} => pick[s] = (CHOOSE e \in s : TRUE) /\ pick[s] \in s
  OBVIOUS
<1> HIDE DEF pick, step
<1>6. Steps(S, V, v, pick, step)
  BY <1>2, <1>3, <1>4, <1>5, Thresholds DEF Steps, V
<1>7. PICK g \in [SUBSET S -> V] : IsFold(S, v, pick, step, g)
  BY <1>6, FoldExists
<1>8. \A s \in SUBSET S : g[s] = Fold(g)[s]
  <2> TAKE s \in SUBSET S
  <2>1. CASE s = {}
    BY <1>7, <2>1 DEF IsFold
  <2>2. CASE s # {}
    <3>1. pick[s] \in S /\ g[s \ {pick[s]}] \in V
      BY <1>5, <1>7, <2>2
    <3>2. g[s] = Over(g[s \ {pick[s]}], pick[s])
      BY <1>4, <1>7, <2>2, <3>1 DEF IsFold
    <3> QED
      BY <1>5, <2>2, <3>2
  <2> QED
    BY <2>1, <2>2
<1>9. g = Fold(g)
  BY <1>7, <1>8
<1>10. fold = Fold(fold)
  BY <1>9
<1> HIDE DEF fold
<1>11. fold[{}] = v /\ \A s \in SUBSET S : s # {} => fold[s] = Over(fold[s \ {pick[s]}], pick[s])
  BY <1>5, <1>10, ZenonT(60)
<1>12. IsFoldWithin(S, V, v, pick, step, fold)
  <2>1. \A s \in SUBSET S : s # {} /\ fold[s \ {pick[s]}] \in V =>
           fold[s] = step[<<pick[s], fold[s \ {pick[s]}]>>]
    BY <1>4, <1>5, <1>11
  <2> QED
    BY <1>11, <2>1 DEF IsFoldWithin
<1>13. fold[S] \in V
  BY <1>6, <1>12, FoldStays
<1> QED
  BY <1>1, <1>13 DEF V, S

LEMMA BesideItself ==
    ASSUME NEW x, NEW now, NEW cooldown, Told(x, now, cooldown)
    PROVE  x \in Beside(x, now, cooldown)
BY DEF Beside, Told, Since

LEMMA EndRatesBeside ==
    ASSUME tick \in Nat, NEW x, NEW cooldown \in Nat \ {0}, cooldown = scene.config.cooldown,
           Told(x, tick, cooldown)
    PROVE  EndRates(x) \in Beside(x, tick, cooldown)
<1> DEFINE network == RaiseOver(x, scene.config.network, "network_rate", WholeNetwork, x.network_sends)
           links == LinkRates(x, network)
           nodes == NodeRates(x, links)
           y == [nodes EXCEPT !.network_sends = 0, !.link_sends = EmptyBag, !.node_sends = EmptyBag]
<1>1. x \in Monitors /\ x \in Beside(x, tick, cooldown)
  BY BesideItself DEF Told
<1>2. network \in Beside(x, tick, cooldown)
  <2>1. "network_rate" \in Checks \ {"replay"} /\ WholeNetwork \in Subjects /\ x.network_sends \in Nat
    BY <1>1 DEF Checks, Subjects, Monitors
  <2> QED
    BY <1>1, <2>1, RaiseOverBeside
<1> HIDE DEF network
<1>3. links \in Beside(x, tick, cooldown)
  BY <1>1, <1>2, LinkRatesBeside
<1> HIDE DEF links
<1>4. nodes \in Beside(x, tick, cooldown)
  BY <1>1, <1>3, NodeRatesBeside
<1> HIDE DEF nodes
<1>5. nodes \in Monitors /\ Told(nodes, tick, cooldown)
      /\ nodes.replay = x.replay /\ Replayed(nodes.asked) = Replayed(x.asked) /\ Since(x, nodes)
  BY <1>4 DEF Beside
<1>6. EmptyBag \in Maps(LinkIds, Nat) /\ EmptyBag \in Maps(NodeIds, Nat)
  <2>1. EmptyBag \in [{} -> Nat]
    BY DEF EmptyBag, SetToBag
  <2>2. {} \in SUBSET LinkIds /\ {} \in SUBSET NodeIds
    OBVIOUS
  <2> HIDE DEF EmptyBag
  <2> QED
    BY <2>1, <2>2 DEF Maps
<1>7. y \in Monitors /\ SameAlerts(nodes, y) /\ y.replay = nodes.replay /\ y.checked = nodes.checked
  BY <1>5, <1>6 DEF Monitors, SameAlerts
<1>8. EndRates(x) = y
  BY DEF EndRates, LinkRates, NodeRates, y, nodes, links, network
<1> HIDE DEF y
<1>9. Told(y, tick, cooldown)
  BY <1>5, <1>7, CountingKeeps
<1> QED
  BY <1>5, <1>7, <1>8, <1>9 DEF Beside, SameAlerts, Since

-----------------------------------------------------------------------------
(* The union-find: what its table stands for                               *)

Partitions(L) == {P \in SUBSET SUBSET L : UNION P = L /\ \A A, B \in P : A # B => A \cap B = {}}

Together(P, x, y) == SetOf(P, x) = SetOf(P, y)

Finer(L, P, Q) == \A x, y \in L : Together(P, x, y) => Together(Q, x, y)

LEMMA FoundSet ==
    ASSUME NEW L, NEW P \in Partitions(L), NEW l \in L
    PROVE  SetOf(P, l) \in P /\ l \in SetOf(P, l) /\ \A A \in P : l \in A => A = SetOf(P, l)
<1>1. \E A \in P : l \in A
  BY DEF Partitions
<1>2. SetOf(P, l) \in P /\ l \in SetOf(P, l)
  BY <1>1 DEF SetOf
<1> QED
  BY <1>2 DEF Partitions

(* Which links are together once two of them have been joined.             *)
LEMMA JoinedLinks ==
    ASSUME NEW L, NEW P \in Partitions(L), NEW l \in L, NEW k \in L
    PROVE  /\ Joined(P, l, k) \in Partitions(L)
           /\ \A x, y \in L : Together(Joined(P, l, k), x, y) <=>
                 \/ Together(P, x, y)
                 \/ Together(P, x, l) /\ Together(P, y, k)
                 \/ Together(P, x, k) /\ Together(P, y, l)
<1> DEFINE A == SetOf(P, l)
           B == SetOf(P, k)
           Q == (P \ {A, B}) \cup {A \cup B}
<1>1. Joined(P, l, k) = Q
  BY DEF Joined
<1>2. A \in P /\ B \in P /\ A \subseteq L /\ B \subseteq L
  BY FoundSet DEF Partitions
<1>3. \A x \in L : SetOf(P, x) \in P /\ x \in SetOf(P, x) /\ \A S \in P : x \in S => S = SetOf(P, x)
  BY FoundSet
<1> HIDE DEF A, B
<1>4. Q \in Partitions(L)
  <2>1. Q \in SUBSET SUBSET L
    BY <1>2 DEF Partitions
  <2>2. UNION Q = L
    <3>1. \A x \in L : \E S \in Q : x \in S
      <4> TAKE x \in L
      <4>1. CASE SetOf(P, x) \in {A, B}
        <5>1. x \in A \cup B /\ A \cup B \in Q
          BY <1>3, <4>1
        <5> QED
          BY <5>1
      <4>2. CASE SetOf(P, x) \notin {A, B}
        <5>1. SetOf(P, x) \in Q /\ x \in SetOf(P, x)
          BY <1>3, <4>2
        <5> QED
          BY <5>1
      <4> QED
        BY <4>1, <4>2
    <3> QED
      BY <2>1, <3>1
  <2>3. \A S, T \in Q : S # T => S \cap T = {}
    <3>1. \A S \in P \ {A, B} : S \cap (A \cup B) = {}
      BY <1>2 DEF Partitions
    <3>2. \A S, T \in P : S # T => S \cap T = {}
      BY DEF Partitions
    <3> QED
      BY <3>1, <3>2
  <2> HIDE DEF Q
  <2> QED
    BY <2>1, <2>2, <2>3 DEF Partitions
<1>5. \A x \in L : SetOf(Q, x) = IF SetOf(P, x) \in {A, B} THEN A \cup B ELSE SetOf(P, x)
  <2> TAKE x \in L
  <2>1. \A S \in Q : x \in S => S = SetOf(Q, x)
    BY <1>4, FoundSet
  <2>2. CASE SetOf(P, x) \in {A, B}
    <3>1. A \cup B \in Q /\ x \in A \cup B
      BY <1>3, <2>2
    <3> QED
      BY <2>1, <2>2, <3>1
  <2>3. CASE SetOf(P, x) \notin {A, B}
    <3>1. SetOf(P, x) \in Q /\ x \in SetOf(P, x)
      BY <1>3, <2>3
    <3> QED
      BY <2>1, <2>3, <3>1
  <2> QED
    BY <2>2, <2>3
<1>6. ASSUME NEW x \in L, SetOf(P, x) \notin {A, B} PROVE SetOf(P, x) # A \cup B
  BY <1>2, <1>3, <1>6
<1>7. ASSUME NEW x \in L, NEW y \in L
      PROVE  SetOf(Q, x) = SetOf(Q, y) <=>
                \/ SetOf(P, x) = SetOf(P, y)
                \/ SetOf(P, x) = A /\ SetOf(P, y) = B
                \/ SetOf(P, x) = B /\ SetOf(P, y) = A
  BY <1>5, <1>6
<1>8. ASSUME NEW x \in L, NEW y \in L
      PROVE  Together(Q, x, y) <=>
                \/ Together(P, x, y)
                \/ Together(P, x, l) /\ Together(P, y, k)
                \/ Together(P, x, k) /\ Together(P, y, l)
  <2> HIDE DEF Q
  <2> QED
    BY <1>7 DEF Together, A, B
<1> HIDE DEF Q
<1> QED
  BY <1>1, <1>4, <1>8

(* What is joined to a finer partition stays finer than a partition where  *)
(* it is together, or is joined as well.                                   *)
LEMMA JoinedFiner ==
    ASSUME NEW L, NEW P \in Partitions(L), NEW Q \in Partitions(L), Finer(L, P, Q),
           NEW l \in L, NEW k \in L
    PROVE  /\ Together(Q, l, k) => Finer(L, Joined(P, l, k), Q)
           /\ Finer(L, P, Joined(Q, l, k))
           /\ Finer(L, Joined(P, l, k), Joined(Q, l, k))
<1>1. \A x, y \in L : Together(Joined(P, l, k), x, y) <=>
                 \/ Together(P, x, y)
                 \/ Together(P, x, l) /\ Together(P, y, k)
                 \/ Together(P, x, k) /\ Together(P, y, l)
  BY JoinedLinks
<1>2. \A x, y \in L : Together(Joined(Q, l, k), x, y) <=>
                 \/ Together(Q, x, y)
                 \/ Together(Q, x, l) /\ Together(Q, y, k)
                 \/ Together(Q, x, k) /\ Together(Q, y, l)
  BY JoinedLinks
<1>3. \A x, y, z : (Together(Q, x, z) /\ Together(Q, y, z) => Together(Q, x, y))
                   /\ (Together(Q, x, y) => Together(Q, y, x))
  BY DEF Together
<1>4. Together(Q, l, k) => Finer(L, Joined(P, l, k), Q)
  <2> SUFFICES ASSUME Together(Q, l, k), NEW x \in L, NEW y \in L, Together(Joined(P, l, k), x, y)
               PROVE  Together(Q, x, y)
    BY DEF Finer
  <2>1. \A z, w \in L : Together(P, z, w) => Together(Q, z, w)
    BY DEF Finer
  <2> QED
    BY <1>1, <2>1 DEF Together
<1> QED
  BY <1>1, <1>2, <1>4 DEF Finer

-----------------------------------------------------------------------------
(* The first pass finds the finest partition that joins its pairs.         *)

Joins(P, pairs) == \A c \in pairs : Together(P, c[1], c[2])

RoutedPairs(s, lg) == UNION {s.internal[n] \X s.subscriptions[n] : n \in {k \in s.nodes : Routed(lg[k])}}

Singles(L) == {{l} : l \in L}

LEMMA SinglesApart ==
    ASSUME NEW L
    PROVE  /\ Singles(L) \in Partitions(L)
           /\ \A P \in Partitions(L) : Finer(L, Singles(L), P)
<1>1. Singles(L) \in Partitions(L)
  <2>1. Singles(L) \in SUBSET SUBSET L /\ \A A, B \in Singles(L) : A # B => A \cap B = {}
    BY DEF Singles
  <2>2. UNION Singles(L) = L
    BY DEF Singles
  <2> QED
    BY <2>1, <2>2 DEF Partitions
<1>2. \A l \in L : SetOf(Singles(L), l) = {l}
  <2> TAKE l \in L
  <2>1. {l} \in Singles(L) /\ l \in {l}
    BY DEF Singles
  <2> QED
    BY <1>1, <2>1, FoundSet
<1>3. \A x, y \in L : Together(Singles(L), x, y) => x = y
  BY <1>2 DEF Together
<1> QED
  BY <1>1, <1>3 DEF Finer, Together

AllJoined(L, pairs) == FoldSet(LAMBDA pair, sets : Joined(sets, pair[1], pair[2]), Singles(L), pairs)

LEMMA JoinedFinest ==
    ASSUME NEW L, NEW S, IsFiniteSet(S), \A c \in S : c[1] \in L /\ c[2] \in L
    PROVE  LET found == AllJoined(L, S)
           IN  /\ found \in Partitions(L) /\ Joins(found, S)
               /\ \A P \in Partitions(L) : Joins(P, S) => Finer(L, found, P)
<1> DEFINE V == Partitions(L)
           start == Singles(L)
           Merge(c, w) == Joined(w, c[1], c[2])
           F == [t \in SUBSET S |-> {w \in V : Joins(w, t) /\ \A P \in V : Joins(P, t) => Finer(L, w, P)}]
           pick == [t \in SUBSET S |-> CHOOSE e \in t : TRUE]
           step == [c \in S \X V |-> Merge(c[1], c[2])]
           Fold(g) == [t \in SUBSET S |->
                          IF t = {} THEN start ELSE Merge(CHOOSE e \in t : TRUE, g[t \ {CHOOSE e \in t : TRUE}])]
           fold == CHOOSE g : g = Fold(g)
<1>1. AllJoined(L, S) = fold[S]
  BY DEF AllJoined, FoldSet, MapThenFoldSet
<1>2. start \in V /\ \A P \in V : Finer(L, start, P)
  BY SinglesApart
<1>4. \A c \in S, w \in V : Merge(c, w) \in V
  BY JoinedLinks
<1>5. \A c \in S, w \in V : step[<<c, w>>] = Merge(c, w)
  OBVIOUS
<1>6. \A t \in SUBSET S : t # {} => pick[t] = (CHOOSE e \in t : TRUE) /\ pick[t] \in t
  OBVIOUS
<1>7. start \in F[{}]
  BY <1>2 DEF Joins
<1>8. \A t \in SUBSET S : F[t] = {w \in V : Joins(w, t) /\ \A P \in V : Joins(P, t) => Finer(L, w, P)}
  OBVIOUS
<1> HIDE DEF pick, step, F, V, start
<1>9. Steps(S, V, start, pick, step)
  BY <1>2, <1>4, <1>5, <1>6 DEF Steps
<1>10. \A t \in SUBSET S : t # {} =>
          \A w \in V : w \in F[t \ {pick[t]}] => step[<<pick[t], w>>] \in F[t]
  <2> SUFFICES ASSUME NEW t \in SUBSET S, t # {}, NEW w \in V, w \in F[t \ {pick[t]}]
               PROVE  step[<<pick[t], w>>] \in F[t]
    OBVIOUS
  <2> DEFINE c == pick[t]
             r == t \ {c}
             u == Joined(w, c[1], c[2])
  <2>1. c \in t /\ c[1] \in L /\ c[2] \in L /\ r \in SUBSET S
    BY <1>6
  <2>2. step[<<c, w>>] = u /\ u \in V
    BY <1>4, <1>5, <2>1
  <2>3. Joins(w, r) /\ \A P \in V : Joins(P, r) => Finer(L, w, P)
    BY <1>8, <2>1
  <2>4. \A x, y \in L : Together(u, x, y) <=>
                 \/ Together(w, x, y)
                 \/ Together(w, x, c[1]) /\ Together(w, y, c[2])
                 \/ Together(w, x, c[2]) /\ Together(w, y, c[1])
    BY <2>1, JoinedLinks DEF V
  <2> HIDE DEF c, u
  <2>5. Joins(u, t)
    <3>1. Together(u, c[1], c[2])
      BY <2>1, <2>4 DEF Together
    <3>2. \A e \in r : e[1] \in L /\ e[2] \in L /\ Together(u, e[1], e[2])
      BY <2>1, <2>3, <2>4 DEF Joins
    <3> QED
      BY <3>1, <3>2 DEF Joins
  <2>6. ASSUME NEW P \in V, Joins(P, t) PROVE Finer(L, u, P)
    <3>1. Joins(P, r) /\ Together(P, c[1], c[2])
      BY <2>1, <2>6 DEF Joins
    <3> QED
      BY <2>1, <2>3, <3>1, JoinedFiner DEF V, u
  <2>7. u \in F[t]
    BY <1>8, <2>2, <2>5, <2>6
  <2> QED
    BY <2>2, <2>7 DEF c
<1>11. PICK g \in [SUBSET S -> V] : IsFold(S, start, pick, step, g)
  BY <1>9, FoldExists
<1> HIDE DEF Merge
<1>12. \A t \in SUBSET S : g[t] = Fold(g)[t]
  <2> TAKE t \in SUBSET S
  <2>1. CASE t = {}
    BY <1>11, <2>1 DEF IsFold
  <2>2. CASE t # {}
    <3>1. pick[t] \in S /\ g[t \ {pick[t]}] \in V
      BY <1>6, <1>11, <2>2
    <3>2. g[t] = Merge(pick[t], g[t \ {pick[t]}])
      BY <1>5, <1>11, <2>2, <3>1 DEF IsFold
    <3> QED
      BY <1>6, <2>2, <3>2
  <2> QED
    BY <2>1, <2>2
<1>13. g = Fold(g)
  BY <1>11, <1>12
<1>14. fold = Fold(fold)
  BY <1>13
<1> HIDE DEF fold
<1>15. fold[{}] = start /\ \A t \in SUBSET S : t # {} => fold[t] = Merge(pick[t], fold[t \ {pick[t]}])
  BY <1>6, <1>14
<1>16. IsFoldWithin(S, V, start, pick, step, fold)
  <2>1. \A t \in SUBSET S : t # {} /\ fold[t \ {pick[t]}] \in V =>
           fold[t] = step[<<pick[t], fold[t \ {pick[t]}]>>]
    BY <1>5, <1>6, <1>15
  <2> QED
    BY <1>15, <2>1 DEF IsFoldWithin
<1>17. fold[S] \in V /\ fold[S] \in F[S]
  BY <1>7, <1>9, <1>10, <1>16, FoldFollows
<1> QED
  BY <1>1, <1>8, <1>17 DEF V

(* A logic taken away leaves no more joined.                               *)
LessLogic(s, lg1, lg2) == \A n \in s.nodes : lg1[n] \in {lg2[n], NoLogic}

LEMMA OwnLinks ==
    ASSUME NEW s, InOrder(s)
    PROVE  /\ s.nodes \in SUBSET NodeIds /\ s.links \in SUBSET LinkIds
           /\ \A n \in s.nodes : s.internal[n] \in SUBSET s.links /\ s.subscriptions[n] \in SUBSET s.links
<1>1. /\ s.nodes \in SUBSET NodeIds /\ s.links \in SUBSET LinkIds
      /\ s.internal \in [NodeIds -> SUBSET LinkIds] /\ s.subscriptions \in [NodeIds -> SUBSET LinkIds]
  BY DEF InOrder, NetworkType
<1>2. ASSUME NEW n \in s.nodes, NEW l \in LinkIds, l \notin s.links
      PROVE  l \notin s.internal[n] /\ l \notin s.subscriptions[n]
  <2>1. n \in NodeIds /\ n # Nil /\ s.owner[l] = Nil /\ s.subscribers[l] = {}
    BY <1>1, <1>2, NetworkAssumption DEF InOrder, Resolved
  <2>2. (l \in s.internal[n] <=> s.owner[l] = n) /\ (l \in s.subscriptions[n] <=> n \in s.subscribers[l])
    BY <2>1 DEF InOrder, Paired
  <2> QED
    BY <2>1, <2>2
<1>3. ASSUME NEW n \in s.nodes PROVE s.internal[n] \in SUBSET LinkIds /\ s.subscriptions[n] \in SUBSET LinkIds
  BY <1>1
<1> QED
  BY <1>1, <1>2, <1>3

LEMMA RoutedFiner ==
    ASSUME NEW s, InOrder(s), NEW lg1, NEW lg2, LessLogic(s, lg1, lg2)
    PROVE  /\ RoutedSets(s, lg1) \in Partitions(s.links)
           /\ Finer(s.links, RoutedSets(s, lg1), RoutedSets(s, lg2))
<1> DEFINE L == s.links
           Pairs(lg) == RoutedPairs(s, lg)
<1>1. \A lg : \A c \in Pairs(lg) : c[1] \in L /\ c[2] \in L
  <2> SUFFICES ASSUME NEW lg, NEW c \in Pairs(lg) PROVE c[1] \in L /\ c[2] \in L
    OBVIOUS
  <2>1. PICK n \in s.nodes : c \in s.internal[n] \X s.subscriptions[n]
    BY DEF RoutedPairs
  <2>2. c[1] \in s.internal[n] /\ c[2] \in s.subscriptions[n]
    BY <2>1
  <2> QED
    BY <2>2, OwnLinks
<1>2. \A lg : IsFiniteSet(Pairs(lg))
  <2> TAKE lg
  <2>1. Pairs(lg) \in SUBSET (L \X L)
    <3> SUFFICES ASSUME NEW c \in Pairs(lg) PROVE c \in L \X L
      OBVIOUS
    <3>1. PICK n \in s.nodes : c \in s.internal[n] \X s.subscriptions[n]
      BY DEF RoutedPairs
    <3> QED
      BY <3>1, OwnLinks
  <2>2. IsFiniteSet(L)
    BY OwnLinks, Thresholds
  <2>3. IsFiniteSet(L \X L)
    BY <2>2, FS_Product
  <2> HIDE DEF Pairs, L
  <2> QED
    BY <2>1, <2>3, FS_Subset
<1>3. \A lg : RoutedSets(s, lg) = AllJoined(L, Pairs(lg))
  BY DEF RoutedSets, RoutedPairs, AllJoined, Singles
<1>4. Pairs(lg1) \subseteq Pairs(lg2)
  <2>1. \A n \in s.nodes : Routed(lg1[n]) => Routed(lg2[n])
    BY DEF LessLogic, Routed, NoLogic
  <2> QED
    BY <2>1 DEF RoutedPairs
<1> HIDE DEF Pairs, L
<1>5. \A lg : /\ AllJoined(L, Pairs(lg)) \in Partitions(L) /\ Joins(AllJoined(L, Pairs(lg)), Pairs(lg))
              /\ \A P \in Partitions(L) : Joins(P, Pairs(lg)) => Finer(L, AllJoined(L, Pairs(lg)), P)
  BY <1>1, <1>2, JoinedFinest
<1>6. Joins(AllJoined(L, Pairs(lg2)), Pairs(lg1))
  BY <1>4, <1>5 DEF Joins
<1>7. AllJoined(L, Pairs(lg1)) \in Partitions(L) /\ Finer(L, AllJoined(L, Pairs(lg1)), AllJoined(L, Pairs(lg2)))
  BY <1>5, <1>6
<1> QED
  BY <1>3, <1>7 DEF L

-----------------------------------------------------------------------------
(* The second pass                                                         *)

Connections(s) == [node: s.nodes, one: s.links, other: s.links]
Founds(s) == [sets: Partitions(s.links), closing: SUBSET s.nodes]
Fewer(s, f, g) == f.closing \subseteq g.closing /\ Finer(s.links, f.sets, g.sets)

LEMMA WindowsTyped ==
    ASSUME NEW s, InOrder(s), NEW n \in s.nodes
    PROVE  \E k \in Nat : Windows(s, n) \in [1..k -> Connections(s)]
<1> DEFINE U == UsableLinks(s, n)
           links == SetToSeq(U)
           next == IF links = <<>> THEN <<>> ELSE Tail(links)
<1>1. U \in SUBSET s.links /\ s.links \in SUBSET LinkIds
  BY OwnLinks DEF UsableLinks
<1>2. IsFiniteSet(U)
  BY <1>1, Thresholds
<1> HIDE DEF U
<1>3. links \in Seq(U)
  BY <1>2, Enumerated
<1> HIDE DEF links
<1>4. next \in Seq(U) /\ Len(next) \in Nat /\ DOMAIN next = 1..Len(next)
      /\ \A i \in DOMAIN next : links[i] \in U /\ next[i] \in U
  <2>1. CASE links = <<>>
    BY <2>1
  <2>2. CASE links # <<>>
    <3>1. next = Tail(links) /\ Len(next) = Len(links) - 1 /\ Len(links) \in Nat \ {0} /\ next \in Seq(U)
      BY <1>3, <2>2, HeadTailProperties, EmptySeq, LenProperties
    <3>2. DOMAIN next = 1..Len(next) /\ \A i \in 1..Len(next) : i \in 1..Len(links)
      BY <3>1, LenProperties
    <3> HIDE DEF next
    <3>3. \A i \in DOMAIN next : links[i] \in U /\ next[i] \in U
      BY <1>3, <3>1, <3>2, ElementOfSeq
    <3> QED
      BY <3>1, <3>2, <3>3
  <2> QED
    BY <2>1, <2>2
<1>5. Windows(s, n) = [i \in DOMAIN next |-> [node |-> n, one |-> links[i], other |-> next[i]]]
  BY DEF Windows, next, links, U
<1> HIDE DEF next
<1>6. \A i \in DOMAIN next : [node |-> n, one |-> links[i], other |-> next[i]] \in Connections(s)
  BY <1>1, <1>4 DEF Connections
<1>7. Windows(s, n) \in [1..Len(next) -> Connections(s)]
  BY <1>4, <1>5, <1>6, ZenonT(60)
<1> QED
  BY <1>4, <1>7

LEMMA ConnectionFollowed ==
    ASSUME NEW s, NEW f \in Founds(s), NEW g \in Founds(s), Fewer(s, f, g), NEW c \in Connections(s)
    PROVE  /\ WithConnection(f, c) \in Founds(s)
           /\ Fewer(s, f, WithConnection(g, c))
           /\ Fewer(s, WithConnection(f, c), WithConnection(g, c))
<1> DEFINE L == s.links
           P == f.sets
           Q == g.sets
           Both(h) == Together(h.sets, c.one, c.other)
<1>1. c.one \in L /\ c.other \in L /\ c.node \in s.nodes
  BY DEF Connections
<1>2. P \in Partitions(L) /\ Q \in Partitions(L) /\ Finer(L, P, Q) /\ f.closing \subseteq g.closing
      /\ f.closing \in SUBSET s.nodes
  BY DEF Founds, Fewer
<1>3. /\ Together(Q, c.one, c.other) => Finer(L, Joined(P, c.one, c.other), Q)
      /\ Finer(L, P, Joined(Q, c.one, c.other))
      /\ Finer(L, Joined(P, c.one, c.other), Joined(Q, c.one, c.other))
      /\ Joined(P, c.one, c.other) \in Partitions(L)
      /\ Together(P, c.one, c.other) => Together(Q, c.one, c.other)
  <2> HIDE DEF L, P, Q
  <2>1. Joined(P, c.one, c.other) \in Partitions(L)
    BY <1>1, <1>2, JoinedLinks
  <2>2. Together(P, c.one, c.other) => Together(Q, c.one, c.other)
    BY <1>1, <1>2 DEF Finer
  <2> QED
    BY <1>1, <1>2, <2>1, <2>2, JoinedFiner
<1>4. \A h \in Founds(s) :
         /\ Both(h) => /\ WithConnection(h, c).sets = h.sets
                       /\ WithConnection(h, c).closing = h.closing \cup {c.node}
         /\ ~Both(h) => /\ WithConnection(h, c).sets = Joined(h.sets, c.one, c.other)
                        /\ WithConnection(h, c).closing = h.closing
  BY DEF WithConnection, Founds, Together
<1>5. WithConnection(f, c) \in Founds(s)
  <2>1. CASE Both(f)
    <3>1. WithConnection(f, c) = [f EXCEPT !.closing = @ \cup {c.node}]
      BY <2>1 DEF WithConnection, Together
    <3> QED
      BY <1>1, <3>1 DEF Founds
  <2>2. CASE ~Both(f)
    <3>1. WithConnection(f, c) = [f EXCEPT !.sets = Joined(f.sets, c.one, c.other)]
      BY <2>2 DEF WithConnection, Together
    <3> QED
      BY <1>3, <3>1 DEF Founds
  <2> QED
    BY <2>1, <2>2
<1>6. Both(f) => Both(g)
  BY <1>3
<1> HIDE DEF L
<1>7. Fewer(s, f, WithConnection(g, c))
  BY <1>2, <1>3, <1>4 DEF Fewer, L
<1>8. Fewer(s, WithConnection(f, c), WithConnection(g, c))
  BY <1>2, <1>3, <1>4, <1>6 DEF Fewer, L
<1> QED
  BY <1>5, <1>7, <1>8

Pass(s, f, n) == FoldLeft(WithConnection, f, Windows(s, n))

PassOver(f, w) == FoldLeft(WithConnection, f, w)

(* A pass over the connections w, as the steps of a loop.                  *)
PassIs(V, f, w, k, step, fold) ==
    /\ Loop(k, 1..k, V, f, step) /\ LoopWithin(1..k, V, f, step, fold)
    /\ PassOver(f, w) = fold[1..k]
    /\ \A x \in 1..k, v \in V : step[<<x, v>>] = WithConnection(v, w[x])

LEMMA PassSteps ==
    ASSUME NEW V, NEW f \in V, NEW C, NEW k \in Nat, NEW w \in [1..k -> C],
           \A v \in V, c \in C : WithConnection(v, c) \in V
    PROVE  \E step, fold : PassIs(V, f, w, k, step, fold)
<1> DEFINE S == 1..k
           Op(v, c) == WithConnection(v, c)
           step == [c \in S \X V |-> Op(c[2], w[c[1]])]
           Fold(g) == [t \in SUBSET S |-> IF t = {} THEN f ELSE Op(g[t \ {LastOf(t)}], w[LastOf(t)])]
           fold == CHOOSE g : g = Fold(g)
<1>1. PassOver(f, w) = fold[S]
  <2>1. DOMAIN w = S
    OBVIOUS
  <2> QED
    BY <2>1 DEF PassOver, FoldLeft, MapThenFoldSet, Max, LastOf
<1>2. \A x \in S, v \in V : step[<<x, v>>] = Op(v, w[x]) /\ step[<<x, v>>] \in V
  OBVIOUS
<1> HIDE DEF step
<1>3. Loop(k, S, V, f, step)
  BY <1>2 DEF Loop
<1>4. PICK g \in [SUBSET S -> V] : LoopValues(S, f, step, g)
  BY <1>3, LoopExists
<1>5. \A t \in SUBSET S : t # {} => LastOf(t) \in t
  BY LastIndex DEF LastOf
<1> HIDE DEF S, Op
<1>6. \A t \in SUBSET S : g[t] = Fold(g)[t]
  <2> TAKE t \in SUBSET S
  <2>1. CASE t = {}
    BY <1>4, <2>1 DEF LoopValues
  <2>2. CASE t # {}
    <3>1. LastOf(t) \in S /\ g[t \ {LastOf(t)}] \in V
      BY <1>4, <1>5, <2>2
    <3> QED
      BY <1>2, <1>4, <2>2, <3>1 DEF LoopValues
  <2> QED
    BY <2>1, <2>2
<1>7. g = Fold(g)
  BY <1>4, <1>6
<1>8. fold = Fold(fold)
  BY <1>7
<1> HIDE DEF fold
<1>9. LoopWithin(S, V, f, step, fold)
  <2>1. fold[{}] = f
    BY <1>8
  <2>2. ASSUME NEW t \in SUBSET S, t # {}, fold[t \ {LastOf(t)}] \in V
        PROVE  fold[t] = step[<<LastOf(t), fold[t \ {LastOf(t)}]>>]
    <3>1. fold[t] = Op(fold[t \ {LastOf(t)}], w[LastOf(t)])
      BY <1>8, <2>2
    <3>2. LastOf(t) \in S
      BY <1>5, <2>2
    <3> QED
      BY <1>2, <2>2, <3>1, <3>2
  <2> QED
    BY <2>1, <2>2 DEF LoopWithin
<1>10. \A x \in S, v \in V : step[<<x, v>>] = WithConnection(v, w[x])
  BY <1>2 DEF Op
<1>11. PassIs(V, f, w, k, step, fold)
  BY <1>1, <1>3, <1>9, <1>10 DEF S, PassIs
<1> QED
  BY <1>11

LEMMA Passed ==
    ASSUME NEW s, InOrder(s), NEW f \in Founds(s), NEW g \in Founds(s), Fewer(s, f, g), NEW n \in s.nodes
    PROVE  /\ Pass(s, f, n) \in Founds(s)
           /\ Fewer(s, f, Pass(s, g, n))
           /\ Fewer(s, Pass(s, f, n), Pass(s, g, n))
<1> DEFINE V == Founds(s)
           C == Connections(s)
           w == Windows(s, n)
           After == {v \in V : Fewer(s, f, v)}
           R == {p \in V \X V : Fewer(s, p[1], p[2])}
<1>1. \A h \in V : Fewer(s, h, h)
  BY DEF Fewer, Finer
<1>2. \A v, u \in V, c \in C : Fewer(s, v, u) =>
         /\ WithConnection(v, c) \in V /\ WithConnection(u, c) \in V
         /\ Fewer(s, v, WithConnection(u, c))
         /\ Fewer(s, WithConnection(v, c), WithConnection(u, c))
  <2> SUFFICES ASSUME NEW v \in V, NEW u \in V, NEW c \in C, Fewer(s, v, u)
               PROVE  /\ WithConnection(v, c) \in V /\ WithConnection(u, c) \in V
                      /\ Fewer(s, v, WithConnection(u, c))
                      /\ Fewer(s, WithConnection(v, c), WithConnection(u, c))
    OBVIOUS
  <2>1. Fewer(s, u, u)
    BY <1>1
  <2>2. WithConnection(u, c) \in V
    BY <2>1, ConnectionFollowed
  <2> QED
    BY <2>2, ConnectionFollowed
<1>3. PICK k \in Nat : w \in [1..k -> C]
  BY WindowsTyped
<1>4. \A v \in V, c \in C : WithConnection(v, c) \in V
  BY <1>1, <1>2
<1>5. g \in After
  OBVIOUS
<1>6. \A v \in After, c \in C : WithConnection(v, c) \in After
  BY <1>2
<1>7. \A v, u \in V : <<v, u>> \in R <=> Fewer(s, v, u)
  OBVIOUS
<1>8. R \in SUBSET (V \X V) /\ <<f, g>> \in R
  OBVIOUS
<1>9. \A v \in After : v \in V /\ Fewer(s, f, v)
  OBVIOUS
<1>10. Pass(s, f, n) = PassOver(f, w) /\ Pass(s, g, n) = PassOver(g, w)
  BY DEF Pass, PassOver
<1> HIDE DEF V, C, w, After, R
<1>11. PICK step1, fold1 : PassIs(V, f, w, k, step1, fold1)
  <2>1. f \in V
    BY DEF V
  <2> QED
    BY <1>3, <1>4, <2>1, PassSteps
<1>12. PICK step2, fold2 : PassIs(V, g, w, k, step2, fold2)
  <2>1. g \in V
    BY DEF V
  <2> QED
    BY <1>3, <1>4, <2>1, PassSteps
<1>13. PICK step3, fold3 : PassIs(After, g, w, k, step3, fold3)
  BY <1>3, <1>5, <1>6, PassSteps
<1>14. PassOver(g, w) \in After
  <2>1. fold3[1..k] \in After
    BY <1>13, LoopStays DEF PassIs
  <2> QED
    BY <1>13, <2>1 DEF PassIs
<1>15. \A x \in 1..k, v, u \in V : <<v, u>> \in R => <<step1[<<x, v>>], step2[<<x, u>>]>> \in R
  <2> SUFFICES ASSUME NEW x \in 1..k, NEW v \in V, NEW u \in V, <<v, u>> \in R
               PROVE  <<step1[<<x, v>>], step2[<<x, u>>]>> \in R
    OBVIOUS
  <2>1. w[x] \in C /\ Fewer(s, v, u)
    BY <1>3, <1>7
  <2>2. <<WithConnection(v, w[x]), WithConnection(u, w[x])>> \in R
    BY <1>2, <1>7, <2>1
  <2> QED
    BY <1>11, <1>12, <2>2 DEF PassIs
<1>16. <<fold1[1..k], fold2[1..k]>> \in R
  BY <1>8, <1>11, <1>12, <1>15, LoopsTogether DEF PassIs
<1>17. fold1[1..k] \in V /\ fold2[1..k] \in V
  BY <1>8, <1>16
<1> QED
  BY <1>7, <1>9, <1>10, <1>11, <1>12, <1>14, <1>16, <1>17 DEF V, PassIs

LEMMA FollowedFewer ==
    ASSUME NEW s, InOrder(s), NEW f \in Founds(s), NEW g \in Founds(s), Fewer(s, f, g), NEW n \in s.nodes,
           NEW lg1, NEW lg2, LessLogic(s, lg1, lg2)
    PROVE  /\ Followed(s, lg1, f, n) \in Founds(s) /\ Followed(s, lg2, g, n) \in Founds(s)
           /\ Fewer(s, Followed(s, lg1, f, n), Followed(s, lg2, g, n))
<1>1. Fewer(s, g, g)
  BY DEF Fewer, Finer
<1>2. Flooding(lg1[n]) => Flooding(lg2[n])
  BY DEF LessLogic, Flooding, NoLogic
<1>3. Pass(s, g, n) \in Founds(s)
  BY <1>1, Passed
<1>4. /\ Pass(s, f, n) \in Founds(s) /\ Fewer(s, f, Pass(s, g, n))
      /\ Fewer(s, Pass(s, f, n), Pass(s, g, n))
  BY Passed
<1>5. \A lg, h : Followed(s, lg, h, n) = IF Flooding(lg[n]) THEN Pass(s, h, n) ELSE h
  BY DEF Followed, Pass
<1> QED
  BY <1>2, <1>3, <1>4, <1>5

(* The whole of the second pass.                                           *)
SecondPass(s, lg, found, nodes) == FoldLeft(LAMBDA f, n : Followed(s, lg, f, n), found, nodes)

SecondPassIs(s, lg, V, found, w, k, step, fold) ==
    /\ Loop(k, 1..k, V, found, step) /\ LoopWithin(1..k, V, found, step, fold)
    /\ SecondPass(s, lg, found, w) = fold[1..k]
    /\ \A x \in 1..k, v \in V : step[<<x, v>>] = Followed(s, lg, v, w[x])

LEMMA SecondPassSteps ==
    ASSUME NEW s, NEW lg, NEW V, NEW found \in V, NEW C, NEW k \in Nat, NEW w \in [1..k -> C],
           \A v \in V, n \in C : Followed(s, lg, v, n) \in V
    PROVE  \E step, fold : SecondPassIs(s, lg, V, found, w, k, step, fold)
<1> DEFINE S == 1..k
           Op(v, n) == Followed(s, lg, v, n)
           step == [c \in S \X V |-> Op(c[2], w[c[1]])]
           Fold(g) == [t \in SUBSET S |-> IF t = {} THEN found ELSE Op(g[t \ {LastOf(t)}], w[LastOf(t)])]
           fold == CHOOSE g : g = Fold(g)
<1>1. SecondPass(s, lg, found, w) = fold[S]
  <2>1. DOMAIN w = S
    OBVIOUS
  <2> QED
    BY <2>1 DEF SecondPass, FoldLeft, MapThenFoldSet, Max, LastOf
<1>2. \A x \in S, v \in V : step[<<x, v>>] = Op(v, w[x]) /\ step[<<x, v>>] \in V
  OBVIOUS
<1> HIDE DEF step
<1>3. Loop(k, S, V, found, step)
  BY <1>2 DEF Loop
<1>4. PICK g \in [SUBSET S -> V] : LoopValues(S, found, step, g)
  BY <1>3, LoopExists
<1>5. \A t \in SUBSET S : t # {} => LastOf(t) \in t
  BY LastIndex DEF LastOf
<1> HIDE DEF S, Op
<1>6. \A t \in SUBSET S : g[t] = Fold(g)[t]
  <2> TAKE t \in SUBSET S
  <2>1. CASE t = {}
    BY <1>4, <2>1 DEF LoopValues
  <2>2. CASE t # {}
    <3>1. LastOf(t) \in S /\ g[t \ {LastOf(t)}] \in V
      BY <1>4, <1>5, <2>2
    <3> QED
      BY <1>2, <1>4, <2>2, <3>1 DEF LoopValues
  <2> QED
    BY <2>1, <2>2
<1>7. g = Fold(g)
  BY <1>4, <1>6
<1>8. fold = Fold(fold)
  BY <1>7
<1> HIDE DEF fold
<1>9. LoopWithin(S, V, found, step, fold)
  <2>1. fold[{}] = found
    BY <1>8
  <2>2. ASSUME NEW t \in SUBSET S, t # {}, fold[t \ {LastOf(t)}] \in V
        PROVE  fold[t] = step[<<LastOf(t), fold[t \ {LastOf(t)}]>>]
    <3>1. fold[t] = Op(fold[t \ {LastOf(t)}], w[LastOf(t)])
      BY <1>8, <2>2
    <3>2. LastOf(t) \in S
      BY <1>5, <2>2
    <3> QED
      BY <1>2, <2>2, <3>1, <3>2
  <2> QED
    BY <2>1, <2>2 DEF LoopWithin
<1>10. \A x \in S, v \in V : step[<<x, v>>] = Followed(s, lg, v, w[x])
  BY <1>2 DEF Op
<1>11. SecondPassIs(s, lg, V, found, w, k, step, fold)
  BY <1>1, <1>3, <1>9, <1>10 DEF S, SecondPassIs
<1> QED
  BY <1>11

(* A node is only reported if it is one, and without some of the logics    *)
(* no node is that was not with them.                                      *)
LEMMA ClosingShrinks ==
    ASSUME NEW s, InOrder(s), NEW lg1, NEW lg2, LessLogic(s, lg1, lg2)
    PROVE  ClosingALoop(s, lg1) \subseteq ClosingALoop(s, lg2) /\ ClosingALoop(s, lg1) \subseteq s.nodes
<1> DEFINE V == Founds(s)
           N == s.nodes
           w == SetToSeq(N)
           f == [sets |-> RoutedSets(s, lg1), closing |-> {}]
           g == [sets |-> RoutedSets(s, lg2), closing |-> {}]
           k == Len(w)
           R == {p \in V \X V : Fewer(s, p[1], p[2])}
<1>1. LessLogic(s, lg2, lg2)
  BY DEF LessLogic
<1>2. f \in V /\ g \in V /\ Fewer(s, f, g)
  BY <1>1, RoutedFiner DEF Founds, Fewer
<1>3. k \in Nat /\ w \in [1..k -> N]
  <2>1. IsFiniteSet(N)
    BY OwnLinks, Thresholds
  <2> HIDE DEF N
  <2>2. w \in Seq(N)
    BY <2>1, Enumerated
  <2> HIDE DEF w
  <2> QED
    BY <2>2, LenProperties
<1>4. /\ ClosingALoop(s, lg1) = SecondPass(s, lg1, f, w).closing
      /\ ClosingALoop(s, lg2) = SecondPass(s, lg2, g, w).closing
  BY DEF ClosingALoop, SecondPass
<1>5. \A v, u \in V, n \in N : Fewer(s, v, u) =>
         /\ Followed(s, lg1, v, n) \in V /\ Followed(s, lg2, u, n) \in V
         /\ Fewer(s, Followed(s, lg1, v, n), Followed(s, lg2, u, n))
  BY FollowedFewer
<1>6. \A v \in V : Fewer(s, v, v)
  BY DEF Fewer, Finer
<1>7. \A v, u \in V : <<v, u>> \in R <=> Fewer(s, v, u)
  OBVIOUS
<1>8. R \in SUBSET (V \X V)
  OBVIOUS
<1> HIDE DEF V, N, w, f, g, k, R
<1>9. PICK step1, fold1 : SecondPassIs(s, lg1, V, f, w, k, step1, fold1)
  <2>1. \A v \in V, n \in N : Followed(s, lg1, v, n) \in V
    BY <1>5, <1>6
  <2> QED
    BY <1>2, <1>3, <2>1, SecondPassSteps
<1>10. PICK step2, fold2 : SecondPassIs(s, lg2, V, g, w, k, step2, fold2)
  <2>1. \A v \in V, n \in N : Followed(s, lg2, v, n) \in V
    BY <1>5, <1>6
  <2> QED
    BY <1>2, <1>3, <2>1, SecondPassSteps
<1>11. \A x \in 1..k, v, u \in V : <<v, u>> \in R => <<step1[<<x, v>>], step2[<<x, u>>]>> \in R
  <2> SUFFICES ASSUME NEW x \in 1..k, NEW v \in V, NEW u \in V, <<v, u>> \in R
               PROVE  <<step1[<<x, v>>], step2[<<x, u>>]>> \in R
    OBVIOUS
  <2>1. w[x] \in N /\ Fewer(s, v, u)
    BY <1>3, <1>7
  <2>2. <<Followed(s, lg1, v, w[x]), Followed(s, lg2, u, w[x])>> \in R
    BY <1>5, <1>7, <2>1
  <2> QED
    BY <1>9, <1>10, <2>2 DEF SecondPassIs
<1>12. <<fold1[1..k], fold2[1..k]>> \in R
  <2>1. <<f, g>> \in R
    BY <1>2, <1>7
  <2>2. /\ Loop(k, 1..k, V, f, step1) /\ LoopWithin(1..k, V, f, step1, fold1)
        /\ Loop(k, 1..k, V, g, step2) /\ LoopWithin(1..k, V, g, step2, fold2)
    BY <1>9, <1>10 DEF SecondPassIs
  <2> QED
    <3> DEFINE S == 1..k
    <3>1. \A x \in S, v, u \in V : <<v, u>> \in R => <<step1[<<x, v>>], step2[<<x, u>>]>> \in R
      BY <1>11
    <3>2. /\ Loop(k, S, V, f, step1) /\ LoopWithin(S, V, f, step1, fold1)
          /\ Loop(k, S, V, g, step2) /\ LoopWithin(S, V, g, step2, fold2)
      BY <2>2
    <3> HIDE DEF S
    <3>3. <<fold1[S], fold2[S]>> \in R
      BY <1>8, <2>1, <3>1, <3>2, LoopsTogether
    <3> QED
      BY <3>3 DEF S
<1>13. fold1[1..k] \in V /\ fold2[1..k] \in V
  BY <1>8, <1>12
<1>14. fold1[1..k].closing \subseteq fold2[1..k].closing /\ fold1[1..k].closing \subseteq s.nodes
  BY <1>7, <1>12, <1>13 DEF Fewer, V, Founds
<1> QED
  BY <1>4, <1>9, <1>10, <1>14 DEF SecondPassIs

-----------------------------------------------------------------------------
(* Which loops are closed.  What the gateways and some connections join is *)
(* a partition; connections are free when each of them joins two parts that*)
(* all the others leave apart.                                             *)

PairsOf(D) == {<<c.one, c.other>> : c \in D}

Linked(s, lg, D) == AllJoined(s.links, RoutedPairs(s, lg) \cup PairsOf(D))

JoinsBoth(s, lg, D, P) ==
    Joins(P, RoutedPairs(s, lg)) /\ \A c \in D : Together(P, c.one, c.other)

Free(s, lg, D) == \A c \in D : ~Together(Linked(s, lg, D \ {c}), c.one, c.other)

LEMMA LinkedFinest ==
    ASSUME NEW s, InOrder(s), NEW lg, NEW D \in SUBSET Connections(s)
    PROVE  /\ Linked(s, lg, D) \in Partitions(s.links) /\ JoinsBoth(s, lg, D, Linked(s, lg, D))
           /\ \A P \in Partitions(s.links) : JoinsBoth(s, lg, D, P) => Finer(s.links, Linked(s, lg, D), P)
<1> DEFINE L == s.links
           S == RoutedPairs(s, lg) \cup PairsOf(D)
<1>1. \A c \in S : c \in L \X L /\ c[1] \in L /\ c[2] \in L
  <2> SUFFICES ASSUME NEW c \in S PROVE c \in L \X L /\ c[1] \in L /\ c[2] \in L
    OBVIOUS
  <2>1. CASE c \in RoutedPairs(s, lg)
    <3>1. PICK n \in s.nodes : c \in s.internal[n] \X s.subscriptions[n]
      BY <2>1 DEF RoutedPairs
    <3> QED
      BY <3>1, OwnLinks
  <2>2. CASE c \in PairsOf(D)
    <3>1. PICK d \in D : c = <<d.one, d.other>>
      BY <2>2 DEF PairsOf
    <3>2. d.one \in L /\ d.other \in L
      BY DEF Connections
    <3> QED
      BY <3>1, <3>2
  <2> QED
    BY <2>1, <2>2
<1>2. IsFiniteSet(S)
  <2>1. S \in SUBSET (L \X L)
    BY <1>1
  <2>2. IsFiniteSet(L)
    BY OwnLinks, Thresholds
  <2>3. IsFiniteSet(L \X L)
    BY <2>2, FS_Product
  <2> HIDE DEF S, L
  <2> QED
    BY <2>1, <2>3, FS_Subset
<1>3. \A P : Joins(P, S) <=> JoinsBoth(s, lg, D, P)
  <2> TAKE P
  <2>1. Joins(P, PairsOf(D)) <=> \A c \in D : Together(P, c.one, c.other)
    <3>1. ASSUME Joins(P, PairsOf(D)), NEW c \in D PROVE Together(P, c.one, c.other)
      <4>1. <<c.one, c.other>> \in PairsOf(D)
        BY DEF PairsOf
      <4>2. Together(P, <<c.one, c.other>>[1], <<c.one, c.other>>[2])
        BY <3>1, <4>1 DEF Joins
      <4> QED
        BY <4>2
    <3>2. ASSUME \A c \in D : Together(P, c.one, c.other), NEW e \in PairsOf(D)
          PROVE  Together(P, e[1], e[2])
      <4>1. PICK c \in D : e = <<c.one, c.other>>
        BY DEF PairsOf
      <4> QED
        BY <3>2, <4>1
    <3> QED
      BY <3>1, <3>2 DEF Joins
  <2>2. Joins(P, S) <=> Joins(P, RoutedPairs(s, lg)) /\ Joins(P, PairsOf(D))
    BY DEF Joins
  <2> QED
    BY <2>1, <2>2 DEF JoinsBoth
<1>4. Linked(s, lg, D) = AllJoined(L, S)
  BY DEF Linked
<1> HIDE DEF L, S
<1>5. /\ AllJoined(L, S) \in Partitions(L) /\ Joins(AllJoined(L, S), S)
      /\ \A P \in Partitions(L) : Joins(P, S) => Finer(L, AllJoined(L, S), P)
  BY <1>1, <1>2, JoinedFinest
<1> QED
  BY <1>3, <1>4, <1>5 DEF L

LEMMA LinkedMore ==
    ASSUME NEW s, InOrder(s), NEW lg, NEW D \in SUBSET Connections(s), NEW E \in SUBSET D
    PROVE  Finer(s.links, Linked(s, lg, E), Linked(s, lg, D))
<1>1. JoinsBoth(s, lg, D, Linked(s, lg, D)) /\ Linked(s, lg, D) \in Partitions(s.links)
  BY LinkedFinest
<1>2. JoinsBoth(s, lg, E, Linked(s, lg, D))
  BY <1>1 DEF JoinsBoth
<1> QED
  BY <1>1, <1>2, LinkedFinest

LEMMA OneMoreLinked ==
    ASSUME NEW s, InOrder(s), NEW lg, NEW D \in SUBSET Connections(s), NEW d \in Connections(s)
    PROVE  LET P == Linked(s, lg, D)
           IN  \A x, y \in s.links : Together(Linked(s, lg, D \cup {d}), x, y) <=>
                  \/ Together(P, x, y)
                  \/ Together(P, x, d.one) /\ Together(P, y, d.other)
                  \/ Together(P, x, d.other) /\ Together(P, y, d.one)
<1> DEFINE L == s.links
           P == Linked(s, lg, D)
           Q == Linked(s, lg, D \cup {d})
           J == Joined(P, d.one, d.other)
<1>1. d.one \in L /\ d.other \in L
  BY DEF Connections
<1>2. \A c \in D : c.one \in L /\ c.other \in L
  BY DEF Connections
<1>3. \A c \in RoutedPairs(s, lg) : c[1] \in L /\ c[2] \in L
  <2> SUFFICES ASSUME NEW c \in RoutedPairs(s, lg) PROVE c[1] \in L /\ c[2] \in L
    OBVIOUS
  <2>1. PICK n \in s.nodes : c \in s.internal[n] \X s.subscriptions[n]
    BY DEF RoutedPairs
  <2> QED
    BY <2>1, OwnLinks
<1>4. /\ P \in Partitions(L) /\ JoinsBoth(s, lg, D, P)
      /\ Q \in Partitions(L) /\ JoinsBoth(s, lg, D \cup {d}, Q)
      /\ \A R \in Partitions(L) : JoinsBoth(s, lg, D \cup {d}, R) => Finer(L, Q, R)
  BY LinkedFinest
<1>5. Finer(L, P, Q)
  BY LinkedMore
<1> HIDE DEF P, Q, L
<1>6. /\ J \in Partitions(L)
      /\ \A x, y \in L : Together(J, x, y) <=>
            \/ Together(P, x, y)
            \/ Together(P, x, d.one) /\ Together(P, y, d.other)
            \/ Together(P, x, d.other) /\ Together(P, y, d.one)
  BY <1>1, <1>4, JoinedLinks
<1> HIDE DEF J
<1>7. JoinsBoth(s, lg, D \cup {d}, J)
  <2>1. Together(J, d.one, d.other)
    BY <1>1, <1>6 DEF Together
  <2>2. \A c \in D : Together(J, c.one, c.other)
    BY <1>2, <1>4, <1>6 DEF JoinsBoth
  <2>3. Joins(J, RoutedPairs(s, lg))
    BY <1>3, <1>4, <1>6 DEF JoinsBoth, Joins
  <2> QED
    BY <2>1, <2>2, <2>3 DEF JoinsBoth
<1>8. Finer(L, Q, J)
  BY <1>4, <1>6, <1>7
<1>9. Finer(L, J, Q)
  <2>1. Together(Q, d.one, d.other)
    BY <1>4 DEF JoinsBoth
  <2> QED
    BY <1>1, <1>4, <1>5, <2>1, JoinedFiner DEF J
<1>10. \A x, y \in L : Together(Q, x, y) <=> Together(J, x, y)
  BY <1>8, <1>9 DEF Finer
<1> QED
  BY <1>6, <1>10 DEF P, Q, L

LEMMA FreeGrows ==
    ASSUME NEW s, InOrder(s), NEW lg, NEW D \in SUBSET Connections(s), Free(s, lg, D),
           NEW d \in Connections(s), ~Together(Linked(s, lg, D), d.one, d.other)
    PROVE  Free(s, lg, D \cup {d})
<1>1. d \notin D
  BY LinkedFinest DEF JoinsBoth
<1>2. d.one \in s.links /\ d.other \in s.links
  BY DEF Connections
<1> SUFFICES ASSUME NEW c \in D \cup {d}, Together(Linked(s, lg, (D \cup {d}) \ {c}), c.one, c.other)
             PROVE  FALSE
  BY DEF Free
<1>3. CASE c = d
  <2>1. (D \cup {d}) \ {c} = D
    BY <1>1, <1>3
  <2> QED
    BY <1>3, <2>1
<1>4. CASE c # d
  <2> DEFINE E == D \ {c}
             Q == Linked(s, lg, E)
  <2>1. c \in D /\ c \in Connections(s) /\ E \in SUBSET Connections(s)
        /\ (D \cup {d}) \ {c} = E \cup {d} /\ D = E \cup {c}
    BY <1>1, <1>4
  <2>2. c.one \in s.links /\ c.other \in s.links
    BY <2>1 DEF Connections
  <2>3. ~Together(Q, c.one, c.other)
    BY <2>1 DEF Free
  <2>4. Together(Linked(s, lg, E \cup {d}), c.one, c.other)
    BY <2>1
  <2> HIDE DEF E
  <2>5. \/ Together(Q, c.one, d.one) /\ Together(Q, c.other, d.other)
        \/ Together(Q, c.one, d.other) /\ Together(Q, c.other, d.one)
    BY <2>1, <2>2, <2>3, <2>4, OneMoreLinked
  <2>6. \A x, y \in s.links : Together(Linked(s, lg, E \cup {c}), x, y) <=>
           \/ Together(Q, x, y)
           \/ Together(Q, x, c.one) /\ Together(Q, y, c.other)
           \/ Together(Q, x, c.other) /\ Together(Q, y, c.one)
    BY <2>1, OneMoreLinked
  <2> HIDE DEF Q
  <2>7. Together(Linked(s, lg, E \cup {c}), d.one, d.other)
    BY <1>2, <2>5, <2>6 DEF Together
  <2> QED
    BY <2>1, <2>7
<1> QED
  BY <1>3, <1>4

(* The fewer the connections, the freer.                                   *)
LEMMA FreeLess ==
    ASSUME NEW s, InOrder(s), NEW lg, NEW D \in SUBSET Connections(s), Free(s, lg, D),
           NEW E \in SUBSET D
    PROVE  Free(s, lg, E)
<1> SUFFICES ASSUME NEW c \in E, Together(Linked(s, lg, E \ {c}), c.one, c.other) PROVE FALSE
  BY DEF Free
<1> DEFINE A == E \ {c}
           B == D \ {c}
<1>1. A \in SUBSET B /\ B \in SUBSET Connections(s) /\ c.one \in s.links /\ c.other \in s.links
  BY DEF Connections
<1>2. Together(Linked(s, lg, A), c.one, c.other) /\ ~Together(Linked(s, lg, B), c.one, c.other)
  BY DEF Free
<1> HIDE DEF A, B
<1>3. Finer(s.links, Linked(s, lg, A), Linked(s, lg, B))
  BY <1>1, LinkedMore
<1> QED
  BY <1>1, <1>2, <1>3 DEF Finer

-----------------------------------------------------------------------------
(* No loop has been closed exactly as long as the connections looked at    *)
(* are free, and then the union-find has joined what they and the gateways *)
(* join.                                                                   *)

Tracks(s, lg, D, f) ==
    /\ f.closing = {} <=> Free(s, lg, D)
    /\ f.closing = {} =>
          \A x, y \in s.links : Together(f.sets, x, y) <=> Together(Linked(s, lg, D), x, y)

LEMMA ConnectionTracked ==
    ASSUME NEW s, InOrder(s), NEW lg, NEW D \in SUBSET Connections(s), NEW f \in Founds(s),
           Tracks(s, lg, D, f), NEW c \in Connections(s), c \notin D
    PROVE  Tracks(s, lg, D \cup {c}, WithConnection(f, c))
<1> DEFINE h == WithConnection(f, c)
           P == Linked(s, lg, D)
<1>1. c.one \in s.links /\ c.other \in s.links /\ f.sets \in Partitions(s.links)
  BY DEF Connections, Founds
<1>2. CASE f.closing # {}
  <2>1. f.closing \subseteq h.closing
    BY DEF WithConnection, Founds
  <2>2. ~Free(s, lg, D)
    BY <1>2 DEF Tracks
  <2>3. ~Free(s, lg, D \cup {c})
    BY <2>2, FreeLess
  <2> HIDE DEF h
  <2> QED
    BY <1>2, <2>1, <2>3 DEF Tracks, h
<1>3. CASE f.closing = {} /\ Together(f.sets, c.one, c.other)
  <2>1. h.closing # {}
    BY <1>3 DEF WithConnection, Together, Founds
  <2>2. Together(P, c.one, c.other)
    BY <1>1, <1>3 DEF Tracks
  <2>3. (D \cup {c}) \ {c} = D
    OBVIOUS
  <2>4. ~Free(s, lg, D \cup {c})
    BY <2>2, <2>3 DEF Free
  <2> HIDE DEF h
  <2> QED
    BY <2>1, <2>4 DEF Tracks, h
<1>4. CASE f.closing = {} /\ ~Together(f.sets, c.one, c.other)
  <2>1. h.closing = {} /\ h.sets = Joined(f.sets, c.one, c.other)
    BY <1>4 DEF WithConnection, Together, Founds
  <2>2. /\ Free(s, lg, D)
        /\ \A x, y \in s.links : Together(f.sets, x, y) <=> Together(P, x, y)
    BY <1>4 DEF Tracks
  <2>3. ~Together(P, c.one, c.other)
    BY <1>1, <1>4, <2>2
  <2>4. Free(s, lg, D \cup {c})
    BY <2>2, <2>3, FreeGrows
  <2>5. \A x, y \in s.links : Together(h.sets, x, y) <=>
           \/ Together(f.sets, x, y)
           \/ Together(f.sets, x, c.one) /\ Together(f.sets, y, c.other)
           \/ Together(f.sets, x, c.other) /\ Together(f.sets, y, c.one)
    <3> DEFINE J == Joined(f.sets, c.one, c.other)
    <3>1. h.sets = J
      BY <2>1
    <3>2. \A x, y \in s.links : Together(J, x, y) <=>
             \/ Together(f.sets, x, y)
             \/ Together(f.sets, x, c.one) /\ Together(f.sets, y, c.other)
             \/ Together(f.sets, x, c.other) /\ Together(f.sets, y, c.one)
      BY <1>1, JoinedLinks
    <3> HIDE DEF h, J
    <3> QED
      BY <3>1, <3>2
  <2>6. \A x, y \in s.links : Together(Linked(s, lg, D \cup {c}), x, y) <=>
           \/ Together(P, x, y)
           \/ Together(P, x, c.one) /\ Together(P, y, c.other)
           \/ Together(P, x, c.other) /\ Together(P, y, c.one)
    BY OneMoreLinked
  <2> HIDE DEF h, P
  <2>7. \A x, y \in s.links : Together(h.sets, x, y) <=> Together(Linked(s, lg, D \cup {c}), x, y)
    BY <1>1, <2>2, <2>5, <2>6
  <2> QED
    BY <2>1, <2>4, <2>7 DEF Tracks, h
<1> QED
  BY <1>2, <1>3, <1>4

WindowSet(s, n) == {Windows(s, n)[i] : i \in DOMAIN Windows(s, n)}

(* The connections of a bridge run along its links, each of which comes    *)
(* once.                                                                   *)
Connects(s, n, w) ==
    /\ \A l \in UsableLinks(s, n) : \E i \in 1..Len(w) : w[i] = l
    /\ \A i \in 1..Len(w) : w[i] \in UsableLinks(s, n)
    /\ \A i, j \in 1..Len(w) : w[i] = w[j] => i = j
    /\ Windows(s, n) = [i \in 1..(Len(w) - 1) |-> [node |-> n, one |-> w[i], other |-> w[i + 1]]]
    /\ WindowSet(s, n) = {[node |-> n, one |-> w[i], other |-> w[i + 1]] : i \in 1..(Len(w) - 1)}

LEMMA WindowsConnect ==
    ASSUME NEW s, InOrder(s), NEW n \in s.nodes
    PROVE  \E w \in Seq(s.links) : Connects(s, n, w)
<1> DEFINE U == UsableLinks(s, n)
           w == SetToSeq(U)
           next == IF w = <<>> THEN <<>> ELSE Tail(w)
<1>1. U \in SUBSET s.links /\ s.links \in SUBSET LinkIds
  BY OwnLinks DEF UsableLinks
<1>2. IsFiniteSet(U)
  BY <1>1, Thresholds
<1> HIDE DEF U
<1>3. /\ w \in Seq(U) /\ \A i, j \in 1..Len(w) : w[i] = w[j] => i = j
      /\ \A l \in U : \E i \in 1..Len(w) : w[i] = l
  BY <1>2, Enumerated
<1> HIDE DEF w
<1>4. /\ Len(w) \in Nat /\ \A i \in 1..Len(w) : w[i] \in U
  BY <1>3, LenProperties, ElementOfSeq
<1>5. DOMAIN next = 1..(Len(w) - 1) /\ \A i \in 1..(Len(w) - 1) : next[i] = w[i + 1]
  <2>1. CASE w = <<>>
    BY <2>1
  <2>2. CASE w # <<>>
    <3>1. Tail(w) \in Seq(U) /\ Len(Tail(w)) = Len(w) - 1 /\ \A i \in 1..Len(Tail(w)) : Tail(w)[i] = w[i + 1]
      BY <1>3, <2>2, HeadTailProperties
    <3>2. DOMAIN Tail(w) = 1..Len(Tail(w))
      BY <3>1, LenProperties
    <3> QED
      BY <2>2, <3>1, <3>2
  <2> QED
    BY <2>1, <2>2
<1>6. Windows(s, n) = [i \in DOMAIN next |-> [node |-> n, one |-> w[i], other |-> next[i]]]
  BY DEF Windows, next, w, U
<1> HIDE DEF next
<1>7. /\ Windows(s, n) = [i \in 1..(Len(w) - 1) |-> [node |-> n, one |-> w[i], other |-> w[i + 1]]]
      /\ WindowSet(s, n) = {[node |-> n, one |-> w[i], other |-> w[i + 1]] : i \in 1..(Len(w) - 1)}
  BY <1>5, <1>6 DEF WindowSet
<1>8. w \in Seq(s.links)
  BY <1>1, <1>3, <1>4, LenProperties
<1> QED
  BY <1>3, <1>4, <1>7, <1>8 DEF Connects, U

LEMMA WindowsApart ==
    ASSUME NEW s, InOrder(s), NEW n \in s.nodes, NEW i \in DOMAIN Windows(s, n),
           NEW j \in DOMAIN Windows(s, n)
    PROVE  Windows(s, n)[i].node = n /\ (i # j => Windows(s, n)[i] # Windows(s, n)[j])
<1>1. PICK w \in Seq(s.links) : Connects(s, n, w)
  BY WindowsConnect
<1>2. /\ DOMAIN Windows(s, n) = 1..(Len(w) - 1)
      /\ Windows(s, n)[i] = [node |-> n, one |-> w[i], other |-> w[i + 1]]
      /\ Windows(s, n)[j] = [node |-> n, one |-> w[j], other |-> w[j + 1]]
  BY <1>1 DEF Connects
<1>3. Len(w) \in Nat
  OBVIOUS
<1>4. i \in 1..Len(w) /\ j \in 1..Len(w)
  BY <1>2, <1>3
<1>5. i # j => w[i] # w[j]
  BY <1>1, <1>4 DEF Connects
<1> QED
  BY <1>2, <1>5

LEMMA PassTracked ==
    ASSUME NEW s, InOrder(s), NEW lg, NEW D \in SUBSET Connections(s), NEW f \in Founds(s),
           Tracks(s, lg, D, f), NEW n \in s.nodes, \A c \in D : c.node # n
    PROVE  /\ Pass(s, f, n) \in Founds(s) /\ WindowSet(s, n) \in SUBSET Connections(s)
           /\ Tracks(s, lg, D \cup WindowSet(s, n), Pass(s, f, n))
<1> DEFINE V == Founds(s)
           C == Connections(s)
           w == Windows(s, n)
           Seen1(t) == D \cup {w[x] : x \in t}
<1>1. PICK k \in Nat : w \in [1..k -> C]
  BY WindowsTyped
<1>1a. \A i, j \in 1..k : w[i].node = n /\ (i # j => w[i] # w[j])
  BY <1>1, WindowsApart
<1> DEFINE S == 1..k
           F == [t \in SUBSET S |-> {v \in V : Tracks(s, lg, Seen1(t), v)}]
<1>2. \A v \in V, c \in C : WithConnection(v, c) \in V
  <2> TAKE v \in V, c \in C
  <2>1. Fewer(s, v, v)
    BY DEF Fewer, Finer
  <2> QED
    BY <2>1, ConnectionFollowed
<1>3. Seen1(S) = D \cup WindowSet(s, n) /\ WindowSet(s, n) \in SUBSET C
  <2>1. DOMAIN w = S
    BY <1>1
  <2> QED
    BY <1>1, <2>1 DEF WindowSet
<1>4. f \in F[{}]
  <2>1. Seen1({}) = D
    OBVIOUS
  <2>2. {} \in SUBSET S
    OBVIOUS
  <2> HIDE DEF Seen1, S
  <2> QED
    BY <2>1, <2>2
<1>5. \A t \in SUBSET S : F[t] = {v \in V : Tracks(s, lg, Seen1(t), v)}
  OBVIOUS
<1>6. \A t \in SUBSET S : \A e \in t : Seen1(t) = Seen1(t \ {e}) \cup {w[e]}
  OBVIOUS
<1>7. \A t \in SUBSET S : Seen1(t) \in SUBSET C /\ \A e \in t : w[e] \notin Seen1(t \ {e})
  <2>1. \A t \in SUBSET S : Seen1(t) \in SUBSET C
    BY <1>1
  <2>2. ASSUME NEW t \in SUBSET S, NEW e \in t, w[e] \in Seen1(t \ {e}) PROVE FALSE
    <3>1. CASE w[e] \in D
      BY <1>1a, <3>1
    <3>2. CASE w[e] \in {w[x] : x \in t \ {e}}
      BY <1>1a, <3>2
    <3> QED
      BY <2>2, <3>1, <3>2
  <2> QED
    BY <2>1, <2>2
<1>8. Pass(s, f, n) = PassOver(f, w)
  BY DEF Pass, PassOver
<1>9. \A x \in S : w[x] \in C
  BY <1>1
<1> HIDE DEF V, C, w, F, Seen1
<1>10. PICK step, fold : PassIs(V, f, w, k, step, fold)
  <2>1. f \in V
    BY DEF V
  <2> QED
    BY <1>1, <1>2, <2>1, PassSteps
<1>11. /\ Loop(k, S, V, f, step) /\ LoopWithin(S, V, f, step, fold) /\ PassOver(f, w) = fold[S]
       /\ \A x \in S, v \in V : step[<<x, v>>] = WithConnection(v, w[x])
  BY <1>10 DEF PassIs
<1>12. \A t \in SUBSET S : t # {} => LastOf(t) \in t
  BY <1>1, LastIndex DEF LastOf
<1> HIDE DEF S
<1>13. \A t \in SUBSET S : t # {} =>
          \A v \in V : v \in F[t \ {LastOf(t)}] => step[<<LastOf(t), v>>] \in F[t]
  <2> SUFFICES ASSUME NEW t \in SUBSET S, t # {}, NEW v \in V, v \in F[t \ {LastOf(t)}]
               PROVE  step[<<LastOf(t), v>>] \in F[t]
    OBVIOUS
  <2> DEFINE e == LastOf(t)
  <2>1. e \in t /\ e \in S /\ t \ {e} \in SUBSET S
    BY <1>12
  <2>2. Tracks(s, lg, Seen1(t \ {e}), v)
    BY <1>5, <2>1
  <2> HIDE DEF e
  <2>3. Tracks(s, lg, Seen1(t \ {e}) \cup {w[e]}, WithConnection(v, w[e]))
    BY <1>7, <1>9, <2>1, <2>2, ConnectionTracked DEF V, C
  <2>4. Tracks(s, lg, Seen1(t), WithConnection(v, w[e])) /\ WithConnection(v, w[e]) \in V
    BY <1>2, <1>6, <1>9, <2>1, <2>3
  <2>5. step[<<e, v>>] \in F[t]
    BY <1>5, <1>11, <2>1, <2>4
  <2> QED
    BY <2>5 DEF e
<1>14. fold[S] \in V /\ fold[S] \in F[S]
  BY <1>4, <1>11, <1>13, LoopFollows
<1>15. Tracks(s, lg, Seen1(S), fold[S])
  BY <1>5, <1>14
<1> QED
  BY <1>3, <1>8, <1>11, <1>14, <1>15 DEF V, C

(* All the connections that bridges make.                                  *)
Flooded(s, lg, nodes) == UNION {WindowSet(s, n) : n \in {k \in nodes : Flooding(lg[k])}}

LEMMA ClosingTracked ==
    ASSUME NEW s, InOrder(s), NEW lg
    PROVE  /\ ClosingALoop(s, lg) = {} <=> Free(s, lg, Flooded(s, lg, s.nodes))
           /\ Flooded(s, lg, s.nodes) \in SUBSET Connections(s)
<1> DEFINE V == Founds(s)
           C == Connections(s)
           N == s.nodes
           w == SetToSeq(N)
           k == Len(w)
           f == [sets |-> RoutedSets(s, lg), closing |-> {}]
           S == 1..k
           Seen1(t) == Flooded(s, lg, {w[x] : x \in t})
           F == [t \in SUBSET S |-> {v \in V : Tracks(s, lg, Seen1(t), v)}]
<1>1. k \in Nat /\ w \in [S -> N] /\ {w[x] : x \in S} = N /\ \A x, z \in S : x # z => w[x] # w[z]
  <2>1. IsFiniteSet(N)
    BY OwnLinks, Thresholds
  <2> HIDE DEF N
  <2>2. /\ w \in Seq(N) /\ \A e \in N : \E i \in 1..Len(w) : w[i] = e
        /\ \A i, j \in 1..Len(w) : w[i] = w[j] => i = j
    BY <2>1, Enumerated
  <2> HIDE DEF w
  <2>3. k \in Nat /\ w \in [S -> N]
    BY <2>2, LenProperties
  <2> QED
    BY <2>2, <2>3
<1>2. LessLogic(s, lg, lg)
  BY DEF LessLogic
<1>3. f \in V /\ \A v \in V : Fewer(s, v, v)
  BY <1>2, RoutedFiner DEF Founds, Fewer, Finer
<1>4. \A v \in V, n \in N : Followed(s, lg, v, n) \in V
  BY <1>2, <1>3, FollowedFewer
<1>5. \A n \in N : WindowSet(s, n) \in SUBSET C /\ \A c \in WindowSet(s, n) : c.node = n
  <2> TAKE n \in N
  <2>1. PICK j \in Nat : Windows(s, n) \in [1..j -> C]
    BY WindowsTyped
  <2> QED
    BY <2>1, WindowsApart DEF WindowSet
<1>6. \A T \in SUBSET N : Flooded(s, lg, T) \in SUBSET C /\ \A c \in Flooded(s, lg, T) : c.node \in T
  BY <1>5 DEF Flooded
<1>7. Tracks(s, lg, {}, f)
  <2>1. PairsOf({}) = {}
    BY DEF PairsOf
  <2>2. Linked(s, lg, {}) = AllJoined(s.links, RoutedPairs(s, lg))
    BY <2>1 DEF Linked
  <2>3. RoutedSets(s, lg) = Linked(s, lg, {})
    BY <2>2 DEF RoutedSets, RoutedPairs, AllJoined, Singles
  <2> QED
    BY <2>3 DEF Tracks, Free
<1>8. \A D \in SUBSET C, v \in V, n \in N : Tracks(s, lg, D, v) /\ (\A c \in D : c.node # n) =>
         Tracks(s, lg, D \cup (IF Flooding(lg[n]) THEN WindowSet(s, n) ELSE {}), Followed(s, lg, v, n))
  <2> SUFFICES ASSUME NEW D \in SUBSET C, NEW v \in V, NEW n \in N, Tracks(s, lg, D, v),
                      \A c \in D : c.node # n
               PROVE  Tracks(s, lg, D \cup (IF Flooding(lg[n]) THEN WindowSet(s, n) ELSE {}),
                             Followed(s, lg, v, n))
    OBVIOUS
  <2>1. Tracks(s, lg, D \cup WindowSet(s, n), Pass(s, v, n))
    BY PassTracked
  <2>2. Followed(s, lg, v, n) = IF Flooding(lg[n]) THEN Pass(s, v, n) ELSE v
    BY DEF Followed, Pass
  <2>3. D \cup {} = D
    OBVIOUS
  <2> QED
    BY <2>1, <2>2, <2>3
<1>9. \A t \in SUBSET S : \A e \in t :
         Seen1(t) = Seen1(t \ {e}) \cup (IF Flooding(lg[w[e]]) THEN WindowSet(s, w[e]) ELSE {})
  <2> SUFFICES ASSUME NEW t \in SUBSET S, NEW e \in t
               PROVE  Seen1(t) = Seen1(t \ {e}) \cup (IF Flooding(lg[w[e]]) THEN WindowSet(s, w[e]) ELSE {})
    OBVIOUS
  <2>1. {w[x] : x \in t} = {w[x] : x \in t \ {e}} \cup {w[e]}
    <3> HIDE DEF w
    <3> QED
      OBVIOUS
  <2>2. \A A, n : Flooded(s, lg, A \cup {n}) =
                     Flooded(s, lg, A) \cup (IF Flooding(lg[n]) THEN WindowSet(s, n) ELSE {})
    <3> TAKE A, n
    <3>1. CASE Flooding(lg[n])
      <4>1. {j \in A \cup {n} : Flooding(lg[j])} = {j \in A : Flooding(lg[j])} \cup {n}
        BY <3>1
      <4> QED
        BY <3>1, <4>1 DEF Flooded
    <3>2. CASE ~Flooding(lg[n])
      <4>1. {j \in A \cup {n} : Flooding(lg[j])} = {j \in A : Flooding(lg[j])}
        BY <3>2
      <4> QED
        BY <3>2, <4>1 DEF Flooded
    <3> QED
      BY <3>1, <3>2
  <2> HIDE DEF w
  <2> QED
    BY <2>1, <2>2
<1>10. Seen1(S) = Flooded(s, lg, N)
  <2> HIDE DEF N, w, S
  <2> QED
    BY <1>1
<1>11. Seen1({}) = {}
  BY DEF Flooded
<1>12. \A t \in SUBSET S : /\ Seen1(t) \in SUBSET C
                            /\ \A e \in t : \A c \in Seen1(t \ {e}) : c.node # w[e]
  <2> HIDE DEF N, w, S, C
  <2>1. ASSUME NEW t \in SUBSET S
        PROVE  {w[x] : x \in t} \in SUBSET N /\ Seen1(t) \in SUBSET C
    BY <1>1, <1>6
  <2>2. ASSUME NEW t \in SUBSET S, NEW e \in t, NEW c \in Seen1(t \ {e}) PROVE c.node # w[e]
    <3>1. t \ {e} \in SUBSET S /\ {w[x] : x \in t \ {e}} \in SUBSET N
      BY <2>1
    <3>2. c.node \in {w[x] : x \in t \ {e}}
      BY <1>6, <3>1
    <3> QED
      BY <1>1, <3>1, <3>2
  <2> QED
    BY <2>1, <2>2
<1>13. \A t \in SUBSET S : F[t] = {v \in V : Tracks(s, lg, Seen1(t), v)}
  OBVIOUS
<1>14. f \in F[{}]
  <2>1. {} \in SUBSET S
    OBVIOUS
  <2> HIDE DEF S, Seen1, f, F, V
  <2> QED
    BY <1>3, <1>7, <1>11, <1>13, <2>1
<1>15. ClosingALoop(s, lg) = SecondPass(s, lg, f, w).closing
  BY DEF ClosingALoop, SecondPass
<1> HIDE DEF V, C, N, w, k, f, F, Seen1
<1>16. PICK step, fold : SecondPassIs(s, lg, V, f, w, k, step, fold)
  BY <1>1, <1>3, <1>4, SecondPassSteps
<1>17. /\ Loop(k, S, V, f, step) /\ LoopWithin(S, V, f, step, fold) /\ SecondPass(s, lg, f, w) = fold[S]
       /\ \A x \in S, v \in V : step[<<x, v>>] = Followed(s, lg, v, w[x])
  BY <1>16 DEF SecondPassIs
<1>18. \A t \in SUBSET S : t # {} => LastOf(t) \in t
  BY <1>1, LastIndex DEF LastOf
<1> HIDE DEF S
<1>19. \A t \in SUBSET S : t # {} =>
          \A v \in V : v \in F[t \ {LastOf(t)}] => step[<<LastOf(t), v>>] \in F[t]
  <2> SUFFICES ASSUME NEW t \in SUBSET S, t # {}, NEW v \in V, v \in F[t \ {LastOf(t)}]
               PROVE  step[<<LastOf(t), v>>] \in F[t]
    OBVIOUS
  <2> DEFINE e == LastOf(t)
             u == Followed(s, lg, v, w[e])
  <2>1. e \in t /\ e \in S /\ t \ {e} \in SUBSET S
    BY <1>18
  <2>2. Tracks(s, lg, Seen1(t \ {e}), v)
    BY <1>13, <2>1
  <2> HIDE DEF e
  <2>3. w[e] \in N /\ \A c \in Seen1(t \ {e}) : c.node # w[e]
    BY <1>1, <1>12, <2>1
  <2>4. Tracks(s, lg, Seen1(t \ {e}) \cup (IF Flooding(lg[w[e]]) THEN WindowSet(s, w[e]) ELSE {}), u)
    BY <1>8, <1>12, <2>1, <2>2, <2>3
  <2>5. Tracks(s, lg, Seen1(t), u) /\ u \in V
    BY <1>4, <1>9, <2>1, <2>3, <2>4
  <2>6. step[<<e, v>>] \in F[t]
    BY <1>13, <1>17, <2>1, <2>5
  <2> QED
    BY <2>6 DEF e
<1>20. fold[S] \in V /\ fold[S] \in F[S]
  <2>1. Loop(k, S, V, f, step) /\ LoopWithin(S, V, f, step, fold)
    BY <1>17
  <2> QED
    BY <1>14, <1>19, <2>1, LoopFollows
<1>21. Tracks(s, lg, Flooded(s, lg, N), fold[S])
  BY <1>10, <1>13, <1>20
<1>22. fold[S].closing = ClosingALoop(s, lg)
  BY <1>15, <1>17
<1>23. Flooded(s, lg, N) \in SUBSET C
  BY <1>6
<1> QED
  BY <1>21, <1>22, <1>23 DEF Tracks, N, C
(* A chain of links each together with the next one is together.           *)
LEMMA ChainTogether ==
    ASSUME NEW P, NEW w, NEW a \in Nat, NEW q \in Nat,
           \A i \in a..(q - 1) : Together(P, w[i], w[i + 1])
    PROVE  \A j \in a..q : Together(P, w[a], w[j])
<1> DEFINE Far == {j \in a..q : ~Together(P, w[a], w[j])}
<1> SUFFICES ASSUME Far # {} PROVE FALSE
  OBVIOUS
<1>1. Far \in SUBSET Nat
  OBVIOUS
<1>2. PICK u \in Far : \A k \in Far : u <= k
  BY <1>1, SmallestNat
<1>3. u \in a..q /\ ~Together(P, w[a], w[u])
  OBVIOUS
<1>4. u # a
  BY <1>3 DEF Together
<1>5. u - 1 \in a..q /\ u - 1 \in a..(q - 1) /\ (u - 1) + 1 = u /\ ~(u <= u - 1)
  BY <1>3, <1>4
<1>6. u - 1 \notin Far
  BY <1>2, <1>5
<1>7. Together(P, w[a], w[u - 1])
  BY <1>5, <1>6
<1>8. Together(P, w[u - 1], w[u])
  BY <1>5
<1> QED
  BY <1>3, <1>7, <1>8 DEF Together

(* All the links of a bridge are together.                                 *)
LEMMA BridgeTogether ==
    ASSUME NEW s, InOrder(s), NEW lg, NEW nodes \in SUBSET s.nodes,
           Flooded(s, lg, nodes) \in SUBSET Connections(s),
           NEW n \in nodes, Flooding(lg[n]),
           NEW k \in UsableLinks(s, n), NEW l \in UsableLinks(s, n)
    PROVE  Together(Linked(s, lg, Flooded(s, lg, nodes)), k, l)
<1> DEFINE D == Flooded(s, lg, nodes)
           P == Linked(s, lg, D)
<1>1. PICK w \in Seq(s.links) : Connects(s, n, w)
  BY WindowsConnect
<1>2. JoinsBoth(s, lg, D, P)
  BY LinkedFinest
<1>3. WindowSet(s, n) \subseteq D
  BY DEF Flooded
<1> HIDE DEF P, D
<1>4. \A i \in 1..(Len(w) - 1) : Together(P, w[i], w[i + 1])
  <2> TAKE i \in 1..(Len(w) - 1)
  <2> DEFINE c == [node |-> n, one |-> w[i], other |-> w[i + 1]]
  <2>1. c \in D
    BY <1>1, <1>3 DEF Connects
  <2>2. Together(P, c.one, c.other)
    BY <1>2, <2>1 DEF JoinsBoth
  <2> QED
    BY <2>2
<1>5. Len(w) \in Nat
  OBVIOUS
<1>6. \A j \in 1..Len(w) : Together(P, w[1], w[j])
  BY <1>4, <1>5, ChainTogether
<1>7. PICK i \in 1..Len(w), j \in 1..Len(w) : w[i] = k /\ w[j] = l
  BY <1>1 DEF Connects
<1>8. Together(P, w[1], w[i]) /\ Together(P, w[1], w[j])
  BY <1>6
<1> QED
  BY <1>7, <1>8 DEF Together, P, D

(* Where the connections are free, two links of a bridge are not together  *)
(* by what the others connect.                                             *)
LEMMA OthersApart ==
    ASSUME NEW s, InOrder(s), NEW lg, NEW b \in s.nodes, Flooding(lg[b]),
           Flooded(s, lg, s.nodes) \in SUBSET Connections(s), Free(s, lg, Flooded(s, lg, s.nodes)),
           NEW k \in UsableLinks(s, b), NEW l \in UsableLinks(s, b), k # l
    PROVE  ~Together(Linked(s, lg, Flooded(s, lg, s.nodes \ {b})), k, l)
<1> DEFINE D == Flooded(s, lg, s.nodes)
           E == Flooded(s, lg, s.nodes \ {b})
<1>1. PICK w \in Seq(s.links) : Connects(s, b, w)
  BY WindowsConnect
<1>2. WindowSet(s, b) \subseteq D /\ E \subseteq D
  BY DEF Flooded
<1>3. \A c \in E : c.node # b
  <2> SUFFICES ASSUME NEW c \in E PROVE c.node # b
    OBVIOUS
  <2>1. PICK n \in s.nodes \ {b} : c \in WindowSet(s, n)
    BY DEF Flooded
  <2>2. PICK v \in Seq(s.links) : Connects(s, n, v)
    BY <2>1, WindowsConnect
  <2> QED
    BY <2>1, <2>2 DEF Connects
<1>4. Free(s, lg, D) /\ D \in SUBSET Connections(s)
  OBVIOUS
<1> HIDE DEF D, E
<1>5. Len(w) \in Nat
  OBVIOUS
<1>6. ASSUME NEW i \in 1..Len(w), NEW j \in 1..Len(w), i < j,
             Together(Linked(s, lg, E), w[i], w[j])
      PROVE  FALSE
  <2> DEFINE c == [node |-> b, one |-> w[i], other |-> w[i + 1]]
             F == D \ {c}
             P == Linked(s, lg, F)
  <2>1. i \in 1..(Len(w) - 1) /\ i + 1 \in Nat /\ j \in (i + 1)..j /\ j \in Nat
    BY <1>5, <1>6
  <2>2. c \in D
    BY <1>1, <1>2, <2>1 DEF Connects
  <2>3. ~Together(P, w[i], w[i + 1])
    <3>1. ~Together(P, c.one, c.other)
      BY <1>4, <2>2 DEF Free
    <3> HIDE DEF P
    <3> QED
      BY <3>1
  <2>4. E \in SUBSET F /\ F \in SUBSET Connections(s)
    BY <1>2, <1>3, <1>4
  <2>5. JoinsBoth(s, lg, F, P) /\ Finer(s.links, Linked(s, lg, E), P)
    <3> HIDE DEF F
    <3> QED
      BY <2>4, LinkedFinest, LinkedMore
  <2> HIDE DEF P
  <2>6. \A h \in (i + 1)..(j - 1) : Together(P, w[h], w[h + 1])
    <3> TAKE h \in (i + 1)..(j - 1)
    <3> DEFINE d == [node |-> b, one |-> w[h], other |-> w[h + 1]]
    <3>1. h \in 1..(Len(w) - 1) /\ h \in 1..Len(w) /\ h # i
      BY <1>5, <1>6
    <3>2. w[h] # w[i]
      BY <1>1, <1>6, <3>1 DEF Connects
    <3>3. d \in F
      BY <1>1, <1>2, <3>1, <3>2, SMTT(30) DEF Connects
    <3>4. Together(P, d.one, d.other)
      BY <2>5, <3>3 DEF JoinsBoth
    <3> QED
      BY <3>4
  <2>7. Together(P, w[i + 1], w[j])
    BY <2>1, <2>6, ChainTogether
  <2>8. w[i] \in s.links /\ w[j] \in s.links
    BY <1>5, <1>6, ElementOfSeq
  <2>9. Together(P, w[i], w[j])
    BY <1>6, <2>5, <2>8 DEF Finer
  <2> QED
    BY <2>3, <2>7, <2>9 DEF Together
<1>7. PICK i \in 1..Len(w), j \in 1..Len(w) : w[i] = k /\ w[j] = l
  BY <1>1 DEF Connects
<1> SUFFICES ASSUME Together(Linked(s, lg, E), k, l) PROVE FALSE
  BY DEF E
<1>8. Together(Linked(s, lg, E), w[i], w[j]) /\ Together(Linked(s, lg, E), w[j], w[i])
  BY <1>7 DEF Together
<1>9. i < j \/ j < i
  BY <1>5, <1>7
<1> QED
  BY <1>6, <1>8, <1>9

(* Where a bridge hears itself, some connection closes a loop.             *)
LEMMA LoopsFound ==
    ASSUME NEW s, InOrder(s), NEW lg, HasRelayLoop(s, lg)
    PROVE  ClosingALoop(s, lg) # {}
<1> SUFFICES ASSUME ClosingALoop(s, lg) = {} PROVE FALSE
  OBVIOUS
<1>1. Free(s, lg, Flooded(s, lg, s.nodes)) /\ Flooded(s, lg, s.nodes) \in SUBSET Connections(s)
  BY ClosingTracked
<1>2. PICK b \in s.nodes : Flooding(lg[b]) /\ HearsItself(s, lg, b)
  BY DEF HasRelayLoop
<1>3. PICK k \in UsableLinks(s, b), l \in UsableLinks(s, b) :
           k # l /\ ReachesOver(s, lg, s.nodes \ {b}, k, l)
  BY <1>2 DEF HearsItself
<1> DEFINE R == s.nodes \ {b}
           E == Flooded(s, lg, R)
           P == Linked(s, lg, E)
           S == {x \in s.links : Together(P, k, x)}
<1>4. E \in SUBSET Connections(s)
  BY <1>1 DEF Flooded
<1>5. k \in S
  BY OwnLinks DEF UsableLinks, Together
<1>6. JoinsBoth(s, lg, E, P)
  BY <1>4, LinkedFinest
<1>7. ASSUME NEW u \in S, NEW x \in RelayedFrom(s, lg, R, u) PROVE x \in S
  <2>1. PICK n \in R : /\ u \in UsableLinks(s, n)
                       /\ Routed(lg[n]) \/ Flooding(lg[n])
                       /\ x \in IF Flooding(lg[n]) THEN UsableLinks(s, n)
                                ELSE IF u \in s.internal[n] THEN s.subscriptions[n] ELSE s.internal[n]
    BY <1>7 DEF RelayedFrom
  <2>2. x \in s.links
    BY <2>1, OwnLinks DEF UsableLinks
  <2>3. Together(P, u, x)
    <3>1. CASE Flooding(lg[n])
      <4>1. x \in UsableLinks(s, n)
        BY <2>1, <3>1
      <4> HIDE DEF S, P
      <4> QED
        BY <1>4, <2>1, <3>1, <4>1, BridgeTogether DEF P
    <3>2. CASE ~Flooding(lg[n])
      <4>1. <<u, x>> \in RoutedPairs(s, lg) \/ <<x, u>> \in RoutedPairs(s, lg)
        BY <2>1, <3>2 DEF RoutedPairs, UsableLinks
      <4>2. Together(P, <<u, x>>[1], <<u, x>>[2]) \/ Together(P, <<x, u>>[1], <<x, u>>[2])
        BY <1>6, <4>1 DEF JoinsBoth, Joins
      <4> QED
        BY <4>2 DEF Together
    <3> QED
      BY <3>1, <3>2
  <2>4. Together(P, k, u)
    OBVIOUS
  <2> QED
    BY <2>2, <2>3, <2>4 DEF Together
<1>8. l \in S
  <2>1. S \in SUBSET s.links /\ \A u \in S : RelayedFrom(s, lg, R, u) \subseteq S
    BY <1>7
  <2> HIDE DEF S
  <2> QED
    BY <1>3, <1>5, <2>1 DEF ReachesOver
<1> QED
  BY <1>1, <1>2, <1>3, <1>8, OthersApart

(* What reaches what, over the relays of R, when each of them relays both  *)
(* ways.                                                                   *)
LEMMA ReachesItself ==
    ASSUME NEW s, NEW lg, NEW R, NEW x
    PROVE  ReachesOver(s, lg, R, x, x)
BY DEF ReachesOver

LEMMA ReachesOn ==
    ASSUME NEW s, NEW lg, NEW R, NEW x, NEW y, NEW z,
           ReachesOver(s, lg, R, x, y), ReachesOver(s, lg, R, y, z)
    PROVE  ReachesOver(s, lg, R, x, z)
BY DEF ReachesOver

LEMMA ReachesNext ==
    ASSUME NEW s, NEW lg, NEW R, NEW x, NEW y \in RelayedFrom(s, lg, R, x)
    PROVE  ReachesOver(s, lg, R, x, y)
BY DEF ReachesOver

LEMMA ReachesBack ==
    ASSUME NEW s, InOrder(s), NEW lg, TwoSided(s, lg), NEW R \in SUBSET s.nodes,
           NEW x \in s.links, NEW y \in s.links, ReachesOver(s, lg, R, x, y)
    PROVE  ReachesOver(s, lg, R, y, x)
<1> DEFINE S == {z \in s.links : ReachesOver(s, lg, R, z, x)}
<1>1. x \in S
  BY ReachesItself
<1>2. ASSUME NEW u \in S, NEW z \in RelayedFrom(s, lg, R, u) PROVE z \in S
  <2>1. PICK n \in R : /\ u \in UsableLinks(s, n)
                       /\ Routed(lg[n]) \/ Flooding(lg[n])
                       /\ z \in IF Flooding(lg[n]) THEN UsableLinks(s, n)
                                ELSE IF u \in s.internal[n] THEN s.subscriptions[n] ELSE s.internal[n]
    BY <1>2 DEF RelayedFrom
  <2>2. z \in UsableLinks(s, n) /\ z \in s.links
    BY <2>1, OwnLinks DEF UsableLinks
  <2>3. u \in IF Flooding(lg[n]) THEN UsableLinks(s, n)
              ELSE IF z \in s.internal[n] THEN s.subscriptions[n] ELSE s.internal[n]
    BY <2>1 DEF TwoSided, UsableLinks
  <2>4. u \in RelayedFrom(s, lg, R, z)
    BY <2>1, <2>2, <2>3 DEF RelayedFrom
  <2> QED
    BY <2>2, <2>4, ReachesNext, ReachesOn
<1>3. S \in SUBSET s.links /\ \A u \in S : RelayedFrom(s, lg, R, u) \subseteq S
  BY <1>2
<1>4. y \in S
  <2> HIDE DEF S
  <2> QED
    BY <1>1, <1>3 DEF ReachesOver
<1> QED
  BY <1>4

(* Links that the other bridges and the gateways join reach one another.   *)
LEMMA JoinedReach ==
    ASSUME NEW s, InOrder(s), NEW lg, TwoSided(s, lg), NEW b \in s.nodes, Flooding(lg[b]),
           Flooded(s, lg, s.nodes \ {b}) \in SUBSET Connections(s),
           NEW k \in s.links, NEW l \in s.links,
           Together(Linked(s, lg, Flooded(s, lg, s.nodes \ {b})), k, l)
    PROVE  ReachesOver(s, lg, s.nodes \ {b}, k, l)
<1> DEFINE L == s.links
           R == s.nodes \ {b}
           E == Flooded(s, lg, R)
           Reached(x) == {y \in L : ReachesOver(s, lg, R, x, y)}
           P == {Reached(x) : x \in L}
<1>1. \A x, y \in L : ReachesOver(s, lg, R, x, y) => Reached(x) = Reached(y)
  BY ReachesBack, ReachesOn
<1>2. P \in Partitions(L)
  <2>1. P \in SUBSET SUBSET L
    OBVIOUS
  <2>2. UNION P = L
    BY ReachesItself
  <2>3. ASSUME NEW x \in L, NEW y \in L, NEW z \in Reached(x) \cap Reached(y)
        PROVE  Reached(x) = Reached(y)
    BY <1>1, <2>3
  <2>4. \A A, B \in P : A # B => A \cap B = {}
    BY <2>3
  <2> QED
    BY <2>1, <2>2, <2>4 DEF Partitions
<1>3. \A x \in L : SetOf(P, x) = Reached(x)
  <2> TAKE x \in L
  <2>1. x \in Reached(x) /\ Reached(x) \in P
    BY ReachesItself
  <2> HIDE DEF P, Reached
  <2> QED
    BY <1>2, <2>1, FoundSet
<1>4. \A x, y \in L : Together(P, x, y) <=> ReachesOver(s, lg, R, x, y)
  <2> TAKE x, y \in L
  <2>1. y \in Reached(y)
    BY ReachesItself
  <2> QED
    BY <1>1, <1>3, <2>1 DEF Together
<1>5. Joins(P, RoutedPairs(s, lg))
  <2> SUFFICES ASSUME NEW c \in RoutedPairs(s, lg) PROVE Together(P, c[1], c[2])
    BY DEF Joins
  <2>1. PICK n \in s.nodes : Routed(lg[n]) /\ c \in s.internal[n] \X s.subscriptions[n]
    BY DEF RoutedPairs
  <2>2. ~Flooding(lg[n]) /\ n \in R
    BY <2>1 DEF Routed, Flooding
  <2>3. c[1] \in s.internal[n] /\ c[2] \in s.subscriptions[n] /\ c[1] \in L /\ c[2] \in L
    BY <2>1, OwnLinks
  <2>4. c[2] \in RelayedFrom(s, lg, R, c[1])
    BY <2>1, <2>2, <2>3 DEF RelayedFrom, UsableLinks
  <2> HIDE DEF P
  <2> QED
    BY <1>4, <2>3, <2>4, ReachesNext
<1>6. \A c \in E : Together(P, c.one, c.other)
  <2> TAKE c \in E
  <2>1. PICK n \in R : Flooding(lg[n]) /\ c \in WindowSet(s, n)
    BY DEF Flooded
  <2>2. PICK w \in Seq(L) : Connects(s, n, w)
    BY WindowsConnect
  <2>3. PICK i \in 1..(Len(w) - 1) : c = [node |-> n, one |-> w[i], other |-> w[i + 1]]
    BY <2>1, <2>2 DEF Connects
  <2>4. i \in 1..Len(w) /\ i + 1 \in 1..Len(w)
    BY LenProperties
  <2>5. c.one \in UsableLinks(s, n) /\ c.other \in UsableLinks(s, n)
    BY <2>2, <2>3, <2>4 DEF Connects
  <2>6. c.one \in L /\ c.other \in L
    BY <2>5, OwnLinks DEF UsableLinks
  <2>7. c.other \in RelayedFrom(s, lg, R, c.one)
    BY <2>1, <2>5 DEF RelayedFrom
  <2> HIDE DEF P
  <2> QED
    BY <1>4, <2>6, <2>7, ReachesNext
<1>7. Finer(L, Linked(s, lg, E), P)
  <2>1. JoinsBoth(s, lg, E, P)
    BY <1>5, <1>6 DEF JoinsBoth
  <2>2. E \in SUBSET Connections(s)
    OBVIOUS
  <2> HIDE DEF P, E
  <2> QED
    BY <1>2, <2>1, <2>2, LinkedFinest
<1>8. Together(P, k, l)
  BY <1>7 DEF Finer
<1> QED
  BY <1>4, <1>8

(* Links of a bridge that the others do not join are joined by its own     *)
(* connections only: none of them can be spared.                           *)
LEMMA ApartFree ==
    ASSUME NEW s, InOrder(s), NEW lg, Flooded(s, lg, s.nodes) \in SUBSET Connections(s),
           \A b \in s.nodes : Flooding(lg[b]) =>
              \A k, l \in UsableLinks(s, b) :
                 k # l => ~Together(Linked(s, lg, Flooded(s, lg, s.nodes \ {b})), k, l)
    PROVE  Free(s, lg, Flooded(s, lg, s.nodes))
<1> DEFINE L == s.links
           D == Flooded(s, lg, s.nodes)
<1> SUFFICES ASSUME NEW c \in D, Together(Linked(s, lg, D \ {c}), c.one, c.other) PROVE FALSE
  BY DEF Free
<1>1. PICK b \in s.nodes : Flooding(lg[b]) /\ c \in WindowSet(s, b)
  BY DEF Flooded
<1>2. PICK w \in Seq(L) : Connects(s, b, w)
  BY WindowsConnect
<1>3. PICK i \in 1..(Len(w) - 1) : c = [node |-> b, one |-> w[i], other |-> w[i + 1]]
  BY <1>1, <1>2 DEF Connects
<1> DEFINE E == Flooded(s, lg, s.nodes \ {b})
           Q == Linked(s, lg, E)
           X == {x \in L : \E h \in 1..i : Together(Q, w[h], x)}
           P == {X, L \ X}
<1>4. /\ Len(w) \in Nat /\ i \in Nat /\ i \in 1..Len(w) /\ i + 1 \in 1..Len(w)
      /\ \A h \in 1..Len(w) : w[h] \in L
  BY LenProperties, ElementOfSeq
<1>5. P \in Partitions(L)
  BY DEF Partitions
<1>6. \A x \in L : SetOf(P, x) = IF x \in X THEN X ELSE L \ X
  <2> TAKE x \in L
  <2>1. X \in P /\ L \ X \in P /\ (x \in X \/ x \in L \ X)
    OBVIOUS
  <2> HIDE DEF P, X
  <2> QED
    BY <1>5, <2>1, FoundSet
<1>7. \A x, y \in L : Together(P, x, y) <=> (x \in X <=> y \in X)
  <2> HIDE DEF P, X
  <2> QED
    BY <1>6, ZenonT(60) DEF Together
<1>8. \A x, y \in L : Together(Q, x, y) => Together(P, x, y)
  <2>1. \A x, y \in L : Together(Q, x, y) => (x \in X <=> y \in X)
    BY DEF Together
  <2> HIDE DEF P, X, Q
  <2> QED
    BY <1>7, <2>1
<1>9. E \in SUBSET Connections(s)
  BY DEF Flooded
<1>10. JoinsBoth(s, lg, E, Q)
  BY <1>9, LinkedFinest
<1>11. \A h \in 1..Len(w) : w[h] \in X <=> h <= i
  <2> TAKE h \in 1..Len(w)
  <2>1. CASE h <= i
    <3>1. h \in 1..i /\ Together(Q, w[h], w[h])
      BY <1>4, <2>1 DEF Together
    <3> QED
      BY <1>4, <2>1, <3>1
  <2>2. CASE ~(h <= i)
    <3>1. ASSUME NEW j \in 1..i, Together(Q, w[j], w[h]) PROVE FALSE
      <4>1. j \in 1..Len(w) /\ j # h
        BY <1>4, <2>2
      <4>2. w[j] # w[h] /\ w[j] \in UsableLinks(s, b) /\ w[h] \in UsableLinks(s, b)
        BY <1>2, <4>1 DEF Connects
      <4> QED
        BY <1>1, <3>1, <4>2
    <3> QED
      BY <2>2, <3>1
  <2> QED
    BY <2>1, <2>2
<1> HIDE DEF X, P, Q
<1>12. \A d \in D \ {c} : Together(P, d.one, d.other)
  <2> TAKE d \in D \ {c}
  <2>0. d.one \in L /\ d.other \in L
    BY DEF Connections
  <2>1. PICK n \in s.nodes : Flooding(lg[n]) /\ d \in WindowSet(s, n)
    BY DEF Flooded
  <2>2. CASE n # b
    <3>1. d \in E
      BY <2>1, <2>2 DEF Flooded
    <3> QED
      BY <1>8, <1>10, <2>0, <3>1 DEF JoinsBoth
  <2>3. CASE n = b
    <3>1. PICK h \in 1..(Len(w) - 1) : d = [node |-> b, one |-> w[h], other |-> w[h + 1]]
      BY <1>2, <2>1, <2>3 DEF Connects
    <3>2. h # i
      BY <1>3, <3>1
    <3>3. h \in 1..Len(w) /\ h + 1 \in 1..Len(w) /\ (h <= i <=> h + 1 <= i)
      BY <1>4, <3>2
    <3>4. d.one = w[h] /\ d.other = w[h + 1]
      BY <3>1
    <3> QED
      BY <1>7, <1>11, <2>0, <3>3, <3>4
  <2> QED
    BY <2>2, <2>3
<1>13. Joins(P, RoutedPairs(s, lg))
  <2> SUFFICES ASSUME NEW p \in RoutedPairs(s, lg) PROVE Together(P, p[1], p[2])
    BY DEF Joins
  <2>1. PICK n \in s.nodes : p \in s.internal[n] \X s.subscriptions[n]
    BY DEF RoutedPairs
  <2>2. p[1] \in L /\ p[2] \in L
    BY <2>1, OwnLinks
  <2> QED
    BY <1>8, <1>10, <2>2 DEF JoinsBoth, Joins
<1>14. Finer(L, Linked(s, lg, D \ {c}), P)
  <2>1. JoinsBoth(s, lg, D \ {c}, P) /\ D \ {c} \in SUBSET Connections(s)
    BY <1>12, <1>13 DEF JoinsBoth
  <2> HIDE DEF D
  <2> QED
    BY <1>5, <2>1, LinkedFinest
<1>15. c.one = w[i] /\ c.other = w[i + 1]
  BY <1>3
<1>16. Together(P, w[i], w[i + 1])
  BY <1>4, <1>14, <1>15 DEF Finer
<1>17. w[i] \in X /\ w[i + 1] \notin X
  BY <1>4, <1>11
<1> QED
  BY <1>4, <1>7, <1>16, <1>17

(* Where no bridge hears itself and gateways have two sides, no connection *)
(* closes a loop.                                                          *)
LEMMA LoopsReal ==
    ASSUME NEW s, InOrder(s), NEW lg, TwoSided(s, lg), ~HasRelayLoop(s, lg)
    PROVE  ClosingALoop(s, lg) = {}
<1>1. Flooded(s, lg, s.nodes) \in SUBSET Connections(s)
  BY ClosingTracked
<1>2. ASSUME NEW b \in s.nodes, Flooding(lg[b]),
             NEW k \in UsableLinks(s, b), NEW l \in UsableLinks(s, b), k # l
      PROVE  ~Together(Linked(s, lg, Flooded(s, lg, s.nodes \ {b})), k, l)
  <2>1. Flooded(s, lg, s.nodes \ {b}) \in SUBSET Connections(s)
    BY <1>1 DEF Flooded
  <2>2. k \in s.links /\ l \in s.links
    BY OwnLinks DEF UsableLinks
  <2>3. ~ReachesOver(s, lg, s.nodes \ {b}, k, l)
    BY <1>2 DEF HasRelayLoop, HearsItself
  <2> QED
    BY <1>2, <2>1, <2>2, <2>3, JoinedReach
<1>3. Free(s, lg, Flooded(s, lg, s.nodes))
  BY <1>1, <1>2, ApartFree
<1> QED
  BY <1>3, ClosingTracked

-----------------------------------------------------------------------------
(* The topology check *)

(* The alert of a tick that is about to begin.                             *)
CycleAlert(n, now) == [Alert("relay_cycle", Error, n, 0) EXCEPT !.tick = now]

LoopAlert(n, now) == [tick |-> now, check |-> "relay_cycle", severity |-> Error, subject |-> n, value |-> 0]

LEMMA CheckTopologyAsks ==
    ASSUME NEW now \in Nat, NEW x, NEW cooldown \in Nat \ {0}, cooldown = scene.config.cooldown,
           Told(x, now, cooldown), InOrder(net)
    PROVE  /\ CheckTopology(x, now) \in Beside([x EXCEPT !.checked = now], now, cooldown)
           /\ \A n \in ClosingALoop(net, logic) : LoopAlert(n, now) \in CheckTopology(x, now).asked
<1> DEFINE v == [x EXCEPT !.checked = now]
           V == Beside(v, now, cooldown)
           S == ClosingALoop(net, logic)
           F == [s \in SUBSET S |-> {w \in V : \A n \in s : LoopAlert(n, now) \in w.asked}]
           Told1(w, n) == Raise(w, CycleAlert(n, now))
           pick == [s \in SUBSET S |-> CHOOSE e \in s : TRUE]
           step == [c \in S \X V |-> Told1(c[2], c[1])]
           Fold(g) == [s \in SUBSET S |->
                          IF s = {} THEN v ELSE Told1(g[s \ {CHOOSE e \in s : TRUE}], CHOOSE e \in s : TRUE)]
           fold == CHOOSE g : g = Fold(g)
<1>1. CheckTopology(x, now) = fold[S]
  BY DEF CheckTopology, CycleAlert, FoldSet, MapThenFoldSet
<1>2. S \in SUBSET NodeIds
  <2>1. LessLogic(net, logic, logic)
    BY DEF LessLogic
  <2> QED
    BY <2>1, ClosingShrinks, OwnLinks
<1>3. v \in V
  <2>1. x \in Monitors
    BY DEF Told
  <2>2. v \in Monitors /\ SameAlerts(x, v)
    BY <2>1 DEF Monitors, SameAlerts
  <2> HIDE DEF v
  <2>3. Told(v, now, cooldown)
    BY <2>2, CountingKeeps
  <2> QED
    BY <2>3, BesideItself
<1>4. \A n \in S, w \in V : Told1(w, n) \in V /\ Told1(w, n).asked = w.asked \cup {LoopAlert(n, now)}
  <2> SUFFICES ASSUME NEW n \in S, NEW w \in V
               PROVE  Told1(w, n) \in V /\ Told1(w, n).asked = w.asked \cup {LoopAlert(n, now)}
    OBVIOUS
  <2> DEFINE a == CycleAlert(n, now)
  <2>1. a = LoopAlert(n, now)
    BY DEF CycleAlert, LoopAlert, Alert
  <2>2. a \in Alerts /\ a.tick = now /\ a.check # "replay"
    BY <1>2, <2>1 DEF LoopAlert, Alerts, Checks, Severities, Subjects
  <2> HIDE DEF a
  <2>3. Raise(w, a) \in V
    BY <2>2, RaiseBeside
  <2>4. Raise(w, a).asked = w.asked \cup {a}
    <3>1. Told(w, now, cooldown)
      BY DEF Beside
    <3> QED
      BY <2>2, <3>1, RaiseKeeps
  <2> QED
    BY <2>1, <2>3, <2>4 DEF a
<1> HIDE DEF V, S, Told1, v
<1>5. v \in F[{}]
  BY <1>3
<1>6. \A s \in SUBSET S : F[s] = {w \in V : \A n \in s : LoopAlert(n, now) \in w.asked}
  OBVIOUS
<1> HIDE DEF F
<1>7. \A n \in S, w \in V : step[<<n, w>>] = Told1(w, n)
  OBVIOUS
<1>8. \A s \in SUBSET S : s # {} => pick[s] = (CHOOSE e \in s : TRUE) /\ pick[s] \in s
  OBVIOUS
<1> HIDE DEF pick, step
<1>9. Steps(S, V, v, pick, step)
  BY <1>2, <1>3, <1>4, <1>7, <1>8, Thresholds DEF Steps
<1>10. PICK g \in [SUBSET S -> V] : IsFold(S, v, pick, step, g)
  BY <1>9, FoldExists
<1>11. \A s \in SUBSET S : g[s] = Fold(g)[s]
  <2> TAKE s \in SUBSET S
  <2>1. CASE s = {}
    BY <1>10, <2>1 DEF IsFold
  <2>2. CASE s # {}
    <3>1. pick[s] \in S /\ g[s \ {pick[s]}] \in V
      BY <1>8, <1>10, <2>2
    <3>2. g[s] = Told1(g[s \ {pick[s]}], pick[s])
      BY <1>7, <1>10, <2>2, <3>1 DEF IsFold
    <3> QED
      BY <1>8, <2>2, <3>2
  <2> QED
    BY <2>1, <2>2
<1>12. g = Fold(g)
  BY <1>10, <1>11
<1>13. fold = Fold(fold)
  BY <1>12
<1> HIDE DEF fold
<1>14. fold[{}] = v /\ \A s \in SUBSET S : s # {} => fold[s] = Told1(fold[s \ {pick[s]}], pick[s])
  BY <1>8, <1>13, ZenonT(60)
<1>15. IsFoldWithin(S, V, v, pick, step, fold)
  <2>1. \A s \in SUBSET S : s # {} /\ fold[s \ {pick[s]}] \in V =>
           fold[s] = step[<<pick[s], fold[s \ {pick[s]}]>>]
    BY <1>7, <1>8, <1>14
  <2> QED
    BY <1>14, <2>1 DEF IsFoldWithin
<1>16. \A s \in SUBSET S : s # {} =>
          \A w \in V : w \in F[s \ {pick[s]}] => step[<<pick[s], w>>] \in F[s]
  <2> SUFFICES ASSUME NEW s \in SUBSET S, s # {}, NEW w \in V, w \in F[s \ {pick[s]}]
               PROVE  step[<<pick[s], w>>] \in F[s]
    OBVIOUS
  <2> DEFINE k == pick[s]
  <2>1. k \in s /\ k \in S /\ s \ {k} \in SUBSET S
    BY <1>8
  <2> HIDE DEF k
  <2>2. step[<<k, w>>] = Told1(w, k) /\ Told1(w, k) \in V
        /\ Told1(w, k).asked = w.asked \cup {LoopAlert(k, now)}
    BY <1>4, <1>7, <2>1
  <2>3. \A n \in s \ {k} : LoopAlert(n, now) \in w.asked
    BY <1>6, <2>1 DEF k
  <2>4. step[<<k, w>>] \in F[s]
    BY <1>6, <2>2, <2>3
  <2> QED
    BY <2>4 DEF k
<1>17. fold[S] \in V /\ fold[S] \in F[S]
  BY <1>9, <1>15, <1>5, <1>16, FoldFollows, SMTT(30)
<1>18. \A n \in S : LoopAlert(n, now) \in fold[S].asked
  BY <1>6, <1>17
<1> QED
  BY <1>1, <1>17, <1>18 DEF V, S, v

(* What the host takes out of the trace it has seen.                       *)
LEMMA DrainKeeps ==
    ASSUME NEW x, NEW now, NEW cooldown, Told(x, now, cooldown)
    PROVE  [x EXCEPT !.drained = @ + Len(x.events), !.events = <<>>] \in Beside(x, now, cooldown)
<1> DEFINE d == x.drained + Len(x.events)
           y == [x EXCEPT !.drained = d, !.events = <<>>]
<1>1. /\ x \in Monitors /\ x.drained \in Nat /\ x.discarded \in Nat /\ x.events \in Seq(Alerts)
  BY DEF Told, Monitors
<1>2. Len(x.events) \in Nat /\ d \in Nat
  BY <1>1
<1>3. Traced(x.raised, <<>>, d + x.discarded)
  <2>1. Len(x.raised) = x.drained + x.discarded + Len(x.events)
    BY DEF Told, Traced
  <2>2. Capacity \in Nat /\ Len(<<>>) = 0
    BY Thresholds
  <2> QED
    BY <1>1, <1>2, <2>1, <2>2 DEF Traced
<1> HIDE DEF d
<1>4. /\ y \in Monitors /\ y.replay = x.replay /\ y.asked = x.asked /\ y.checked = x.checked
      /\ y.raised = x.raised /\ y.fired = x.fired /\ y.latest = x.latest
      /\ y.events = <<>> /\ y.drained = d /\ y.discarded = x.discarded
  <2>1. <<>> \in Seq(Alerts)
    OBVIOUS
  <2> QED
    BY <1>1, <1>2, <2>1 DEF Monitors
<1>5. [x EXCEPT !.drained = @ + Len(x.events), !.events = <<>>] = y
  BY DEF d
<1> HIDE DEF y
<1>6. Told(y, now, cooldown)
  BY <1>3, <1>4 DEF Told
<1> QED
  BY <1>4, <1>5, <1>6 DEF Beside, Since

-----------------------------------------------------------------------------
(* What is remembered of the packets received *)

LEMMA TotalAtMost ==
    ASSUME NEW S, IsFiniteSet(S), NEW f \in [S -> Nat], NEW U \in SUBSET S, NEW g \in [U -> Nat],
           \A x \in U : g[x] <= f[x]
    PROVE  Total(g) <= Total(f)
<1>1. IsFiniteSet(U)
  BY FS_Subset
<1>2. PICK sf \in [SUBSET S -> Nat] : IsSum(S, f, sf) /\ Total(f) = sf[S]
  BY TotalIsASum
<1>3. PICK sg \in [SUBSET U -> Nat] : IsSum(U, g, sg) /\ Total(g) = sg[U]
  BY <1>1, TotalIsASum
<1> DEFINE G == {s \in SUBSET S : sg[s \cap U] <= sf[s]}
<1>4. {} \in G
  <2>1. sf[{}] = 0 /\ sg[{}] = 0 /\ {} \cap U = {}
    BY <1>2, <1>3 DEF IsSum
  <2> QED
    BY <2>1
<1>5. ASSUME NEW s \in SUBSET S, s # {}, \A x \in s : s \ {x} \in G
      PROVE  s \in G
  <2>1. PICK x \in s : TRUE
    BY <1>5
  <2> DEFINE r == s \ {x}
  <2>2. r \in SUBSET S /\ sg[r \cap U] <= sf[r]
    BY <1>5
  <2>3. sf[s] = sf[r] + f[x] /\ sf[r] \in Nat /\ f[x] \in Nat
    BY <1>2, <2>2 DEF IsSum
  <2>4. sg[r \cap U] \in Nat
    <3>1. r \cap U \in SUBSET U
      OBVIOUS
    <3> QED
      BY <3>1
  <2>5. CASE x \in U
    <3>1. s \cap U \in SUBSET U /\ x \in s \cap U /\ (s \cap U) \ {x} = r \cap U
      BY <2>5
    <3>2. sg[s \cap U] = sg[r \cap U] + g[x]
      BY <1>3, <3>1 DEF IsSum
    <3>3. g[x] \in Nat /\ g[x] <= f[x]
      BY <2>5
    <3>4. sg[s \cap U] <= sf[s]
      <4> HIDE DEF r
      <4> QED
        BY <2>2, <2>3, <2>4, <3>2, <3>3
    <3> QED
      BY <3>4
  <2>6. CASE x \notin U
    <3>1. s \cap U = r \cap U
      BY <2>6
    <3>2. sg[s \cap U] = sg[r \cap U]
      BY <3>1
    <3>3. sg[s \cap U] <= sf[s]
      <4> DEFINE y == sg[r \cap U]
                 z == sf[r]
      <4>1. y <= z /\ y \in Nat /\ z \in Nat /\ f[x] \in Nat /\ sg[s \cap U] = y /\ sf[s] = z + f[x]
        BY <2>2, <2>3, <2>4, <3>2
      <4> HIDE DEF y, z
      <4> QED
        BY <4>1
    <3> QED
      BY <3>3
  <2> QED
    BY <2>5, <2>6
<1>6. S \in G
  <2> HIDE DEF G
  <2> QED
    BY <1>4, <1>5, SubsetInduction
<1>7. S \cap U = U
  OBVIOUS
<1> QED
  BY <1>2, <1>3, <1>6, <1>7

Heard(R) == {<<entry[1], entry[2]>> : entry \in BagToSet(R)}

(* All receptions until now.                                               *)
Receipts(now) ==
    {R \in Maps(NodeIds \X Keys \X (0..now), Nat) : IsFiniteSet(Heard(R))}

(* Those of a packet in the window, and how many they are.                 *)
Recent(config, R, n, key, now) ==
    [t0 \in {t \in 0..now : now - t < config.window /\ BagIn(<<n, key, t>>, R)} |-> R[<<n, key, t0>>]]

Came(config, R, n, key, now) == Total(Recent(config, R, n, key, now))

Off == [warn |-> 0, error |-> 0]

(* Nothing is remembered that was not received.                            *)
Recalled(replay, R) ==
    /\ DOMAIN replay \subseteq Heard(R) /\ Cardinality(DOMAIN replay) <= ReplayMemory
    /\ \A n \in NodeIds, key \in Keys : <<n, key>> \in DOMAIN replay =>
          \A t \in DOMAIN replay[<<n, key>>] :
             <<n, key, t>> \in DOMAIN R /\ replay[<<n, key>>][t] <= R[<<n, key, t>>]

(* Nothing in the window is forgotten while there is room.                 *)
Roomy(R) == Cardinality(Heard(R)) <= ReplayMemory

Exact(config, replay, R, now) ==
    Roomy(R) /\ config.replay # Off =>
        \A n \in NodeIds, key \in Keys, t \in 0..now :
            now - t < config.window /\ <<n, key, t>> \in DOMAIN R =>
               /\ <<n, key>> \in DOMAIN replay /\ t \in DOMAIN replay[<<n, key>>]
               /\ replay[<<n, key>>][t] = R[<<n, key, t>>]

Accounted(config, alerts, R, now) ==
    \A a \in alerts : /\ a.tick <= now
                      /\ a.tick = now => \E key \in Keys : a.value <= Came(config, R, a.subject, key, now)

Reported(config, alerts, R, now) ==
    Roomy(R) =>
        \A n \in NodeIds, key \in Keys :
            LET count == Came(config, R, n, key, now)
                severity == Severity(config.replay, count)
            IN  severity # 0 /\ <<n, key, now>> \in DOMAIN R =>
                   \E a \in alerts : /\ a.tick = now /\ a.subject = n
                                     /\ a.value = count /\ a.severity = severity

Mem(config, replay, asked, R, now) ==
    /\ replay \in Maps(NodeIds \X Keys, Counts) /\ asked \in SUBSET Alerts /\ R \in Receipts(now)
    /\ Recalled(replay, R) /\ Exact(config, replay, R, now)
    /\ Accounted(config, Replayed(asked), R, now) /\ Reported(config, Replayed(asked), R, now)

(* One more reception.                                                     *)
Once(R, S, e) ==
    /\ DOMAIN S = DOMAIN R \cup {e} /\ S[e] = (IF e \in DOMAIN R THEN R[e] ELSE 0) + 1
    /\ \A d \in DOMAIN R : d # e => S[d] = R[d]

LEMMA AddedOnce ==
    ASSUME NEW D, NEW R \in Maps(D, Nat), NEW e
    PROVE  Once(R, R (+) SetToBag({e}), e)
<1>1. PICK T \in SUBSET D : R \in [T -> Nat]
  BY DEF Maps
<1> DEFINE more == R (+) SetToBag({e})
           value(d) == (IF d \in T THEN R[d] ELSE 0) + (IF d \in {e} THEN 1 ELSE 0)
<1>2. more = [d \in T \cup {e} |-> value(d)] /\ DOMAIN R = T
  BY <1>1 DEF (+), SetToBag
<1>3. DOMAIN more = T \cup {e}
  BY <1>2
<1>4. more[e] = (IF e \in T THEN R[e] ELSE 0) + 1
  BY <1>2
<1>5. ASSUME NEW d \in T, d # e PROVE more[d] = R[d]
  <2>1. more[d] = R[d] + 0 /\ R[d] \in Nat
    BY <1>1, <1>2, <1>5
  <2> QED
    BY <2>1
<1> HIDE DEF more
<1> QED
  BY <1>2, <1>3, <1>4, <1>5 DEF Once, more

LEMMA OneReceipt ==
    ASSUME NEW now \in Nat, NEW R \in Receipts(now), NEW n \in NodeIds, NEW key \in Keys
    PROVE  LET S == R (+) SetToBag({<<n, key, now>>})
           IN  S \in Receipts(now) /\ Heard(S) = Heard(R) \cup {<<n, key>>}
<1> DEFINE e == <<n, key, now>>
           S == R (+) SetToBag({e})
           D == NodeIds \X Keys \X (0..now)
<1>1. R \in Maps(D, Nat) /\ IsFiniteSet(Heard(R))
  BY DEF Receipts
<1>2. e \in D
  OBVIOUS
<1>3. S \in Maps(D, Nat)
  <2> HIDE DEF e, D
  <2> QED
    BY <1>1, <1>2, CountedMore
<1>4. DOMAIN S = DOMAIN R \cup {e}
  <2> HIDE DEF e
  <2> QED
    BY <1>1, AddedOnce DEF Once
<1> HIDE DEF S
<1>5. Heard(S) = Heard(R) \cup {<<n, key>>}
  <2> DEFINE pair(d) == <<d[1], d[2]>>
  <2>1. pair(e) = <<n, key>>
    OBVIOUS
  <2>2. Heard(S) = {pair(d) : d \in DOMAIN S} /\ Heard(R) = {pair(d) : d \in DOMAIN R}
    BY DEF Heard, BagToSet
  <2> HIDE DEF pair, e
  <2> QED
    BY <1>4, <2>1, <2>2
<1>6. IsFiniteSet(Heard(S))
  BY <1>1, <1>5, FS_AddElement
<1> QED
  BY <1>3, <1>5, <1>6 DEF Receipts, S

LEMMA RoomyBefore ==
    ASSUME NEW now \in Nat, NEW R \in Receipts(now), NEW n \in NodeIds, NEW key \in Keys,
           Roomy(R (+) SetToBag({<<n, key, now>>}))
    PROVE  Roomy(R)
<1> DEFINE S == R (+) SetToBag({<<n, key, now>>})
<1>1. S \in Receipts(now) /\ Heard(R) \subseteq Heard(S)
  BY OneReceipt
<1> HIDE DEF S
<1>2. IsFiniteSet(Heard(S)) /\ IsFiniteSet(Heard(R))
  BY <1>1 DEF Receipts
<1>3. Cardinality(Heard(R)) <= Cardinality(Heard(S))
  BY <1>1, <1>2, FS_Subset
<1>4. Cardinality(Heard(R)) \in Nat /\ Cardinality(Heard(S)) \in Nat /\ ReplayMemory \in Nat
  BY <1>2, FS_CardinalityType, MonitorAssumption
<1>5. Cardinality(Heard(S)) <= ReplayMemory
  BY DEF Roomy, S
<1> QED
  BY <1>3, <1>4, <1>5 DEF Roomy

LEMMA CameGrows ==
    ASSUME NEW now \in Nat, NEW R \in Receipts(now), NEW S \in Receipts(now),
           \A d \in DOMAIN R : d \in DOMAIN S /\ R[d] <= S[d], NEW n, NEW key
    PROVE  /\ Came(scene.config, R, n, key, now) \in Nat /\ Came(scene.config, S, n, key, now) \in Nat
           /\ Came(scene.config, R, n, key, now) <= Came(scene.config, S, n, key, now)
<1> DEFINE A == {t \in 0..now : now - t < scene.config.window /\ BagIn(<<n, key, t>>, R)}
           B == {t \in 0..now : now - t < scene.config.window /\ BagIn(<<n, key, t>>, S)}
           f == Recent(scene.config, R, n, key, now)
           g == Recent(scene.config, S, n, key, now)
<1>1. IsFiniteSet(A) /\ IsFiniteSet(B) /\ A \in SUBSET B
  <2>1. IsFiniteSet(0..now) /\ A \in SUBSET (0..now) /\ B \in SUBSET (0..now)
    BY FS_Interval
  <2>2. A \in SUBSET B
    BY DEF BagIn, BagToSet
  <2> HIDE DEF A, B
  <2> QED
    BY <2>1, <2>2, FS_Subset
<1>2. (\A d \in DOMAIN R : R[d] \in Nat) /\ (\A d \in DOMAIN S : S[d] \in Nat)
  BY DEF Receipts, Maps
<1>3. f \in [A -> Nat] /\ g \in [B -> Nat]
  BY <1>2 DEF Recent, BagIn, BagToSet
<1>4. \A t \in A : f[t] <= g[t]
  BY <1>1 DEF Recent, BagIn, BagToSet
<1> HIDE DEF A, B, f, g
<1>5. Total(f) <= Total(g)
  BY <1>1, <1>3, <1>4, TotalAtMost
<1>6. Total(f) \in Nat
  <2>1. \E sum \in [SUBSET A -> Nat] : IsSum(A, f, sum) /\ Total(f) = sum[A]
    BY <1>1, <1>3, TotalIsASum
  <2> QED
    BY <2>1
<1>7. Total(g) \in Nat
  <2>1. \E sum \in [SUBSET B -> Nat] : IsSum(B, g, sum) /\ Total(g) = sum[B]
    BY <1>1, <1>3, TotalIsASum
  <2> QED
    BY <2>1
<1> QED
  BY <1>5, <1>6, <1>7 DEF Came, f, g

Roomier(replay, made, pair, S) ==
    /\ made \in Maps(NodeIds \X Keys, Counts) /\ pair \in DOMAIN made
    /\ Cardinality(DOMAIN made) <= ReplayMemory
    /\ made[pair] = IF pair \in DOMAIN replay THEN replay[pair] ELSE EmptyBag
    /\ \A q \in DOMAIN made : q # pair => q \in DOMAIN replay /\ made[q] = replay[q]
    /\ Roomy(S) => \A q \in DOMAIN replay : q \in DOMAIN made /\ made[q] = replay[q]

LEMMA RoomMade ==
    ASSUME NEW now \in Nat, NEW x, x.replay \in Maps(NodeIds \X Keys, Counts),
           NEW R \in Receipts(now), Recalled(x.replay, R),
           NEW n \in NodeIds, NEW key \in Keys
    PROVE  Roomier(x.replay, Replays(x, <<n, key>>), <<n, key>>, R (+) SetToBag({<<n, key, now>>}))
<1> DEFINE D == NodeIds \X Keys
           pair == <<n, key>>
           made == Replays(x, pair)
           S == R (+) SetToBag({<<n, key, now>>})
           kept == IF Cardinality(DOMAIN x.replay) >= ReplayMemory THEN <<>> ELSE x.replay
<1>1. S \in Receipts(now) /\ Heard(S) = Heard(R) \cup {pair}
  BY OneReceipt
<1>2. /\ IsFiniteSet(Heard(S)) /\ DOMAIN x.replay \subseteq Heard(R)
      /\ Cardinality(DOMAIN x.replay) <= ReplayMemory /\ ReplayMemory \in Nat \ {0}
  BY <1>1, MonitorAssumption DEF Receipts, Recalled
<1>3. IsFiniteSet(DOMAIN x.replay) /\ Cardinality(DOMAIN x.replay) \in Nat
  BY <1>1, <1>2, FS_Subset, FS_CardinalityType
<1>4. pair \in D /\ x.replay \in Maps(D, Counts)
  OBVIOUS
<1>5. made = IF pair \in DOMAIN x.replay THEN x.replay ELSE Insert(kept, pair, EmptyBag)
  BY DEF Replays
<1> HIDE DEF D, pair, S, made
<1>6. CASE pair \in DOMAIN x.replay
  BY <1>2, <1>4, <1>5, <1>6 DEF Roomier, D, pair, made, S
<1>7. CASE pair \notin DOMAIN x.replay
  <2>1. EmptyBag \in Counts
    <3>1. EmptyBag \in [{} -> Nat] /\ {} \in SUBSET Nat
      BY DEF EmptyBag, SetToBag
    <3> QED
      BY <3>1, FS_EmptySet DEF Counts, Maps
  <2>2. kept \in Maps(D, Counts) /\ DOMAIN kept \subseteq DOMAIN x.replay
        /\ IsFiniteSet(DOMAIN kept) /\ Cardinality(DOMAIN kept) < ReplayMemory
        /\ \A q \in DOMAIN kept : kept[q] = x.replay[q]
    <3>1. CASE Cardinality(DOMAIN x.replay) >= ReplayMemory
      <4>1. <<>> \in [{} -> Counts] /\ {} \in SUBSET D /\ DOMAIN <<>> = {}
        OBVIOUS
      <4>2. <<>> \in Maps(D, Counts)
        BY <4>1 DEF Maps
      <4>3. kept = <<>> /\ Cardinality({}) = 0 /\ IsFiniteSet({})
        BY <3>1, FS_EmptySet
      <4> HIDE DEF kept
      <4> QED
        BY <1>2, <4>1, <4>2, <4>3
    <3>2. CASE ~(Cardinality(DOMAIN x.replay) >= ReplayMemory)
      <4>1. kept = x.replay /\ Cardinality(DOMAIN x.replay) < ReplayMemory
        BY <1>2, <1>3, <3>2
      <4> HIDE DEF kept
      <4> QED
        BY <1>3, <1>4, <4>1
    <3> QED
      BY <3>1, <3>2
  <2>3. Roomy(S) => kept = x.replay
    <3> SUFFICES ASSUME Roomy(S), Cardinality(DOMAIN x.replay) >= ReplayMemory PROVE FALSE
      OBVIOUS
    <3> DEFINE more == DOMAIN x.replay \cup {pair}
    <3>1. Cardinality(more) = Cardinality(DOMAIN x.replay) + 1
      BY <1>3, <1>7, FS_AddElement
    <3>2. more \in SUBSET Heard(S)
      BY <1>1, <1>2
    <3> HIDE DEF more
    <3>3. Cardinality(more) <= Cardinality(Heard(S)) /\ Cardinality(Heard(S)) \in Nat
      BY <1>2, <3>2, FS_Subset, FS_CardinalityType
    <3> QED
      BY <1>2, <1>3, <3>1, <3>3 DEF Roomy
  <2>4. made = Insert(kept, pair, EmptyBag)
    BY <1>5, <1>7
  <2> HIDE DEF kept
  <2>5. made \in Maps(D, Counts)
    BY <1>4, <2>1, <2>2, <2>4, Inserted
  <2>6. /\ DOMAIN made = DOMAIN kept \cup {pair} /\ made[pair] = EmptyBag
        /\ \A q \in DOMAIN kept : q # pair => made[q] = kept[q]
    BY <2>4 DEF Insert
  <2>7. Cardinality(DOMAIN made) <= ReplayMemory
    <3> DEFINE size == Cardinality(DOMAIN kept)
    <3>1. Cardinality(DOMAIN kept \cup {pair}) = IF pair \in DOMAIN kept THEN size ELSE size + 1
      BY <2>2, FS_AddElement
    <3>2. size \in Nat /\ size < ReplayMemory
      BY <2>2, FS_CardinalityType
    <3>3. Cardinality(DOMAIN made) = IF pair \in DOMAIN kept THEN size ELSE size + 1
      BY <2>6, <3>1
    <3> HIDE DEF size
    <3> QED
      BY <1>2, <3>2, <3>3
  <2>8. Roomy(S) => \A q \in DOMAIN x.replay : q \in DOMAIN made /\ made[q] = x.replay[q]
    BY <1>7, <2>3, <2>6
  <2>9. \A q \in DOMAIN made : q # pair => q \in DOMAIN x.replay /\ made[q] = x.replay[q]
    BY <2>2, <2>6
  <2>10. Roomier(x.replay, made, pair, S)
    BY <1>7, <2>5, <2>6, <2>7, <2>8, <2>9 DEF Roomier, D
  <2> QED
    BY <2>10 DEF made, pair, S
<1> QED
  BY <1>6, <1>7

Seen(x, n, key) ==
    InWindow(Replays(x, <<n, key>>)[<<n, key>>] (+) SetToBag({tick}), scene.config.window)

Remembering(x, n, key) == Insert(Replays(x, <<n, key>>), <<n, key>>, Seen(x, n, key))

SeenIs(seen, S, n, key) ==
    /\ seen \in Counts
    /\ \A t \in DOMAIN seen : <<n, key, t>> \in DOMAIN S /\ seen[t] <= S[<<n, key, t>>]
    /\ Total(seen) <= Came(scene.config, S, n, key, tick)
    /\ Roomy(S) /\ scene.config.replay # Off => seen = Recent(scene.config, S, n, key, tick)

LEMMA SeenWhatCame ==
    ASSUME tick \in Nat, scene.config.window \in Nat,
           NEW x, x.replay \in Maps(NodeIds \X Keys, Counts),
           NEW R \in Receipts(tick), Recalled(x.replay, R), Exact(scene.config, x.replay, R, tick),
           NEW n \in NodeIds, NEW key \in Keys
    PROVE  SeenIs(Seen(x, n, key), R (+) SetToBag({<<n, key, tick>>}), n, key)
<1> DEFINE pair == <<n, key>>
           e(t) == <<n, key, t>>
           S == R (+) SetToBag({e(tick)})
           made == Replays(x, pair)
           old == made[pair]
           more == old (+) SetToBag({tick})
           W == scene.config.window
           seen == Seen(x, n, key)
           came == Recent(scene.config, S, n, key, tick)
<1>1. Roomier(x.replay, made, pair, S)
  BY RoomMade
<1>2. S \in Receipts(tick)
  BY OneReceipt
<1>3. Once(R, S, e(tick))
  BY AddedOnce DEF Receipts
<1>4. old \in Counts
  BY <1>1 DEF Roomier, Maps
<1> HIDE DEF S, made, old
<1>5. Once(old, more, tick)
  BY <1>4, AddedOnce DEF Counts
<1>6. more \in Maps(Nat, Nat)
  BY <1>4, CountedMore DEF Counts
<1>7. IsFiniteSet(DOMAIN more)
  BY <1>4, <1>5, FS_AddElement DEF Once, Counts
<1> HIDE DEF more
<1>8. /\ DOMAIN seen = {t \in DOMAIN more : tick - t < W} /\ \A t \in DOMAIN seen : seen[t] = more[t]
      /\ seen = [t \in {t0 \in DOMAIN more : tick - t0 < W} |-> more[t]]
  BY DEF Seen, InWindow, Restrict, more, old, made
<1> HIDE DEF seen
<1>9. seen \in Counts
  <2>1. PICK T \in SUBSET Nat : more \in [T -> Nat]
    BY <1>6 DEF Maps
  <2> DEFINE A == {t \in DOMAIN more : tick - t < W}
  <2>2. A \in SUBSET Nat /\ A \in SUBSET DOMAIN more
    BY <2>1
  <2>3. seen \in [A -> Nat]
    BY <1>8, <2>1
  <2>4. IsFiniteSet(A)
    BY <1>7, <2>2, FS_Subset
  <2>5. DOMAIN seen = A
    BY <1>8
  <2> HIDE DEF A
  <2> QED
    BY <2>2, <2>3, <2>4, <2>5 DEF Counts, Maps
<1>10. ASSUME NEW t \in DOMAIN old
       PROVE  e(t) \in DOMAIN R /\ old[t] <= R[e(t)] /\ old[t] \in Nat /\ R[e(t)] \in Nat
  <2>1. pair \in DOMAIN x.replay /\ old = x.replay[pair]
    <3>1. pair \notin DOMAIN x.replay => old = EmptyBag
      BY <1>1 DEF Roomier, old
    <3>2. DOMAIN EmptyBag = {}
      BY DEF EmptyBag, SetToBag
    <3> QED
      BY <1>1, <3>1, <3>2 DEF Roomier, old
  <2>2. e(t) \in DOMAIN R /\ old[t] <= R[e(t)]
    BY <2>1 DEF Recalled
  <2>3. old[t] \in Nat /\ R[e(t)] \in Nat
    BY <1>4, <2>2 DEF Counts, Receipts, Maps
  <2> QED
    BY <2>2, <2>3
<1>11. ASSUME NEW t \in DOMAIN more
       PROVE  e(t) \in DOMAIN S /\ more[t] <= S[e(t)]
  <2>1. CASE t = tick
    <3>1. /\ e(t) \in DOMAIN S /\ S[e(t)] = (IF e(t) \in DOMAIN R THEN R[e(t)] ELSE 0) + 1
          /\ more[t] = (IF t \in DOMAIN old THEN old[t] ELSE 0) + 1
      BY <1>3, <1>5, <2>1 DEF Once
    <3>2. e(t) \in DOMAIN R => R[e(t)] \in Nat
      BY DEF Receipts, Maps
    <3> HIDE DEF e
    <3> QED
      BY <1>10, <3>1, <3>2
  <2>2. CASE t # tick
    <3>1. t \in DOMAIN old /\ more[t] = old[t]
      BY <1>5, <2>2 DEF Once
    <3>2. e(t) # e(tick)
      BY <2>2
    <3> HIDE DEF e
    <3> QED
      BY <1>3, <1>10, <3>1, <3>2 DEF Once
  <2> QED
    BY <2>1, <2>2
<1>12. \A t \in DOMAIN seen : e(t) \in DOMAIN S /\ seen[t] <= S[e(t)]
  BY <1>8, <1>11
<1> DEFINE B == {t \in 0..tick : tick - t < W /\ BagIn(e(t), S)}
<1>13. came = [t \in B |-> S[e(t)]] /\ DOMAIN came = B /\ (\A t \in B : came[t] = S[e(t)])
       /\ \A t : t \in B <=> t \in 0..tick /\ tick - t < W /\ e(t) \in DOMAIN S
  BY DEF Recent, BagIn, BagToSet
<1>14. IsFiniteSet(B) /\ came \in [B -> Nat]
  <2>1. IsFiniteSet(0..tick) /\ B \in SUBSET (0..tick)
    BY FS_Interval
  <2>2. IsFiniteSet(B)
    BY <2>1, FS_Subset
  <2>3. \A d \in DOMAIN S : S[d] \in Nat
    BY <1>2 DEF Receipts, Maps
  <2>4. \A t \in B : S[e(t)] \in Nat
    BY <1>13, <2>3
  <2> HIDE DEF B
  <2> QED
    BY <1>13, <2>2, <2>4
<1>15. ASSUME NEW t, e(t) \in DOMAIN S PROVE t \in 0..tick
  <2>1. e(t) \in NodeIds \X Keys \X (0..tick)
    BY <1>2, <1>15 DEF Receipts, Maps
  <2> QED
    BY <2>1
<1> HIDE DEF came, B
<1>16. \A t \in DOMAIN seen : t \in B /\ seen[t] <= came[t]
  BY <1>8, <1>12, <1>13, <1>15
<1>17. Total(seen) <= Came(scene.config, S, n, key, tick)
  <2>1. PICK T \in SUBSET Nat : seen \in [T -> Nat]
    BY <1>9 DEF Counts, Maps
  <2>2. T \in SUBSET B /\ \A t \in T : seen[t] <= came[t]
    BY <1>16, <2>1
  <2>3. Total(seen) <= Total(came)
    BY <1>14, <2>1, <2>2, TotalAtMost
  <2> QED
    BY <2>3 DEF Came, came
<1>18. ASSUME Roomy(S), scene.config.replay # Off
       PROVE  seen = came
  <2>1. Roomy(R)
    BY <1>18, RoomyBefore DEF S
  <2>2. ASSUME NEW t \in 0..tick, tick - t < W, e(t) \in DOMAIN R
        PROVE  t \in DOMAIN old /\ old[t] = R[e(t)]
    <3>1. pair \in DOMAIN x.replay /\ t \in DOMAIN x.replay[pair] /\ x.replay[pair][t] = R[e(t)]
      BY <1>18, <2>1, <2>2 DEF Exact
    <3> QED
      BY <1>1, <3>1 DEF Roomier, old
  <2>3. ASSUME NEW t \in B PROVE t \in DOMAIN seen /\ seen[t] = came[t]
    <3>1. t \in 0..tick /\ tick - t < W /\ e(t) \in DOMAIN S /\ came[t] = S[e(t)]
      BY <1>13
    <3>2. t \in DOMAIN more /\ more[t] = S[e(t)]
      <4>1. CASE t = tick
        <5>1. /\ S[e(t)] = (IF e(t) \in DOMAIN R THEN R[e(t)] ELSE 0) + 1
              /\ t \in DOMAIN more /\ more[t] = (IF t \in DOMAIN old THEN old[t] ELSE 0) + 1
          BY <1>3, <1>5, <4>1 DEF Once
        <5>2. e(t) \in DOMAIN R <=> t \in DOMAIN old
          BY <1>10, <2>2, <3>1
        <5>3. e(t) \in DOMAIN R => old[t] = R[e(t)]
          BY <2>2, <3>1
        <5> QED
          BY <5>1, <5>2, <5>3
      <4>2. CASE t # tick
        <5>1. e(t) # e(tick)
          BY <4>2
        <5>2. e(t) \in DOMAIN R /\ S[e(t)] = R[e(t)]
          <6> HIDE DEF e
          <6> QED
            BY <1>3, <3>1, <5>1 DEF Once
        <5>3. t \in DOMAIN old /\ old[t] = R[e(t)]
          BY <2>2, <3>1, <5>2
        <5> QED
          BY <1>5, <4>2, <5>2, <5>3 DEF Once
      <4> QED
        BY <4>1, <4>2
    <3> QED
      BY <1>8, <3>1, <3>2
  <2>4. DOMAIN seen = B
    BY <1>16, <2>3
  <2> QED
    BY <1>8, <1>13, <2>3, <2>4
<1> QED
  BY <1>9, <1>12, <1>17, <1>18 DEF SeenIs, S, seen, came

(* That an alert of now tells how often the packet came.                   *)
Tells(alerts, S, n, key) ==
    LET count == Came(scene.config, S, n, key, tick)
        severity == Severity(scene.config.replay, count)
    IN  severity # 0 =>
           \E a \in alerts : /\ a.tick = tick /\ a.subject = n /\ a.value = count /\ a.severity = severity

LEMMA AlertsStillTell ==
    ASSUME tick \in Nat, NEW R \in Receipts(tick), NEW n \in NodeIds, NEW key \in Keys,
           NEW alerts \in SUBSET Alerts, Accounted(scene.config, alerts, R, tick), Reported(scene.config, alerts, R, tick)
    PROVE  LET S == R (+) SetToBag({<<n, key, tick>>})
           IN  /\ Accounted(scene.config, alerts, S, tick)
               /\ Roomy(S) => \A n2 \in NodeIds, k2 \in Keys :
                     <<n2, k2>> # <<n, key>> /\ <<n2, k2, tick>> \in DOMAIN S => Tells(alerts, S, n2, k2)
<1> DEFINE e == <<n, key, tick>>
           S == R (+) SetToBag({e})
<1>1. S \in Receipts(tick)
  BY OneReceipt
<1>2. Once(R, S, e)
  BY AddedOnce DEF Receipts
<1> HIDE DEF S
<1>3. \A d \in DOMAIN R : d \in DOMAIN S /\ R[d] <= S[d]
  <2> SUFFICES ASSUME NEW d \in DOMAIN R PROVE d \in DOMAIN S /\ R[d] <= S[d]
    OBVIOUS
  <2>1. R[d] \in Nat
    BY DEF Receipts, Maps
  <2> HIDE DEF e
  <2>2. d \in DOMAIN S /\ S[d] \in {R[d], R[d] + 1}
    BY <1>2 DEF Once
  <2> QED
    BY <2>1, <2>2
<1>4. ASSUME NEW n2, NEW k2
      PROVE  /\ Came(scene.config, R, n2, k2, tick) \in Nat /\ Came(scene.config, S, n2, k2, tick) \in Nat
             /\ Came(scene.config, R, n2, k2, tick) <= Came(scene.config, S, n2, k2, tick)
  BY <1>1, <1>3, CameGrows
<1>5. Accounted(scene.config, alerts, S, tick)
  <2> SUFFICES ASSUME NEW a \in alerts, a.tick = tick
               PROVE  \E k2 \in Keys : a.value <= Came(scene.config, S, a.subject, k2, tick)
    BY DEF Accounted
  <2>1. PICK k2 \in Keys : a.value <= Came(scene.config, R, a.subject, k2, tick)
    BY DEF Accounted
  <2>2. a.value \in Nat
    BY DEF Alerts
  <2>3. a.value <= Came(scene.config, S, a.subject, k2, tick)
    BY <1>4, <2>1, <2>2
  <2> QED
    BY <2>3
<1>6. ASSUME Roomy(S), NEW n2 \in NodeIds, NEW k2 \in Keys,
             <<n2, k2>> # <<n, key>>, <<n2, k2, tick>> \in DOMAIN S
      PROVE  Tells(alerts, S, n2, k2)
  <2>1. Roomy(R)
    BY <1>6, RoomyBefore DEF S
  <2>2. \A t : <<n2, k2, t>> # e
    BY <1>6
  <2>3. \A t : /\ <<n2, k2, t>> \in DOMAIN S <=> <<n2, k2, t>> \in DOMAIN R
               /\ <<n2, k2, t>> \in DOMAIN R => S[<<n2, k2, t>>] = R[<<n2, k2, t>>]
    <3> HIDE DEF e
    <3> QED
      BY <1>2, <2>2 DEF Once
  <2>4. Recent(scene.config, S, n2, k2, tick) = Recent(scene.config, R, n2, k2, tick)
    <3> DEFINE A == {t \in 0..tick : tick - t < scene.config.window /\ BagIn(<<n2, k2, t>>, R)}
               B == {t \in 0..tick : tick - t < scene.config.window /\ BagIn(<<n2, k2, t>>, S)}
    <3>1. A = B /\ \A t \in A : S[<<n2, k2, t>>] = R[<<n2, k2, t>>]
      BY <2>3 DEF BagIn, BagToSet
    <3>2. Recent(scene.config, R, n2, k2, tick) = [t \in A |-> R[<<n2, k2, t>>]]
          /\ Recent(scene.config, S, n2, k2, tick) = [t \in B |-> S[<<n2, k2, t>>]]
      BY DEF Recent
    <3> HIDE DEF A, B
    <3> QED
      BY <3>1, <3>2
  <2>5. Came(scene.config, S, n2, k2, tick) = Came(scene.config, R, n2, k2, tick)
    BY <2>4 DEF Came
  <2>6. <<n2, k2, tick>> \in DOMAIN R
    BY <1>6, <2>3
  <2> QED
    BY <2>1, <2>5, <2>6 DEF Reported, Tells
<1> QED
  BY <1>5, <1>6 DEF S

LEMMA OffSaysNothing ==
    ASSUME NEW count, scene.config.replay = Off
    PROVE  Severity(scene.config.replay, count) = 0
BY DEF Severity, Off

(* A reception that is not looked at.                                      *)
LEMMA ReceivedUnwatched ==
    ASSUME tick \in Nat, scene.config.replay = Off,
           NEW replay, NEW asked, NEW R, Mem(scene.config, replay, asked, R, tick),
           NEW n \in NodeIds, NEW key \in Keys
    PROVE  Mem(scene.config, replay, asked, R (+) SetToBag({<<n, key, tick>>}), tick)
<1> DEFINE S == R (+) SetToBag({<<n, key, tick>>})
           alerts == Replayed(asked)
<1>1. /\ replay \in Maps(NodeIds \X Keys, Counts) /\ asked \in SUBSET Alerts /\ R \in Receipts(tick)
      /\ Recalled(replay, R) /\ Accounted(scene.config, alerts, R, tick) /\ Reported(scene.config, alerts, R, tick)
      /\ alerts \in SUBSET Alerts
  BY DEF Mem, Replayed
<1> HIDE DEF alerts
<1>2. S \in Receipts(tick) /\ Heard(S) = Heard(R) \cup {<<n, key>>}
  BY <1>1, OneReceipt
<1>3. Once(R, S, <<n, key, tick>>)
  BY <1>1, AddedOnce DEF Receipts
<1>4. Accounted(scene.config, alerts, S, tick)
  BY <1>1, AlertsStillTell
<1> HIDE DEF S
<1>5. Recalled(replay, S)
  <2> SUFFICES ASSUME NEW n2 \in NodeIds, NEW k2 \in Keys, <<n2, k2>> \in DOMAIN replay,
                      NEW t \in DOMAIN replay[<<n2, k2>>]
               PROVE  <<n2, k2, t>> \in DOMAIN S /\ replay[<<n2, k2>>][t] <= S[<<n2, k2, t>>]
    BY <1>1, <1>2 DEF Recalled
  <2> DEFINE d == <<n2, k2, t>>
             v == replay[<<n2, k2>>][t]
  <2>1. d \in DOMAIN R /\ v <= R[d]
    BY <1>1 DEF Recalled
  <2>2. replay[<<n2, k2>>] \in Counts /\ R[d] \in Nat
    BY <1>1, <2>1 DEF Maps, Receipts
  <2>3. v \in Nat
    BY <2>2, ZenonT(60) DEF Counts, Maps
  <2> HIDE DEF d, v
  <2>4. d \in DOMAIN S /\ S[d] \in {R[d], R[d] + 1}
    BY <1>3, <2>1 DEF Once
  <2>5. v <= S[d]
    BY <2>1, <2>2, <2>3, <2>4
  <2> QED
    BY <2>4, <2>5 DEF d, v
<1>6. Reported(scene.config, alerts, S, tick)
  BY OffSaysNothing DEF Reported
<1> QED
  BY <1>1, <1>2, <1>4, <1>5, <1>6 DEF Mem, Exact, alerts, S

(* And one that is.                                                        *)
LEMMA ReceivedAndCounted ==
    ASSUME tick \in Nat, scene.config.window \in Nat, scene.config.replay # Off,
           NEW x, NEW asked, NEW R, Mem(scene.config, x.replay, x.asked, R, tick),
           NEW n \in NodeIds, NEW key \in Keys, NEW count, count = Total(Seen(x, n, key)), NEW severity,
           severity = Severity(scene.config.replay, count),
           asked = x.asked \cup (IF severity = 0 THEN {} ELSE {Alert("replay", severity, n, count)})
    PROVE  Mem(scene.config, Remembering(x, n, key), asked, R (+) SetToBag({<<n, key, tick>>}), tick)
<1> DEFINE pair == <<n, key>>
           e == <<n, key, tick>>
           S == R (+) SetToBag({e})
           before == Replayed(x.asked)
           alerts == Replayed(asked)
           made == Replays(x, pair)
           seen == Seen(x, n, key)
           new == Alert("replay", severity, n, count)
           C == Remembering(x, n, key)
<1>1. /\ x.replay \in Maps(NodeIds \X Keys, Counts) /\ x.asked \in SUBSET Alerts /\ R \in Receipts(tick)
      /\ Recalled(x.replay, R) /\ Exact(scene.config, x.replay, R, tick)
      /\ Accounted(scene.config, before, R, tick) /\ Reported(scene.config, before, R, tick)
      /\ before \in SUBSET Alerts
  BY DEF Mem, Replayed
<1>2. S \in Receipts(tick) /\ Heard(S) = Heard(R) \cup {pair}
  BY <1>1, OneReceipt
<1>3. Once(R, S, e)
  BY <1>1, AddedOnce DEF Receipts
<1>4. SeenIs(seen, S, n, key)
  BY <1>1, SeenWhatCame
<1>5. Roomier(x.replay, made, pair, S)
  BY <1>1, RoomMade
<1>6. /\ Accounted(scene.config, before, S, tick)
      /\ Roomy(S) => \A n2 \in NodeIds, k2 \in Keys :
            <<n2, k2>> # pair /\ <<n2, k2, tick>> \in DOMAIN S => Tells(before, S, n2, k2)
  <2> HIDE DEF before
  <2> QED
    BY <1>1, AlertsStillTell
<1>7. /\ new.check = "replay" /\ new.tick = tick /\ new.subject = n /\ new.value = count
      /\ new.severity = severity
  BY DEF Alert
<1>8. severity \in {0, 1, 2} /\ count \in Nat
  BY <1>4, TotalIsANumber DEF Severity, Warning, Error, SeenIs
<1>9. severity # 0 => new \in Alerts
  <2>1. "replay" \in Checks /\ n \in Subjects
    BY DEF Checks, Subjects
  <2> QED
    BY <1>8, <2>1 DEF Alert, Alerts, Severities, Warning, Error
<1>10. C = Insert(made, pair, seen)
  BY DEF Remembering
<1> HIDE DEF S, before, made, seen, new, C
<1>11. alerts = before \cup (IF severity = 0 THEN {} ELSE {new})
  BY <1>7 DEF Replayed, before, new
<1>12. asked \in SUBSET Alerts
  BY <1>1, <1>9 DEF new
<1> HIDE DEF alerts
<1>13. C \in Maps(NodeIds \X Keys, Counts)
  <2>1. pair \in NodeIds \X Keys /\ seen \in Counts /\ made \in Maps(NodeIds \X Keys, Counts)
    BY <1>4, <1>5 DEF SeenIs, Roomier
  <2> HIDE DEF pair
  <2> QED
    BY <1>10, <2>1, Inserted
<1>14. DOMAIN C = DOMAIN made /\ C[pair] = seen /\ \A q \in DOMAIN made : q # pair => C[q] = made[q]
  BY <1>5, <1>10 DEF Insert, Roomier
<1>15. Recalled(C, S)
  <2>1. DOMAIN C \subseteq Heard(S) /\ Cardinality(DOMAIN C) <= ReplayMemory
    <3>1. \A q \in DOMAIN made : q = pair \/ q \in DOMAIN x.replay
      BY <1>5 DEF Roomier
    <3>2. DOMAIN x.replay \subseteq Heard(R)
      BY <1>1 DEF Recalled
    <3> HIDE DEF pair
    <3> QED
      BY <1>2, <1>5, <1>14, <3>1, <3>2 DEF Roomier
  <2>2. ASSUME NEW n2 \in NodeIds, NEW k2 \in Keys, <<n2, k2>> \in DOMAIN C,
               NEW t \in DOMAIN C[<<n2, k2>>]
        PROVE  <<n2, k2, t>> \in DOMAIN S /\ C[<<n2, k2>>][t] <= S[<<n2, k2, t>>]
    <3>1. CASE <<n2, k2>> = pair
      <4>1. n2 = n /\ k2 = key /\ C[<<n2, k2>>] = seen /\ t \in DOMAIN seen
        BY <1>14, <2>2, <3>1
      <4> QED
        BY <1>4, <4>1 DEF SeenIs
    <3>2. CASE <<n2, k2>> # pair
      <4> DEFINE q == <<n2, k2>>
                 d == <<n2, k2, t>>
      <4>1. q \in DOMAIN x.replay /\ C[q] = x.replay[q]
        BY <1>5, <1>14, <2>2, <3>2 DEF Roomier
      <4>2. d \in DOMAIN R /\ C[q][t] <= R[d]
        BY <1>1, <2>2, <4>1 DEF Recalled
      <4>3. d # e
        BY <3>2
      <4> HIDE DEF d, e, q
      <4>4. d \in DOMAIN S /\ S[d] = R[d]
        BY <1>3, <4>2, <4>3 DEF Once
      <4>5. d \in DOMAIN S /\ C[q][t] <= S[d]
        BY <4>2, <4>4
      <4> QED
        BY <4>5 DEF d, q
    <3> QED
      BY <3>1, <3>2
  <2> QED
    BY <2>1, <2>2 DEF Recalled
<1>16. Exact(scene.config, C, S, tick)
  <2> SUFFICES ASSUME Roomy(S), NEW n2 \in NodeIds, NEW k2 \in Keys, NEW t \in 0..tick,
                      tick - t < scene.config.window, <<n2, k2, t>> \in DOMAIN S
               PROVE  /\ <<n2, k2>> \in DOMAIN C /\ t \in DOMAIN C[<<n2, k2>>]
                      /\ C[<<n2, k2>>][t] = S[<<n2, k2, t>>]
    BY DEF Exact
  <2>1. Roomy(R)
    BY <1>1, RoomyBefore DEF S
  <2>2. CASE <<n2, k2>> = pair
    <3>1. n2 = n /\ k2 = key /\ pair \in DOMAIN C /\ C[pair] = seen
      BY <1>5, <1>14, <2>2 DEF Roomier
    <3>2. seen = Recent(scene.config, S, n, key, tick)
      BY <1>4 DEF SeenIs
    <3>3. t \in DOMAIN seen /\ seen[t] = S[<<n, key, t>>]
      BY <3>1, <3>2 DEF Recent, BagIn, BagToSet
    <3> QED
      BY <3>1, <3>3
  <2>3. CASE <<n2, k2>> # pair
    <3> DEFINE q == <<n2, k2>>
               d == <<n2, k2, t>>
    <3>1. d # e
      BY <2>3
    <3>2. d \in DOMAIN R /\ S[d] = R[d]
      <4> HIDE DEF e
      <4> QED
        BY <1>3, <3>1 DEF Once
    <3>3. q \in DOMAIN x.replay /\ t \in DOMAIN x.replay[q] /\ x.replay[q][t] = R[d]
      BY <1>1, <2>1, <3>2 DEF Exact
    <3>4. q \in DOMAIN made /\ made[q] = x.replay[q]
      BY <1>5, <3>3 DEF Roomier
    <3>5. q \in DOMAIN C /\ C[q] = x.replay[q]
      <4> HIDE DEF q, d
      <4> QED
        BY <1>14, <2>3, <3>4 DEF q
    <3> QED
      BY <3>2, <3>3, <3>5
  <2> QED
    BY <2>2, <2>3
<1>17. Accounted(scene.config, alerts, S, tick)
  <2> SUFFICES ASSUME NEW a \in alerts
               PROVE  /\ a.tick <= tick
                      /\ a.tick = tick => \E k2 \in Keys : a.value <= Came(scene.config, S, a.subject, k2, tick)
    BY DEF Accounted
  <2>1. CASE a \in before
    BY <1>6, <2>1 DEF Accounted
  <2>2. CASE a = new
    <3>1. a.tick = tick /\ a.subject = n /\ a.value <= Came(scene.config, S, n, key, tick)
      BY <1>4, <1>7, <2>2 DEF SeenIs, seen
    <3> QED
      BY <3>1
  <2> QED
    BY <1>11, <2>1, <2>2
<1>18. Reported(scene.config, alerts, S, tick)
  <2> SUFFICES ASSUME Roomy(S), NEW n2 \in NodeIds, NEW k2 \in Keys, <<n2, k2, tick>> \in DOMAIN S
               PROVE  Tells(alerts, S, n2, k2)
    BY DEF Reported, Tells
  <2>1. CASE <<n2, k2>> # pair
    <3>1. Tells(before, S, n2, k2)
      BY <1>6, <2>1
    <3>2. before \subseteq alerts
      BY <1>11
    <3> QED
      BY <3>1, <3>2 DEF Tells
  <2>2. CASE <<n2, k2>> = pair
    <3>1. n2 = n /\ k2 = key
      BY <2>2
    <3>2. count = Came(scene.config, S, n, key, tick)
      BY <1>4 DEF SeenIs, Came, seen
    <3> HIDE DEF pair, e
    <3> QED
      BY <1>7, <1>11, <3>1, <3>2 DEF Tells
  <2> QED
    BY <2>1, <2>2
<1> QED
  BY <1>2, <1>12, <1>13, <1>15, <1>16, <1>17, <1>18 DEF Mem, alerts, C, S

-----------------------------------------------------------------------------
(* The monitor and what was received, together *)

Well(config, x, R, now) ==
    Told(x, now, config.cooldown) /\ Mem(config, x.replay, x.asked, R, now)

(* What the settings of a scene are.                                       *)
Settings(config) == config.cooldown \in Nat \ {0} /\ config.window \in Nat

LEMMA BesideWell ==
    ASSUME NEW config, NEW now, NEW x, NEW R, Mem(config, x.replay, x.asked, R, now),
           NEW y \in Beside(x, now, config.cooldown)
    PROVE  Well(config, y, R, now)
<1>1. /\ y \in Monitors /\ Told(y, now, config.cooldown)
      /\ y.replay = x.replay /\ Replayed(y.asked) = Replayed(x.asked)
  BY DEF Beside
<1>2. y.asked \in SUBSET Alerts
  BY <1>1 DEF Monitors
<1> QED
  BY <1>1, <1>2 DEF Well, Mem

LEMMA OnDeliveredWell ==
    ASSUME tick \in Nat, Settings(scene.config), NEW x, NEW R, Well(scene.config, x, R, tick),
           NEW n \in NodeIds, NEW key \in Keys
    PROVE  /\ Well(scene.config, OnDelivered(x, n, key), R (+) SetToBag({<<n, key, tick>>}), tick)
           /\ Since(x, OnDelivered(x, n, key))
<1> DEFINE cooldown == scene.config.cooldown
           S == R (+) SetToBag({<<n, key, tick>>})
           C == Remembering(x, n, key)
           y == [x EXCEPT !.replay = C]
           count == Total(Seen(x, n, key))
           severity == Severity(scene.config.replay, count)
           z == RaiseOver(y, scene.config.replay, "replay", n, count)
<1>1. /\ Told(x, tick, cooldown) /\ Mem(scene.config, x.replay, x.asked, R, tick)
      /\ cooldown \in Nat \ {0} /\ scene.config.window \in Nat /\ x \in Monitors
  BY DEF Well, Settings, Told
<1>2. CASE scene.config.replay = Off
  <2>1. OnDelivered(x, n, key) = x
    BY <1>2 DEF OnDelivered, Off
  <2>2. Mem(scene.config, x.replay, x.asked, S, tick)
    BY <1>1, <1>2, ReceivedUnwatched
  <2> QED
    BY <1>1, <2>1, <2>2 DEF Well, Since
<1>3. CASE scene.config.replay # Off
  <2>1. OnDelivered(x, n, key) = z
    BY <1>3 DEF OnDelivered, Off, Remembering, Seen
  <2>2. \A asked : asked = x.asked \cup
                      (IF severity = 0 THEN {} ELSE {Alert("replay", severity, n, count)}) =>
           Mem(scene.config, C, asked, S, tick)
    BY <1>1, <1>3, ReceivedAndCounted
  <2>3. C \in Maps(NodeIds \X Keys, Counts)
    <3>1. \E asked : Mem(scene.config, C, asked, S, tick)
      BY <2>2
    <3> QED
      BY <3>1 DEF Mem
  <2>4. count \in Nat
    <3>1. SeenIs(Seen(x, n, key), S, n, key)
      BY <1>1, SeenWhatCame DEF Mem
    <3> QED
      BY <3>1, TotalIsANumber DEF SeenIs
  <2> HIDE DEF C
  <2>5. y \in Monitors /\ SameAlerts(x, y) /\ y.replay = C /\ y.asked = x.asked /\ y.checked = x.checked
    BY <1>1, <2>3 DEF Monitors, SameAlerts
  <2> HIDE DEF y, count
  <2>6. Told(y, tick, cooldown)
    BY <1>1, <2>5, CountingKeeps
  <2>7. "replay" \in Checks /\ n \in Subjects
    BY DEF Checks, Subjects
  <2>8. /\ Told(z, tick, cooldown) /\ SameCounts(y, z)
        /\ z.asked = y.asked \cup (IF severity = 0 THEN {} ELSE {Alert("replay", severity, n, count)})
    BY <1>1, <2>4, <2>6, <2>7, RaiseOverKeeps
  <2> HIDE DEF z, severity
  <2>9. z.replay = C /\ z.asked = x.asked \cup
                      (IF severity = 0 THEN {} ELSE {Alert("replay", severity, n, count)})
    BY <2>5, <2>8 DEF SameCounts
  <2>10. Mem(scene.config, z.replay, z.asked, S, tick)
    BY <2>2, <2>9
  <2>11. Since(x, z)
    BY <2>5, <2>8 DEF Since, SameCounts
  <2> QED
    BY <2>1, <2>8, <2>10, <2>11 DEF Well
<1> QED
  BY <1>2, <1>3

LEMMA CopyHandledWell ==
    ASSUME tick \in Nat, Settings(scene.config), NEW x, NEW R, Well(scene.config, x, R, tick),
           NEW n \in NodeIds, NEW key \in Keys, NEW fate,
           fate.is \in {"declined", "expired", "kept", "handled", "panicked"},
           fate.is \in {"handled", "panicked"} => fate.sends \in Nat
    PROVE  /\ Well(scene.config, CopyHandled(x, n, key, fate),
                   IF Receives(fate) THEN R (+) SetToBag({<<n, key, tick>>}) ELSE R, tick)
           /\ Since(x, CopyHandled(x, n, key, fate))
<1> DEFINE cooldown == scene.config.cooldown
           S == R (+) SetToBag({<<n, key, tick>>})
           y == OnDelivered(x, n, key)
<1>1. Well(scene.config, y, S, tick) /\ Since(x, y)
  BY OnDeliveredWell
<1>2. /\ Told(x, tick, cooldown) /\ Told(y, tick, cooldown) /\ cooldown \in Nat \ {0}
      /\ Mem(scene.config, x.replay, x.asked, R, tick) /\ Mem(scene.config, y.replay, y.asked, S, tick)
  BY <1>1 DEF Well, Settings
<1>3. n \in Subjects /\ {"ttl_expired", "logic_panicked", "amplification"} \subseteq Checks \ {"replay"}
  BY DEF Subjects, Checks
<1> HIDE DEF y, S
<1>4. x \in Beside(x, tick, cooldown) /\ y \in Beside(y, tick, cooldown)
  BY <1>2, BesideItself
<1>10. /\ Since(x, x) /\ \A z \in Beside(x, tick, cooldown) : Since(x, z)
       /\ \A z \in Beside(y, tick, cooldown) : Since(x, z)
  BY <1>1 DEF Since, Beside
<1>5. CASE fate.is = "declined"
  BY <1>5, <1>10 DEF CopyHandled, Receives
<1>6. CASE fate.is = "expired"
  <2>1. OnTtlExpired(x, n) \in Beside(x, tick, cooldown)
    BY <1>2, <1>3, <1>4, ErrorBeside DEF OnTtlExpired
  <2>2. Well(scene.config, OnTtlExpired(x, n), R, tick)
    BY <1>2, <2>1, BesideWell
  <2> QED
    BY <1>6, <1>10, <2>1, <2>2 DEF CopyHandled, Receives
<1>7. CASE fate.is = "kept"
  BY <1>1, <1>7 DEF CopyHandled, Receives, y, S
<1>8. CASE fate.is = "handled"
  <2>1. OnHandled(y, n, fate.sends) \in Beside(y, tick, cooldown)
    BY <1>2, <1>3, <1>4, <1>8, RaiseOverBeside DEF OnHandled
  <2>2. Well(scene.config, OnHandled(y, n, fate.sends), S, tick)
    BY <1>2, <2>1, BesideWell
  <2> QED
    BY <1>8, <1>10, <2>1, <2>2 DEF CopyHandled, Receives, y, S
<1>9. CASE fate.is = "panicked"
  <2> DEFINE z == OnLogicPanicked(y, n)
  <2>1. z \in Beside(y, tick, cooldown)
    BY <1>2, <1>3, <1>4, ErrorBeside DEF OnLogicPanicked
  <2> HIDE DEF z
  <2>2. OnHandled(z, n, fate.sends) \in Beside(y, tick, cooldown)
    BY <1>2, <1>3, <1>9, <2>1, RaiseOverBeside DEF OnHandled
  <2>3. Well(scene.config, OnHandled(z, n, fate.sends), S, tick)
    BY <1>2, <2>2, BesideWell
  <2> QED
    BY <1>9, <1>10, <2>2, <2>3 DEF CopyHandled, Receives, y, S, z
<1> QED
  BY <1>5, <1>6, <1>7, <1>8, <1>9

LEMMA OnTransmitKeeps ==
    ASSUME NEW x, NEW now, NEW cooldown, Told(x, now, cooldown), NEW n \in NodeIds, NEW l \in LinkIds
    PROVE  OnTransmit(x, n, l) \in Beside(x, now, cooldown)
<1> DEFINE A == x.link_sends (+) SetToBag({l})
           B == x.node_sends (+) SetToBag({n})
           N == x.network_sends + 1
           y == [x EXCEPT !.network_sends = N, !.link_sends = A, !.node_sends = B]
<1>1. x \in Monitors
  BY DEF Told
<1>2. x.link_sends \in Maps(LinkIds, Nat) /\ x.node_sends \in Maps(NodeIds, Nat) /\ x.network_sends \in Nat
  BY <1>1 DEF Monitors
<1>3. A \in Maps(LinkIds, Nat) /\ B \in Maps(NodeIds, Nat) /\ N \in Nat
  BY <1>2, CountedMore
<1> HIDE DEF A, B, N
<1>4. y \in Monitors /\ SameAlerts(x, y) /\ y.replay = x.replay /\ y.checked = x.checked
  BY <1>1, <1>3 DEF Monitors, SameAlerts
<1>5. OnTransmit(x, n, l) = y
  BY DEF OnTransmit, A, B, N
<1> HIDE DEF y
<1>6. Told(y, now, cooldown)
  BY <1>4, CountingKeeps
<1> QED
  BY <1>4, <1>5, <1>6 DEF Beside, SameAlerts, Since

LEMMA OneTakerMore ==
    ASSUME NEW D, NEW R \in Maps(D, Nat), NEW T, NEW e, e \notin T
    PROVE  /\ R (+) SetToBag(T \cup {e}) = (R (+) SetToBag(T)) (+) SetToBag({e})
           /\ R (+) SetToBag({}) = R
<1>1. PICK A \in SUBSET D : R \in [A -> Nat]
  BY DEF Maps
<1> DEFINE one == R (+) SetToBag(T \cup {e})
           some == R (+) SetToBag(T)
           two == some (+) SetToBag({e})
           at(d) == IF d \in A THEN R[d] ELSE 0
<1>2. some = [d \in A \cup T |-> at(d) + (IF d \in T THEN 1 ELSE 0)] /\ DOMAIN some = A \cup T
  BY <1>1 DEF (+), SetToBag
<1>3. one = [d \in A \cup (T \cup {e}) |-> at(d) + (IF d \in T \cup {e} THEN 1 ELSE 0)]
      /\ DOMAIN one = A \cup (T \cup {e})
  BY <1>1 DEF (+), SetToBag
<1> HIDE DEF some
<1>4. two = [d \in (A \cup T) \cup {e} |-> (IF d \in A \cup T THEN some[d] ELSE 0) + (IF d \in {e} THEN 1 ELSE 0)]
      /\ DOMAIN two = (A \cup T) \cup {e}
  BY <1>2 DEF (+), SetToBag
<1>5. \A d : at(d) \in Nat
  BY <1>1
<1> HIDE DEF one, two, at
<1>6. ASSUME NEW d \in A \cup (T \cup {e}) PROVE one[d] = two[d]
  <2>1. one[d] = at(d) + (IF d \in T \cup {e} THEN 1 ELSE 0)
    BY <1>3
  <2>2. two[d] = (IF d \in A \cup T THEN some[d] ELSE 0) + (IF d \in {e} THEN 1 ELSE 0)
    BY <1>4
  <2>3. d \in A \cup T => some[d] = at(d) + (IF d \in T THEN 1 ELSE 0)
    BY <1>2
  <2>4. d \notin A => at(d) = 0
    BY DEF at
  <2> QED
    BY <1>5, <2>1, <2>2, <2>3, <2>4
<1>7. one = two
  BY <1>3, <1>4, <1>6
<1>8. R (+) SetToBag({}) = R
  <2>1. R (+) SetToBag({}) = [d \in A |-> R[d] + 0]
    BY <1>1 DEF (+), SetToBag
  <2>2. \A d \in A : R[d] + 0 = R[d]
    BY <1>1
  <2> QED
    BY <1>1, <2>1, <2>2
<1> QED
  BY <1>7, <1>8 DEF one, two, some

(* What the monitor is told of the copies of a packet, one after another.  *)
Copies(x, key, fates, listeners) ==
    FoldSet(LAMBDA k, mon : CopyHandled(mon, k, key, fates[k]), x, listeners)

LEMMA CopiesWell ==
    ASSUME tick \in Nat, scene \in Scenes, Settings(scene.config),
           NEW x, NEW R, Well(scene.config, x, R, tick),
           NEW listeners \in SUBSET NodeIds, NEW key \in Keys, NEW fates \in [listeners -> scene.fates]
    PROVE  LET takers == {k \in listeners : Receives(fates[k])}
           IN  /\ Well(scene.config, Copies(x, key, fates, listeners),
                       R (+) SetToBag({<<k, key, tick>> : k \in takers}), tick)
               /\ Since(x, Copies(x, key, fates, listeners))
<1> DEFINE S == listeners
           V == {v \in Monitors : \E Q \in Receipts(tick) : Well(scene.config, v, Q, tick)}
           takers == {k \in listeners : Receives(fates[k])}
           entry(k) == <<k, key, tick>>
           Came1(s) == R (+) SetToBag({entry(k) : k \in takers \cap s})
           F == [s \in SUBSET S |-> {v \in V : Well(scene.config, v, Came1(s), tick) /\ Since(x, v)}]
           Copy(w, k) == CopyHandled(w, k, key, fates[k])
           pick == [s \in SUBSET S |-> CHOOSE e \in s : TRUE]
           step == [c \in S \X V |-> Copy(c[2], c[1])]
           Fold(g) == [s \in SUBSET S |->
                          IF s = {} THEN x ELSE Copy(g[s \ {CHOOSE e \in s : TRUE}], CHOOSE e \in s : TRUE)]
           fold == CHOOSE g : g = Fold(g)
<1>1. Copies(x, key, fates, listeners) = fold[S]
  BY DEF Copies, FoldSet, MapThenFoldSet
<1>2. ASSUME NEW v, NEW Q, Well(scene.config, v, Q, tick) PROVE v \in V /\ Q \in Receipts(tick)
  BY <1>2 DEF Well, Told, Mem
<1>3. ASSUME NEW k \in S, NEW v, NEW Q, Well(scene.config, v, Q, tick)
      PROVE  /\ Well(scene.config, Copy(v, k), IF k \in takers THEN Q (+) SetToBag({entry(k)}) ELSE Q, tick)
             /\ Since(v, Copy(v, k))
  <2> DEFINE fate == fates[k]
  <2>1. fate \in scene.fates
    OBVIOUS
  <2>2. /\ fate.is \in {"declined", "expired", "kept", "handled", "panicked"}
        /\ fate.is \in {"handled", "panicked"} => fate.sends \in Nat
    BY <2>1, MonitorAssumption
  <2> HIDE DEF fate
  <2>3. /\ Well(scene.config, CopyHandled(v, k, key, fate),
                IF Receives(fate) THEN Q (+) SetToBag({<<k, key, tick>>}) ELSE Q, tick)
        /\ Since(v, CopyHandled(v, k, key, fate))
    BY <1>3, <2>2, CopyHandledWell
  <2> QED
    BY <2>3 DEF fate
<1>4. \A k \in S, v \in V : Copy(v, k) \in V
  <2> SUFFICES ASSUME NEW k \in S, NEW v \in V PROVE Copy(v, k) \in V
    OBVIOUS
  <2>1. PICK Q \in Receipts(tick) : Well(scene.config, v, Q, tick)
    OBVIOUS
  <2> HIDE DEF V, Copy
  <2> QED
    BY <1>2, <1>3, <2>1
<1>5. R \in Maps(NodeIds \X Keys \X (0..tick), Nat) /\ x \in V
  <2> HIDE DEF V
  <2>1. x \in V /\ R \in Receipts(tick)
    BY <1>2
  <2> QED
    BY <2>1 DEF Receipts
<1>6. \A s \in SUBSET S : \A k \in s :
         Came1(s) = IF k \in takers THEN Came1(s \ {k}) (+) SetToBag({entry(k)}) ELSE Came1(s \ {k})
  <2> SUFFICES ASSUME NEW s \in SUBSET S, NEW k \in s
               PROVE  Came1(s) = IF k \in takers THEN Came1(s \ {k}) (+) SetToBag({entry(k)})
                                 ELSE Came1(s \ {k})
    OBVIOUS
  <2> DEFINE T == {entry(j) : j \in takers \cap (s \ {k})}
  <2>1. CASE k \in takers
    <3>1. entry(k) \notin T
      OBVIOUS
    <3>2. {entry(j) : j \in takers \cap s} = T \cup {entry(k)}
      <4>1. takers \cap s = (takers \cap (s \ {k})) \cup {k}
        BY <2>1
      <4> HIDE DEF entry, takers
      <4> QED
        BY <4>1
    <3> HIDE DEF T, takers, entry
    <3>3. R (+) SetToBag(T \cup {entry(k)}) = (R (+) SetToBag(T)) (+) SetToBag({entry(k)})
      BY <1>5, <3>1, OneTakerMore
    <3> QED
      BY <2>1, <3>2, <3>3 DEF T
  <2>2. CASE k \notin takers
    <3>1. takers \cap s = takers \cap (s \ {k})
      BY <2>2
    <3> HIDE DEF takers, entry
    <3> QED
      BY <2>2, <3>1
  <2> QED
    BY <2>1, <2>2
<1>7. Came1({}) = R
  <2>1. {entry(j) : j \in takers \cap {}} = {}
    OBVIOUS
  <2>2. "none" \notin {}
    OBVIOUS
  <2>3. R (+) SetToBag({}) = R
    BY <1>5, <2>2, OneTakerMore
  <2> HIDE DEF takers, entry
  <2> QED
    BY <2>1, <2>3
<1>71. Came1(S) = R (+) SetToBag({<<k, key, tick>> : k \in takers})
  <2>1. takers \cap S = takers
    OBVIOUS
  <2> HIDE DEF takers
  <2> QED
    BY <2>1
<1> HIDE DEF V, S, Copy, takers, entry, Came1
<1>8. x \in F[{}]
  BY <1>5, <1>7 DEF Well, Since
<1>9. \A k \in S, v \in V : step[<<k, v>>] = Copy(v, k)
  OBVIOUS
<1>10. \A s \in SUBSET S : s # {} => pick[s] = (CHOOSE e \in s : TRUE) /\ pick[s] \in s
  OBVIOUS
<1> HIDE DEF pick, step
<1>11. Steps(S, V, x, pick, step)
  <2>1. IsFiniteSet(S)
    BY Thresholds DEF S
  <2> QED
    BY <1>4, <1>5, <1>9, <1>10, <2>1 DEF Steps
<1>12. \A s \in SUBSET S : s # {} =>
          \A v \in V : v \in F[s \ {pick[s]}] => step[<<pick[s], v>>] \in F[s]
  <2> SUFFICES ASSUME NEW s \in SUBSET S, s # {}, NEW v \in V, v \in F[s \ {pick[s]}]
               PROVE  step[<<pick[s], v>>] \in F[s]
    OBVIOUS
  <2> DEFINE k == pick[s]
  <2>1. k \in s /\ k \in S
    BY <1>10
  <2>2. s \ {k} \in SUBSET S
    OBVIOUS
  <2>3. Well(scene.config, v, Came1(s \ {k}), tick) /\ Since(x, v)
    BY <2>2
  <2> HIDE DEF k
  <2>4. /\ Well(scene.config, Copy(v, k), IF k \in takers THEN Came1(s \ {k}) (+) SetToBag({entry(k)})
                                          ELSE Came1(s \ {k}), tick)
        /\ Since(v, Copy(v, k))
    BY <1>3, <2>1, <2>3
  <2>5. Well(scene.config, Copy(v, k), Came1(s), tick)
    BY <1>6, <2>1, <2>4
  <2>6. step[<<k, v>>] = Copy(v, k) /\ Copy(v, k) \in V
    BY <1>4, <1>9, <2>1
  <2>7. Since(x, Copy(v, k))
    BY <2>3, <2>4 DEF Since
  <2>8. step[<<k, v>>] \in F[s]
    BY <2>5, <2>6, <2>7
  <2> QED
    BY <2>8 DEF k
<1>13. PICK g \in [SUBSET S -> V] : IsFold(S, x, pick, step, g)
  BY <1>11, FoldExists
<1> HIDE DEF F
<1>14. \A s \in SUBSET S : g[s] = Fold(g)[s]
  <2> TAKE s \in SUBSET S
  <2>1. CASE s = {}
    BY <1>13, <2>1 DEF IsFold
  <2>2. CASE s # {}
    <3>1. pick[s] \in S /\ g[s \ {pick[s]}] \in V
      BY <1>10, <1>13, <2>2
    <3>2. g[s] = Copy(g[s \ {pick[s]}], pick[s])
      BY <1>9, <1>13, <2>2, <3>1 DEF IsFold
    <3> QED
      BY <1>10, <2>2, <3>2
  <2> QED
    BY <2>1, <2>2
<1>15. g = Fold(g)
  BY <1>13, <1>14
<1>16. fold = Fold(fold)
  BY <1>15
<1> HIDE DEF fold
<1>17. fold[{}] = x /\ \A s \in SUBSET S : s # {} => fold[s] = Copy(fold[s \ {pick[s]}], pick[s])
  BY <1>10, <1>16
<1>18. IsFoldWithin(S, V, x, pick, step, fold)
  <2>1. \A s \in SUBSET S : s # {} /\ fold[s \ {pick[s]}] \in V =>
           fold[s] = step[<<pick[s], fold[s \ {pick[s]}]>>]
    BY <1>9, <1>10, <1>17, ZenonT(60)
  <2> QED
    BY <1>17, <2>1 DEF IsFoldWithin
<1>19. fold[S] \in F[S]
  BY <1>8, <1>11, <1>12, <1>18, FoldFollows, SMTT(30)
<1>20. Well(scene.config, fold[S], Came1(S), tick) /\ Since(x, fold[S])
  BY <1>19 DEF F
<1> QED
  BY <1>1, <1>20, <1>71 DEF takers

-----------------------------------------------------------------------------
(* The invariant *)

(* As long as nothing has changed the topology since it was checked, an    *)
(* alert was asked for then for every node that closes a loop now.         *)
CyclesAsked == ~topology_changed => \A n \in ClosingALoop(net, logic) : LoopAlert(n, m.checked) \in m.asked

MInv ==
    /\ scene \in Scenes /\ InOrder(net) /\ tick \in Nat
    /\ Well(scene.config, m, received, tick)
    /\ CyclesAsked

LEMMA SceneSettings ==
    ASSUME NEW sc \in Scenes
    PROVE  Settings(sc.config) /\ InOrder(sc.net) /\ sc.keys \subseteq Keys
BY MonitorAssumption DEF Settings

(* Nothing has been told of a tick that has not been.                      *)
LEMMA TickStarts ==
    ASSUME NEW now \in Nat, NEW config, Settings(config), NEW x, NEW R, Well(config, x, R, now)
    PROVE  Well(config, x, R, now + 1)
<1> DEFINE later == now + 1
           alerts == Replayed(x.asked)
<1>1. later \in Nat /\ now <= later /\ now < later
  OBVIOUS
<1>2. /\ Told(x, now, config.cooldown) /\ config.window \in Nat
      /\ x.replay \in Maps(NodeIds \X Keys, Counts) /\ x.asked \in SUBSET Alerts /\ R \in Receipts(now)
      /\ Recalled(x.replay, R) /\ Exact(config, x.replay, R, now)
      /\ Accounted(config, alerts, R, now)
      /\ alerts \in SUBSET Alerts
  BY DEF Well, Mem, Settings, Replayed
<1> HIDE DEF alerts
<1>3. Told(x, later, config.cooldown)
  BY <1>1, <1>2, TimeKeeps
<1>4. R \in Receipts(later) /\ \A n, key, t : <<n, key, t>> \in DOMAIN R => t \in 0..now
  <2>1. PICK A \in SUBSET (NodeIds \X Keys \X (0..now)) : R \in [A -> Nat]
    BY <1>2 DEF Receipts, Maps
  <2>2. A \in SUBSET (NodeIds \X Keys \X (0..later))
    <3>1. 0..now \subseteq 0..later
      BY <1>1
    <3> QED
      BY <2>1, <3>1
  <2>3. R \in Maps(NodeIds \X Keys \X (0..later), Nat)
    BY <2>1, <2>2 DEF Maps
  <2> QED
    BY <1>2, <2>1, <2>3 DEF Receipts
<1>5. Exact(config, x.replay, R, later)
  <2> SUFFICES ASSUME Roomy(R), config.replay # Off, NEW n \in NodeIds, NEW key \in Keys, NEW t \in 0..later,
                      later - t < config.window, <<n, key, t>> \in DOMAIN R
               PROVE  /\ <<n, key>> \in DOMAIN x.replay /\ t \in DOMAIN x.replay[<<n, key>>]
                      /\ x.replay[<<n, key>>][t] = R[<<n, key, t>>]
    BY DEF Exact
  <2>1. t \in 0..now /\ now - t < config.window
    BY <1>2, <1>4
  <2> QED
    BY <1>2, <2>1 DEF Exact
<1>6. Accounted(config, alerts, R, later)
  <2>1. \A a \in alerts : a.tick \in Nat /\ a.tick <= now
    BY <1>2 DEF Accounted, Alerts
  <2>2. \A a \in alerts : a.tick <= later /\ a.tick # later
    BY <1>1, <2>1
  <2> QED
    BY <2>2 DEF Accounted
<1>7. Reported(config, alerts, R, later)
  <2>1. later \notin 0..now
    BY <1>1
  <2> QED
    BY <1>4, <2>1 DEF Reported
<1> QED
  BY <1>2, <1>3, <1>4, <1>5, <1>6, <1>7 DEF Well, Mem, alerts

LEMMA MonitorInit == Init => MInv
<1> SUFFICES ASSUME Init PROVE MInv
  OBVIOUS
<1>1. scene \in Scenes /\ Settings(scene.config) /\ InOrder(net) /\ tick = 0 /\ received = EmptyBag
  BY SceneSettings DEF Init
<1> DEFINE none == <<>>
           empty == EmptyBag
<1>2. m = [network_sends |-> 0, link_sends |-> empty, node_sends |-> empty, replay |-> none, fired |-> none,
           latest |-> none, events |-> none, discarded |-> 0, drained |-> 0, asked |-> {}, raised |-> none,
           checked |-> 0]
  BY DEF Init
<1>3. \A D, Q : <<>> \in Maps(D, Q)
  <2> TAKE D, Q
  <2>1. <<>> \in [{} -> Q] /\ {} \in SUBSET D
    OBVIOUS
  <2> QED
    BY <2>1 DEF Maps
<1>4. EmptyBag = <<>> /\ DOMAIN EmptyBag = {}
  BY DEF EmptyBag, SetToBag
<1>5. EmptyBag \in Maps(LinkIds, Nat) /\ EmptyBag \in Maps(NodeIds, Nat)
      /\ EmptyBag \in Maps(NodeIds \X Keys \X (0..0), Nat)
  BY <1>3, <1>4
<1>6. /\ <<>> \in Maps(NodeIds \X Keys, Counts) /\ <<>> \in Maps(Checks, Alerts)
      /\ <<>> \in Maps(Checks \X Subjects, [tick: Nat, severity: Severities])
  BY <1>3
<1>7. <<>> \in Seq(Alerts) /\ Len(<<>>) = 0 /\ DOMAIN <<>> = {}
  OBVIOUS
<1>8. /\ m.replay = <<>> /\ m.fired = <<>> /\ m.latest = <<>> /\ m.events = <<>> /\ m.discarded = 0
      /\ m.drained = 0 /\ m.asked = {} /\ m.raised = <<>>
  BY <1>2
<1>9. m \in Monitors
  <2>1. /\ empty \in Maps(LinkIds, Nat) /\ empty \in Maps(NodeIds, Nat)
        /\ none \in Maps(NodeIds \X Keys, Counts) /\ none \in Maps(Checks, Alerts) /\ none \in Seq(Alerts)
        /\ none \in Maps(Checks \X Subjects, [tick: Nat, severity: Severities])
        /\ {} \in SUBSET Alerts /\ 0 \in Nat
    BY <1>5, <1>6, <1>7
  <2> HIDE DEF none, empty
  <2> QED
    BY <1>2, <2>1 DEF Monitors
<1>10. Told(m, 0, scene.config.cooldown)
  <2>1. Capacity \in Nat
    BY Thresholds
  <2>2. Escalating(<<>>, scene.config.cooldown) /\ LastFired(<<>>, <<>>) /\ Latest(<<>>, <<>>, 0)
        /\ Covered(<<>>, {}, scene.config.cooldown)
    BY <1>7 DEF Escalating, LastFired, Latest, Covered
  <2>3. Traced(<<>>, <<>>, 0 + 0)
    BY <1>7, <2>1 DEF Traced
  <2> QED
    BY <1>7, <1>8, <1>9, <2>2, <2>3 DEF Told
<1>11. Heard(EmptyBag) = {} /\ Replayed({}) = {}
  BY <1>4 DEF Heard, BagToSet, Replayed
<1>12. EmptyBag \in Receipts(0)
  BY <1>5, <1>11, FS_EmptySet DEF Receipts
<1>13. Recalled(<<>>, EmptyBag)
  <2>1. Cardinality({}) = 0 /\ ReplayMemory \in Nat
    BY FS_EmptySet, MonitorAssumption
  <2> QED
    BY <1>7, <2>1 DEF Recalled
<1>14. /\ Exact(scene.config, <<>>, EmptyBag, 0) /\ Accounted(scene.config, {}, EmptyBag, 0)
       /\ Reported(scene.config, {}, EmptyBag, 0)
  BY <1>4 DEF Exact, Accounted, Reported
<1>15. Mem(scene.config, <<>>, {}, EmptyBag, 0)
  <2>1. {} \in SUBSET Alerts
    OBVIOUS
  <2> QED
    BY <1>6, <1>11, <1>12, <1>13, <1>14, <2>1 DEF Mem
<1> QED
  BY <1>1, <1>8, <1>10, <1>15 DEF MInv, Well, CyclesAsked, Init

LEMMA CyclesStayAsked ==
    ASSUME MInv, [Next]_vars
    PROVE  CyclesAsked'
<1> DEFINE cooldown == scene.config.cooldown
<1>1. /\ scene \in Scenes /\ Settings(scene.config) /\ InOrder(net) /\ tick \in Nat
      /\ Told(m, tick, cooldown) /\ cooldown \in Nat \ {0} /\ Well(scene.config, m, received, tick)
      /\ scene.keys \subseteq Keys
  BY SceneSettings DEF MInv, Well, Settings
<1>2. /\ net.nodes \subseteq NodeIds /\ net.links \subseteq LinkIds
      /\ net.subscribers \in [LinkIds -> SUBSET NodeIds] /\ net.owner \in [LinkIds -> NodeIds \cup {Nil}]
  BY <1>1 DEF InOrder, NetworkType
<1>3. m \in Beside(m, tick, cooldown)
  BY <1>1, BesideItself
<1>4. ASSUME Since(m, m'), topology_changed' = topology_changed, net' = net, LessLogic(net, logic', logic)
      PROVE  CyclesAsked'
  <2>1. ClosingALoop(net, logic') \subseteq ClosingALoop(net, logic)
    BY <1>1, <1>4, ClosingShrinks
  <2> QED
    BY <1>4, <2>1 DEF MInv, CyclesAsked, Since
<1>5. LessLogic(net, logic, logic)
  BY DEF LessLogic
<1>6. CASE StartTick
  <2>1. net' = net /\ logic' = logic /\ tick + 1 \in Nat
        /\ m' = IF topology_changed THEN CheckTopology(m, tick + 1) ELSE m
    BY <1>1, <1>6 DEF StartTick
  <2>2. CASE topology_changed
    <3>1. Told(m, tick + 1, cooldown)
      BY <1>1, TickStarts DEF Well
    <3> DEFINE v == [m EXCEPT !.checked = tick + 1]
    <3>2. /\ m' \in Beside(v, tick + 1, cooldown)
          /\ \A n \in ClosingALoop(net, logic) : LoopAlert(n, tick + 1) \in m'.asked
      BY <1>1, <2>1, <2>2, <3>1, CheckTopologyAsks
    <3>3. v.checked = tick + 1
      BY <1>1 DEF Told, Monitors
    <3> HIDE DEF v
    <3>4. m'.checked = tick + 1
      BY <3>2, <3>3 DEF Beside, Since
    <3> QED
      BY <2>1, <3>2, <3>4 DEF CyclesAsked
  <2>3. CASE ~topology_changed
    <3>1. m' = m
      BY <2>1, <2>3
    <3> QED
      BY <2>1, <2>3, <3>1 DEF CyclesAsked, MInv
  <2> QED
    BY <2>2, <2>3
<1>7. ASSUME NEW n \in scene.senders, NEW l \in net.links, NEW key \in scene.keys, Transmit(n, l, key)
      PROVE  CyclesAsked'
  <2> DEFINE listeners == Audience(net, l) \ {n, Root}
             x == OnTransmit(m, n, l)
  <2>1. PICK fates \in [listeners -> scene.fates] :
           /\ m' = Copies(x, key, fates, listeners)
           /\ logic' = [k \in NodeIds |-> IF k \in {j \in listeners : fates[j].is = "panicked"}
                                         THEN NoLogic ELSE logic[k]]
    BY <1>7 DEF Transmit, Copies
  <2>2. net' = net /\ topology_changed' = topology_changed /\ n \in net.nodes
    BY <1>7 DEF Transmit, CanUseLink
  <2>3. listeners \in SUBSET NodeIds /\ n \in NodeIds /\ l \in LinkIds /\ key \in Keys
    BY <1>1, <1>2, <1>7, <2>2 DEF Audience
  <2>4. x \in Beside(m, tick, cooldown)
    BY <1>1, <2>3, OnTransmitKeeps
  <2>5. LessLogic(net, logic', logic)
    BY <1>2, <2>1 DEF LessLogic
  <2> HIDE DEF x, listeners
  <2>6. Well(scene.config, x, received, tick)
    BY <1>1, <2>4, BesideWell DEF Well
  <2>7. Since(x, Copies(x, key, fates, listeners))
    BY <1>1, <2>3, <2>6, CopiesWell
  <2>8. Since(m, m')
    BY <2>1, <2>4, <2>7 DEF Beside, Since
  <2> QED
    BY <1>4, <2>2, <2>5, <2>8
<1>8. ASSUME NEW tripped \in BOOLEAN, EndTick(tripped) PROVE CyclesAsked'
  <2>1. net' = net /\ logic' = logic /\ topology_changed' = topology_changed /\ m' = EndRates(m)
    BY <1>8 DEF EndTick
  <2>2. EndRates(m) \in Beside(m, tick, cooldown)
    BY <1>1, EndRatesBeside
  <2>3. Since(m, m')
    BY <2>1, <2>2 DEF Beside
  <2> QED
    BY <1>4, <1>5, <2>1, <2>3
<1>9. ASSUME NEW n \in scene.pushed, NEW key \in scene.keys, NEW last \in BOOLEAN, PushDirect(n, key, last)
      PROVE  CyclesAsked'
  <2>1. /\ net' = net /\ logic' = logic /\ topology_changed' = topology_changed /\ n \in NodeIds /\ key \in Keys
        /\ m' = IF last THEN OnTtlExpired(m, n) ELSE OnDelivered(m, n, key)
    BY <1>1, <1>2, <1>9 DEF PushDirect
  <2>2. "ttl_expired" \in Checks \ {"replay"} /\ n \in Subjects
    BY <2>1 DEF Checks, Subjects
  <2>3. OnTtlExpired(m, n) \in Beside(m, tick, cooldown)
    BY <1>1, <1>3, <2>2, ErrorBeside DEF OnTtlExpired
  <2>4. Since(m, OnDelivered(m, n, key))
    BY <1>1, <2>1, OnDeliveredWell
  <2>5. Since(m, m')
    BY <2>1, <2>3, <2>4 DEF Beside
  <2> QED
    BY <1>4, <1>5, <2>1, <2>5
<1>10. CASE DrainTrace
  <2> DEFINE y == [m EXCEPT !.drained = @ + Len(m.events), !.events = <<>>]
  <2>1. net' = net /\ logic' = logic /\ topology_changed' = topology_changed /\ m' = y
    BY <1>10 DEF DrainTrace
  <2>2. y \in Beside(m, tick, cooldown)
    BY <1>1, DrainKeeps
  <2> HIDE DEF y
  <2>3. Since(m, m')
    BY <2>1, <2>2 DEF Beside
  <2> QED
    BY <1>4, <1>5, <2>1, <2>3
<1>11. ASSUME NEW n \in scene.movable, HostChanges(n) PROVE CyclesAsked'
  <2>1. topology_changed' = TRUE
    BY <1>11 DEF HostChanges, ChangeNetwork, SetLogic, RemoveNodeWithLogic
  <2> QED
    BY <2>1 DEF CyclesAsked
<1>12. CASE UNCHANGED vars
  BY <1>12 DEF vars, MInv, CyclesAsked
<1> QED
  BY <1>6, <1>7, <1>8, <1>9, <1>10, <1>11, <1>12 DEF Next

LEMMA MonitorStep == MInv /\ [Next]_vars => MInv'
<1> SUFFICES ASSUME MInv, [Next]_vars PROVE MInv'
  OBVIOUS
<1>0. CyclesAsked'
  BY CyclesStayAsked
<1> DEFINE cooldown == scene.config.cooldown
<1>1. /\ scene \in Scenes /\ Settings(scene.config) /\ InOrder(net) /\ tick \in Nat
      /\ Told(m, tick, cooldown) /\ Mem(scene.config, m.replay, m.asked, received, tick)
      /\ Well(scene.config, m, received, tick) /\ cooldown \in Nat \ {0}
      /\ m \in Beside(m, tick, cooldown) /\ scene.keys \subseteq Keys
  BY SceneSettings, BesideItself DEF MInv, Well, Settings
<1>2. net.nodes \subseteq NodeIds /\ net.links \subseteq LinkIds
      /\ net.subscribers \in [LinkIds -> SUBSET NodeIds] /\ net.owner \in [LinkIds -> NodeIds \cup {Nil}]
  BY <1>1 DEF InOrder, NetworkType
<1>3. CASE StartTick
  <2>1. scene' = scene /\ net' = net /\ received' = received /\ tick' = tick + 1 /\ tick + 1 \in Nat
        /\ m' = IF topology_changed THEN CheckTopology(m, tick + 1) ELSE m
    BY <1>1, <1>3 DEF StartTick
  <2>2. Well(scene.config, m, received, tick + 1)
    BY <1>1, TickStarts
  <2>3. Told(m, tick + 1, cooldown) /\ Mem(scene.config, m.replay, m.asked, received, tick + 1)
    BY <2>2 DEF Well
  <2> DEFINE v == [m EXCEPT !.checked = tick + 1]
  <2>4. CheckTopology(m, tick + 1) \in Beside(v, tick + 1, cooldown)
    BY <1>1, <2>1, <2>3, CheckTopologyAsks
  <2>5. Mem(scene.config, v.replay, v.asked, received, tick + 1)
    <3>1. v.replay = m.replay /\ v.asked = m.asked
      BY <1>1 DEF Told, Monitors
    <3> QED
      BY <2>3, <3>1
  <2> HIDE DEF v
  <2>6. Well(scene.config, CheckTopology(m, tick + 1), received, tick + 1)
    BY <2>4, <2>5, BesideWell
  <2> QED
    BY <1>0, <1>1, <2>1, <2>2, <2>6 DEF MInv
<1>4. ASSUME NEW n \in scene.senders, NEW l \in net.links, NEW key \in scene.keys, Transmit(n, l, key)
      PROVE  MInv'
  <2> DEFINE listeners == Audience(net, l) \ {n, Root}
             x == OnTransmit(m, n, l)
  <2>1. PICK fates \in [listeners -> scene.fates] :
           /\ m' = Copies(x, key, fates, listeners)
           /\ received' = received (+) SetToBag({<<k, key, tick>> : k \in {j \in listeners : Receives(fates[j])}})
    BY <1>4 DEF Transmit, Copies
  <2>2. scene' = scene /\ net' = net /\ tick' = tick /\ n \in net.nodes
    BY <1>4 DEF Transmit, CanUseLink
  <2>3. listeners \in SUBSET NodeIds /\ n \in NodeIds /\ l \in LinkIds /\ key \in Keys
    BY <1>1, <1>2, <1>4, <2>2 DEF Audience
  <2>4. x \in Beside(m, tick, cooldown)
    BY <1>1, <2>3, OnTransmitKeeps
  <2> HIDE DEF x, listeners
  <2>5. Well(scene.config, x, received, tick)
    BY <1>1, <2>4, BesideWell
  <2>6. Well(scene.config, Copies(x, key, fates, listeners),
             received (+) SetToBag({<<k, key, tick>> : k \in {j \in listeners : Receives(fates[j])}}), tick)
    BY <1>1, <2>3, <2>5, CopiesWell
  <2> QED
    BY <1>0, <1>1, <2>1, <2>2, <2>6 DEF MInv
<1>5. ASSUME NEW tripped \in BOOLEAN, EndTick(tripped) PROVE MInv'
  <2>1. scene' = scene /\ net' = net /\ tick' = tick /\ received' = received /\ m' = EndRates(m)
    BY <1>5 DEF EndTick
  <2>2. EndRates(m) \in Beside(m, tick, cooldown)
    BY <1>1, EndRatesBeside
  <2>3. Well(scene.config, EndRates(m), received, tick)
    BY <1>1, <2>2, BesideWell
  <2> QED
    BY <1>0, <1>1, <2>1, <2>3 DEF MInv
<1>6. ASSUME NEW n \in scene.pushed, NEW key \in scene.keys, NEW last \in BOOLEAN, PushDirect(n, key, last)
      PROVE  MInv'
  <2>1. /\ scene' = scene /\ net' = net /\ tick' = tick /\ n \in NodeIds /\ key \in Keys
        /\ m' = IF last THEN OnTtlExpired(m, n) ELSE OnDelivered(m, n, key)
        /\ received' = IF last THEN received ELSE received (+) SetToBag({<<n, key, tick>>})
    BY <1>1, <1>2, <1>6 DEF PushDirect
  <2>2. "ttl_expired" \in Checks \ {"replay"} /\ n \in Subjects
    BY <2>1 DEF Checks, Subjects
  <2>3. OnTtlExpired(m, n) \in Beside(m, tick, cooldown)
    BY <1>1, <2>2, ErrorBeside DEF OnTtlExpired
  <2>4. Well(scene.config, OnTtlExpired(m, n), received, tick)
    BY <1>1, <2>3, BesideWell
  <2>5. Well(scene.config, OnDelivered(m, n, key), received (+) SetToBag({<<n, key, tick>>}), tick)
    BY <1>1, <2>1, OnDeliveredWell
  <2> QED
    BY <1>0, <1>1, <2>1, <2>4, <2>5 DEF MInv
<1>7. CASE DrainTrace
  <2> DEFINE y == [m EXCEPT !.drained = @ + Len(m.events), !.events = <<>>]
  <2>1. scene' = scene /\ net' = net /\ tick' = tick /\ received' = received /\ m' = y
    BY <1>7 DEF DrainTrace
  <2>2. y \in Beside(m, tick, cooldown)
    BY <1>1, DrainKeeps
  <2> HIDE DEF y
  <2>3. Well(scene.config, y, received, tick)
    BY <1>1, <2>2, BesideWell
  <2> QED
    BY <1>0, <1>1, <2>1, <2>3 DEF MInv
<1>8. ASSUME NEW next, InOrder(next), net' = next,
             scene' = scene, tick' = tick, received' = received, m' = m
      PROVE  MInv'
  BY <1>0, <1>1, <1>8 DEF MInv
<1>9. ASSUME NEW n \in scene.movable, HostChanges(n) PROVE MInv'
  <2>1. ASSUME NEW l \in LinkIds, ChangeNetwork(Subscribe(net, n, l).net) PROVE MInv'
    <3>1. n \in net.nodes /\ CanSubscribe(net, n, l) => InOrder(WithSubscriber(net, n, l))
      BY <1>1, <1>2, SubscriberInOrder
    <3>2. CanSubscribe(net, n, l) => n \in net.nodes
      BY DEF CanSubscribe
    <3>3. InOrder(Subscribe(net, n, l).net)
      BY <1>1, <3>1, <3>2 DEF Subscribe, Done, Rejected
    <3> QED
      BY <1>8, <2>1, <3>3 DEF ChangeNetwork
  <2>2. ASSUME NEW l \in LinkIds, ChangeNetwork(Unsubscribe(net, n, l).net) PROVE MInv'
    <3>1. n \in net.nodes => InOrder(WithoutSubscriber(net, n, {l}))
      <4>1. {l} \in SUBSET LinkIds
        OBVIOUS
      <4> QED
        BY <1>1, <1>2, <4>1, UnsubscribedInOrder
    <3>2. InOrder(Unsubscribe(net, n, l).net)
      BY <1>1, <3>1 DEF Unsubscribe, Done, Rejected
    <3> QED
      BY <1>8, <2>2, <3>2 DEF ChangeNetwork
  <2>3. ASSUME NEW kind \in scene.kinds, SetLogic(n, kind) PROVE MInv'
    BY <1>1, <1>8, <2>3 DEF SetLogic
  <2>4. CASE RemoveNodeWithLogic(n)
    <3>1. n \in net.nodes => InOrder(RemoveNode(net, n).net)
      BY <1>1, <1>2, RemoveNodeInOrder
    <3>2. n \notin net.nodes => RemoveNode(net, n).net = net
      BY DEF RemoveNode, Rejected
    <3>3. InOrder(RemoveNode(net, n).net)
      BY <1>1, <3>1, <3>2
    <3> QED
      BY <1>8, <2>4, <3>3 DEF RemoveNodeWithLogic
  <2> QED
    BY <1>9, <2>1, <2>2, <2>3, <2>4 DEF HostChanges
<1>10. CASE UNCHANGED vars
  BY <1>0, <1>1, <1>8, <1>10 DEF vars
<1> QED
  BY <1>3, <1>4, <1>5, <1>6, <1>7, <1>9, <1>10 DEF Next

(* The monitor's record stays well formed, and what its parts say of the   *)
(* alerts raised and the packets received stays true, whatever the network *)
(* and the thresholds are and however its hooks are called.                *)
THEOREM MonitorInvariant == Spec => []MInv
<1>1. Init => MInv
  BY MonitorInit
<1>2. MInv /\ [Next]_vars => MInv'
  BY MonitorStep
<1> QED
  BY <1>1, <1>2, PTL DEF Spec

LEMMA ToldParts ==
    ASSUME MInv
    PROVE  LET cooldown == scene.config.cooldown
           IN  /\ cooldown \in Nat \ {0} /\ tick \in Nat
               /\ m.raised \in Seq(Alerts) /\ m.events \in Seq(Alerts) /\ m.asked \in SUBSET Alerts
               /\ m.latest \in Maps(Checks, Alerts) /\ m.drained \in Nat /\ m.discarded \in Nat
               /\ Escalating(m.raised, cooldown) /\ Covered(m.raised, m.asked, cooldown)
               /\ Traced(m.raised, m.events, m.drained + m.discarded) /\ Latest(m.raised, m.latest, tick)
BY SceneSettings DEF MInv, Well, Told, Settings, Monitors

LEMMA Few == MInv => FewAlerts
<1> SUFFICES ASSUME MInv, NEW i \in DOMAIN m.raised, NEW j \in DOMAIN m.raised, NEW k \in DOMAIN m.raised,
                    i < j, j < k,
                    \A x, y \in {i, j, k} : /\ m.raised[x].check = m.raised[y].check
                                            /\ m.raised[x].subject = m.raised[y].subject
             PROVE  m.raised[k].tick - m.raised[i].tick >= scene.config.cooldown
  BY DEF FewAlerts
<1>1. /\ scene.config.cooldown \in Nat /\ m.raised \in Seq(Alerts)
      /\ Escalating(m.raised, scene.config.cooldown)
  BY ToldParts
<1>2. Key(m.raised[i]) = Key(m.raised[j]) /\ Key(m.raised[j]) = Key(m.raised[k])
  BY DEF Key
<1>3. m.raised[i] \in Alerts /\ m.raised[j] \in Alerts /\ m.raised[k] \in Alerts
  BY <1>1
<1>4. /\ m.raised[i].tick \in Nat /\ m.raised[j].tick \in Nat /\ m.raised[k].tick \in Nat
      /\ m.raised[i].severity \in {1, 2} /\ m.raised[j].severity \in {1, 2} /\ m.raised[k].severity \in {1, 2}
  BY <1>3 DEF Alerts, Severities, Warning, Error
<1>5. /\ m.raised[i].tick <= m.raised[j].tick
      /\ \/ m.raised[j].tick - m.raised[i].tick >= scene.config.cooldown
         \/ m.raised[j].severity > m.raised[i].severity
  BY <1>1, <1>2 DEF Escalating
<1>6. /\ m.raised[j].tick <= m.raised[k].tick
      /\ \/ m.raised[k].tick - m.raised[j].tick >= scene.config.cooldown
         \/ m.raised[k].severity > m.raised[j].severity
  BY <1>1, <1>2 DEF Escalating
<1>7. ~(m.raised[j].severity > m.raised[i].severity /\ m.raised[k].severity > m.raised[j].severity)
  BY <1>4
<1>8. ASSUME NEW x \in Nat, NEW y \in Nat, NEW z \in Nat, NEW n \in Nat, x <= y, y <= z,
             y - x >= n \/ z - y >= n
      PROVE  z - x >= n
  BY <1>8
<1>9. \/ m.raised[j].tick - m.raised[i].tick >= scene.config.cooldown
      \/ m.raised[k].tick - m.raised[j].tick >= scene.config.cooldown
  BY <1>5, <1>6, <1>7
<1> QED
  BY <1>1, <1>4, <1>5, <1>6, <1>8, <1>9

(* "Alerts are de-duplicated so a storm cannot flood the trace": for any   *)
(* thresholds and any cooldown, of three alerts of one check about one     *)
(* subject the third comes at least a cooldown after the first.            *)
THEOREM AlertsAreFew == Spec => []FewAlerts
BY MonitorInvariant, Few, PTL

(* A suffix, as the community modules define it.                           *)
LEMMA SuffixByPlace ==
    ASSUME NEW S, NEW s \in Seq(S), NEW t \in Seq(S), NEW gone \in Nat, Len(t) = gone + Len(s),
           \A i \in 1..Len(s) : s[i] = t[gone + i]
    PROVE  IsSuffix(s, t)
<1> DEFINE n == Len(s)
           rs == Reverse(s)
           rt == Reverse(t)
<1>1. n \in Nat /\ Len(t) \in Nat /\ n <= Len(t)
  OBVIOUS
<1>2. /\ rs = [i \in 1..n |-> s[(n - i) + 1]] /\ rt = [i \in 1..Len(t) |-> t[(Len(t) - i) + 1]]
  BY DEF Reverse
<1>3. rs \in Seq(S) /\ rt \in Seq(S) /\ Len(rs) = n /\ Len(rt) = Len(t)
  <2>1. \A i \in 1..n : s[(n - i) + 1] \in S
    BY <1>1
  <2>2. \A i \in 1..Len(t) : t[(Len(t) - i) + 1] \in S
    BY <1>1
  <2> QED
    BY <1>1, <1>2, <2>1, <2>2
<1>4. \A i \in 1..n : rs[i] = rt[i]
  <2> SUFFICES ASSUME NEW i \in 1..n PROVE rs[i] = rt[i]
    OBVIOUS
  <2>1. rs[i] = s[(n - i) + 1] /\ rt[i] = t[(Len(t) - i) + 1]
    BY <1>1, <1>2
  <2>2. (n - i) + 1 \in 1..n /\ gone + ((n - i) + 1) = (Len(t) - i) + 1
    BY <1>1
  <2> QED
    BY <2>1, <2>2
<1> HIDE DEF rs, rt
<1>5. SubSeq(rs, 1, n) = rs
  BY <1>3, SubSeqFull
<1>6. SubSeq(rt, 1, n) = rs
  <2>1. \A i \in 1..n : rt[i] \in S
    BY <1>1, <1>3
  <2>2. /\ SubSeq(rt, 1, n) \in Seq(S) /\ Len(SubSeq(rt, 1, n)) = IF 1 <= n THEN n - 1 + 1 ELSE 0
        /\ \A i \in 1..(n - 1 + 1) : SubSeq(rt, 1, n)[i] = rt[1 + i - 1]
    BY <1>1, <2>1, SubSeqProperties
  <2>3. Len(SubSeq(rt, 1, n)) = n /\ \A i \in 1..n : SubSeq(rt, 1, n)[i] = rs[i]
    BY <1>1, <1>4, <2>2
  <2> QED
    BY <1>1, <1>3, <2>2, <2>3, SeqEqual
<1> QED
  BY <1>1, <1>3, <1>5, <1>6 DEF IsSuffix, IsPrefix, rs, rt

LEMMA Unseen == MInv => NothingGoesUnseen
<1> SUFFICES ASSUME MInv PROVE NothingGoesUnseen
  OBVIOUS
<1> DEFINE gone == m.drained + m.discarded
           cooldown == scene.config.cooldown
<1>1. /\ m.raised \in Seq(Alerts) /\ m.events \in Seq(Alerts) /\ gone \in Nat
      /\ Traced(m.raised, m.events, gone) /\ Covered(m.raised, m.asked, cooldown)
  BY ToldParts
<1>2. IsSuffix(m.events, m.raised)
  <2>1. Len(m.raised) = gone + Len(m.events) /\ \A i \in 1..Len(m.events) : m.events[i] = m.raised[gone + i]
    BY <1>1 DEF Traced
  <2> HIDE DEF gone
  <2> QED
    BY <1>1, <2>1, SuffixByPlace
<1>3. Len(m.raised) = m.drained + m.discarded + Len(m.events)
  BY <1>1 DEF Traced
<1>4. \A alert \in m.asked : \E i \in DOMAIN m.raised :
         /\ m.raised[i].check = alert.check /\ m.raised[i].subject = alert.subject
         /\ m.raised[i].severity >= alert.severity
         /\ alert.tick - m.raised[i].tick \in 0..(scene.config.cooldown - 1)
  <2> SUFFICES ASSUME NEW alert \in m.asked
               PROVE  \E i \in DOMAIN m.raised :
                         /\ m.raised[i].check = alert.check /\ m.raised[i].subject = alert.subject
                         /\ m.raised[i].severity >= alert.severity
                         /\ alert.tick - m.raised[i].tick \in 0..(cooldown - 1)
    OBVIOUS
  <2>1. PICK i \in DOMAIN m.raised : Covers(m.raised[i], alert, cooldown)
    BY <1>1 DEF Covered
  <2> QED
    BY <2>1 DEF Covers, Key
<1> QED
  BY <1>2, <1>3, <1>4 DEF NothingGoesUnseen

(* For any cooldown and any size of the trace, whatever a check found is   *)
(* covered by an alert that was raised, and every alert raised was taken,  *)
(* is counted as discarded, or still waits.                                *)
THEOREM NothingIsLostUnseen == Spec => []NothingGoesUnseen
BY MonitorInvariant, Unseen, PTL

LEMMA Counted == MInv => ReplaysCounted
<1> SUFFICES ASSUME MInv PROVE ReplaysCounted
  OBVIOUS
<1> DEFINE alerts == Replayed(m.asked)
           now == {alert \in m.asked : alert.check = "replay" /\ alert.tick = tick}
           heard == {<<entry[1], entry[2]>> : entry \in BagToSet(received)}
           config == scene.config
<1>1. /\ Recalled(m.replay, received) /\ received \in Receipts(tick)
      /\ Accounted(config, alerts, received, tick) /\ Reported(config, alerts, received, tick)
  BY DEF MInv, Well, Mem
<1>2. \A n, key : Receptions(n, key) = Came(config, received, n, key, tick)
  BY DEF Receptions, Came, Recent
<1>3. heard = Heard(received) /\ now = {a \in alerts : a.tick = tick}
  BY DEF Heard, Replayed
<1> HIDE DEF alerts, now, heard, config
<1>4. Cardinality(DOMAIN m.replay) <= ReplayMemory
  BY <1>1 DEF Recalled
<1>5. \A alert \in now : \E key \in Keys : alert.value <= Receptions(alert.subject, key)
  BY <1>1, <1>2, <1>3 DEF Accounted
<1>6. ASSUME Cardinality(heard) <= ReplayMemory, NEW pair \in heard,
             Severity(config.replay, Receptions(pair[1], pair[2])) # 0,
             BagIn(<<pair[1], pair[2], tick>>, received)
      PROVE  \E alert \in now : /\ alert.subject = pair[1]
                                /\ alert.value = Receptions(pair[1], pair[2])
                                /\ alert.severity = Severity(config.replay, Receptions(pair[1], pair[2]))
  <2> DEFINE n == pair[1]
             key == pair[2]
  <2>1. PICK entry \in DOMAIN received : pair = <<entry[1], entry[2]>>
    BY <1>3 DEF Heard, BagToSet
  <2>2. entry \in NodeIds \X Keys \X (0..tick)
    BY <1>1, <2>1 DEF Receipts, Maps
  <2>3. n \in NodeIds /\ key \in Keys
    BY <2>1, <2>2
  <2>4. Roomy(received) /\ <<n, key, tick>> \in DOMAIN received
    BY <1>3, <1>6 DEF Roomy, BagIn, BagToSet
  <2>5. Receptions(n, key) = Came(config, received, n, key, tick)
    BY <1>2
  <2> HIDE DEF n, key
  <2>6. Severity(config.replay, Came(config, received, n, key, tick)) # 0
    BY <1>6, <2>5 DEF n, key
  <2>7. \E a \in alerts : /\ a.tick = tick /\ a.subject = n
                          /\ a.value = Came(config, received, n, key, tick)
                          /\ a.severity = Severity(config.replay, Came(config, received, n, key, tick))
    BY <1>1, <2>3, <2>4, <2>6 DEF Reported
  <2> QED
    BY <1>3, <2>5, <2>7 DEF n, key
<1> QED
  BY <1>4, <1>5, <1>6 DEF ReplaysCounted, now, heard, config

(* For any size of the replay memory and any window, a replay alert counts *)
(* what was received in the window: never more, and no less while the      *)
(* memory has had room for every packet.                                   *)
THEOREM ReplaysAreCounted == Spec => []ReplaysCounted
BY MonitorInvariant, Counted, PTL

LEMMA WorstKept ==
    ASSUME MInv, MInv', [Next]_vars, running, ~running', report' # Nil,
           NEW i \in DOMAIN m'.raised, m'.raised[i].tick + LatestFor >= tick
    PROVE  \E alert \in report' : /\ alert.check = m'.raised[i].check
                                  /\ alert.severity >= m'.raised[i].severity
<1> DEFINE a == m'.raised[i]
           l == m'.latest[a.check]
<1>1. PICK tripped \in BOOLEAN : EndTick(tripped)
  <2>1. ~StartTick /\ ~DrainTrace /\ ~UNCHANGED vars
    BY DEF StartTick, DrainTrace, vars
  <2>2. \A n, l1, key : ~Transmit(n, l1, key)
    BY DEF Transmit
  <2>3. \A n, key, last : ~PushDirect(n, key, last)
    BY DEF PushDirect
  <2>4. \A n : ~HostChanges(n)
    BY DEF HostChanges, ChangeNetwork, SetLogic, RemoveNodeWithLogic
  <2> QED
    BY <2>1, <2>2, <2>3, <2>4 DEF Next
<1>2. tick' = tick /\ report' = RecentAlerts(m')
  BY <1>1 DEF EndTick
<1>3. tick \in Nat
  BY DEF MInv
<1>4. m' \in Monitors /\ Latest(m'.raised, m'.latest, tick)
  BY <1>2 DEF MInv, Well, Told
<1>5. m'.raised \in Seq(Alerts) /\ m'.latest \in Maps(Checks, Alerts)
  BY <1>4 DEF Monitors
<1>6. a \in Alerts
  BY <1>5
<1>7. a.check \in DOMAIN m'.latest /\ Represents(l, a) /\ l.check = a.check /\ l.tick <= tick
  BY <1>4 DEF Latest
<1>8. l \in Alerts
  BY <1>5, <1>7 DEF Maps
<1>9. a.tick + LatestFor >= tick
  OBVIOUS
<1>10. a.tick \in Nat /\ a.severity \in {1, 2} /\ l.tick \in Nat /\ l.severity \in {1, 2}
       /\ LatestFor \in Nat /\ ReportOver \in Nat /\ ReportOver >= 2 * LatestFor
  BY <1>6, <1>8, Thresholds DEF Alerts, Severities, Warning, Error
<1> HIDE DEF a, l
<1>11. l.tick + ReportOver >= tick /\ l.severity >= a.severity
  BY <1>3, <1>7, <1>9, <1>10 DEF Represents
<1>12. l \in report'
  BY <1>2, <1>7, <1>11 DEF RecentAlerts, Range, l
<1> QED
  BY <1>7, <1>11, <1>12 DEF a

(* For any network and traffic, the report of a tripped fuse has for every *)
(* alert raised lately one of the same check that is at least as bad.      *)
THEOREM ReportNamesTheWorst == Spec => RootCauseKept
<1> DEFINE Kept == running /\ ~running' /\ report' # Nil =>
                      \A i \in DOMAIN m'.raised :
                          m'.raised[i].tick + LatestFor >= tick =>
                              \E alert \in report' : /\ alert.check = m'.raised[i].check
                                                     /\ alert.severity >= m'.raised[i].severity
<1>1. MInv /\ MInv' /\ [Next]_vars => Kept
  BY WorstKept
<1>2. MInv /\ MInv' /\ [Next]_vars => [Kept]_vars
  BY <1>1
<1>3. Spec => [][Kept]_vars
  BY <1>2, MonitorInvariant, PTL DEF Spec
<1> QED
  BY <1>3 DEF RootCauseKept

LEMMA LoopsKnown == MInv => CycleKnown
<1> SUFFICES ASSUME MInv, ~topology_changed, NEW n \in ClosingALoop(net, logic)
             PROVE  \E i \in DOMAIN m.raised :
                       /\ m.raised[i].check = "relay_cycle" /\ m.raised[i].subject = n
                       /\ m.raised[i].tick > m.checked - scene.config.cooldown
  BY DEF CycleKnown
<1> DEFINE cooldown == scene.config.cooldown
           a == LoopAlert(n, m.checked)
<1>1. cooldown \in Nat \ {0} /\ m.raised \in Seq(Alerts) /\ Covered(m.raised, m.asked, cooldown)
  BY ToldParts
<1>2. m.checked \in Nat
  BY DEF MInv, Well, Told, Monitors
<1>3. a \in m.asked
  BY DEF MInv, CyclesAsked
<1>4. a.check = "relay_cycle" /\ a.subject = n /\ a.tick = m.checked
  BY DEF LoopAlert
<1> HIDE DEF a
<1>5. PICK i \in DOMAIN m.raised : Covers(m.raised[i], a, cooldown)
  BY <1>1, <1>3 DEF Covered
<1>6. m.raised[i] \in Alerts
  BY <1>1
<1>7. m.raised[i].tick \in Nat
  BY <1>6 DEF Alerts
<1>8. /\ m.raised[i].check = "relay_cycle" /\ m.raised[i].subject = n
      /\ m.checked - m.raised[i].tick \in 0..(cooldown - 1)
  BY <1>4, <1>5 DEF Covers, Key
<1>9. m.raised[i].tick > m.checked - cooldown
  BY <1>1, <1>2, <1>7, <1>8
<1> QED
  BY <1>5, <1>8, <1>9

(* CyclesFound: for any network and logics, in every state, the two passes *)
(* of the union-find report a loop when a bridge would hear itself, and    *)
(* only then where gateways have two sides: the connections of the bridges *)
(* close no loop exactly when each of them joins links that the gateways   *)
(* and the others leave apart.                                             *)
THEOREM LoopsAreFound == Spec => []CyclesFound
<1>1. MInv => CyclesFound
  BY LoopsFound, LoopsReal DEF MInv, CyclesFound
<1> QED
  BY <1>1, MonitorInvariant, PTL

(* CycleKnown: once a tick has begun after a change, every bridge that     *)
(* closes a loop has been reported, for any network and logics, also when  *)
(* logics were lost since.  A panic takes a logic away without telling the *)
(* monitor; that can close no loop, as the two passes of the union-find    *)
(* join no links without it that they did not join with it.                *)
THEOREM NoLoopStaysUnknown == Spec => []CycleKnown
  BY MonitorInvariant, LoopsKnown, PTL
=============================================================================
