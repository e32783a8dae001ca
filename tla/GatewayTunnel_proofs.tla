------------------------- MODULE GatewayTunnel_proofs -------------------------
(***************************************************************************)
(* GatewayTunnel for every set of ids, every number of payloads, and every *)
(* capacity of the write queue: the registries of a session, the order of  *)
(* what each end of a tunnel gets, and what may cut a stream.              *)
(***************************************************************************)
EXTENDS GatewayTunnel, SequenceTheorems, TLAPS

(* Frames of one kind and one id in a channel c.                           *)

\* What is sent: a frame of a tunnel carries its id.
Frames ==
    {f \in [kind : FrameKinds, id : Ids \cup {0}, n : Nat] :
        f.kind \notin {"getFile", "file"} => f.id \in Ids}

Match(f, K, id) == f.kind = K /\ f.id = id

Carries(c, K, id) == \E i \in 1 .. Len(c) : Match(c[i], K, id)

Single(c, K, id) ==
    \A i, j \in 1 .. Len(c) : Match(c[i], K, id) /\ Match(c[j], K, id) => i = j

\* They are numbered low + 1, low + 2, ... without a hole, to at most high ...
Runs(c, K, id, low, high) ==
    /\ low <= high
    /\ \A i \in 1 .. Len(c) : Match(c[i], K, id) => low < c[i].n /\ c[i].n <= high
    /\ \A i, j \in 1 .. Len(c) :
          i < j /\ Match(c[i], K, id) /\ Match(c[j], K, id) => c[i].n < c[j].n
    /\ \A i \in 1 .. Len(c) : Match(c[i], K, id) =>
          \A m \in low + 1 .. c[i].n - 1 :
             \E j \in 1 .. i - 1 : Match(c[j], K, id) /\ c[j].n = m

\* ... and reach high.
Full(c, K, id, low, high) ==
    \A m \in low + 1 .. high :
        \E i \in 1 .. Len(c) : Match(c[i], K, id) /\ c[i].n = m

\* A backward payload comes after the Connected of its tunnel.
Announced(c, id) ==
    \A i \in 1 .. Len(c) : Match(c[i], "backward", id) =>
        \E j \in 1 .. i - 1 : Match(c[j], "connected", id)

-----------------------------------------------------------------------------
(* The inductive invariant.                                                *)

\* Only such frames are on their way.
FrameIds == chan \in [Sides -> Seq(Frames)]

\* Before its Open a tunnel has left no trace, and there is one Connect of it.
OpenOnce ==
    \A t \in Tunnels :
        /\ user[t] = "idle" =>
              /\ task[t] = "none" /\ handler[t] = "none" /\ ~cut[t]
              /\ ~Carries(chan[t[1]], "connect", t[2])
        /\ Carries(chan[t[1]], "connect", t[2]) => task[t] = "none"
        /\ Single(chan[t[1]], "connect", t[2])

\* Before the dial has succeeded nothing flows in either direction.
NotStarted ==
    \A t \in Tunnels : task[t] \in {"none", "dialing"} =>
        /\ sent[t] = 0 /\ put[t] = << >> /\ upSent[t] = 0
        /\ got[t] = << >> /\ recv[t] = << >>
        /\ ~fwd[t] /\ ~reading[t]
        /\ handler[t] # "connected" /\ user[t] # "open"
        /\ ~Carries(chan[t[1]], "forward", t[2])
        /\ ~Carries(chan[Far(t)], "connected", t[2])
        /\ ~Carries(chan[Far(t)], "backward", t[2])

\* A tunnel is registered last, and its upstream is read until it ends.
Registered ==
    \A t \in Tunnels :
        /\ fwd[t] => task[t] = "done"
        /\ fwd[t] \/ task[t] = "starting" => reading[t] \/ t \in early

\* A handler outlives the cut of its stream only while it is being reaped.
CutHandler ==
    \A t \in Tunnels : cut[t] /\ handler[t] # "none" => user[t] = "closing"

\* Tunnel t is forwarded or about to be.
Forwarding(t) == task[t] = "starting" \/ fwd[t]

\* The payloads on their way to the upstream are the next ones.
ForwardOrder ==
    \A t \in Tunnels : t \notin early /\ Forwarding(t) =>
        /\ Runs(chan[t[1]], "forward", t[2], Len(put[t]), sent[t])
        /\ Working(t[1]) =>
              Full(chan[t[1]], "forward", t[2], Len(put[t]), sent[t])

\* What the user of t has been given.
Arrived(t) == Len(got[t]) + Len(recv[t])

\* And those on their way to the user.
BackwardOrder ==
    \A t \in Tunnels : Undisturbed(t) /\ handler[t] # "none" =>
        /\ Runs(chan[Far(t)], "backward", t[2], Arrived(t), upSent[t])
        /\ Working(Far(t)) /\ Forwarding(t) =>
              Full(chan[Far(t)], "backward", t[2], Arrived(t), upSent[t])

\* They do not overtake the Connected that makes the handler take them.
ConnectedFirst ==
    \A t \in Tunnels : Undisturbed(t) /\ handler[t] = "ack" =>
        /\ Announced(chan[Far(t)], t[2])
        /\ Working(Far(t)) /\ Forwarding(t) =>
              Carries(chan[Far(t)], "connected", t[2])

\* Tunnel t is not forwarded and never will be.
Gone(t) ==
    /\ ~fwd[t]
    /\ \/ task[t] = "done"
       \/ /\ task[t] = "none" /\ user[t] # "idle"
          /\ ~Carries(chan[t[1]], "connect", t[2])

\* The other side has used the id of t.
Shared(t) == user[Twin(t)] # "idle"

\* A ConnectionError on its way to the user of t says that t is gone, or is
\* one of its twin's ...
ErrorInv ==
    \A t \in Tunnels : Carries(chan[Far(t)], "error", t[2]) => Shared(t) \/ Gone(t)

\* ... so that is what a cut means that the user did not ask for.
CutInv ==
    \A t \in Tunnels : cut[t] =>
        user[t] \in {"closing", "closed"} \/ dropped[t[1]] \/ Shared(t) \/ Gone(t)

Ordered == ForwardOrder /\ BackwardOrder /\ ConnectedFirst /\ InOrder

IInv ==
    /\ TypeOK /\ FrameIds /\ OpenOnce /\ NotStarted /\ Registered
    /\ NoStaleHandler /\ CutHandler
    /\ Ordered
    /\ ErrorInv /\ CutInv
-----------------------------------------------------------------------------
(* How the frames of a channel change.                                     *)

\* c becomes d and the frames of this kind and id stay: nothing happens, an
\* other one is added, an other one is taken.
Quiet(c, d, K, id) ==
    \/ d = c
    \/ \E f \in Frames : ~Match(f, K, id) /\ d = Append(c, f)
    \/ c # << >> /\ ~Match(Head(c), K, id) /\ d = Tail(c)

\* The end of c is lost.
Cutoff(c, d) == \E n \in 0 .. Len(c) : d = SubSeq(c, 1, n)

LEMMA AppendFacts ==
    ASSUME NEW S, NEW c \in Seq(S), NEW f \in S
    PROVE  /\ Append(c, f) \in Seq(S)
           /\ Len(c) \in Nat /\ Len(Append(c, f)) = Len(c) + 1
           /\ Append(c, f)[Len(c) + 1] = f
           /\ \A i \in 1 .. Len(c) : Append(c, f)[i] = c[i]
  OBVIOUS

LEMMA TailFacts ==
    ASSUME NEW S, NEW c \in Seq(S), c # << >>
    PROVE  /\ Tail(c) \in Seq(S) /\ Head(c) = c[1] /\ c[1] \in S
           /\ Len(c) \in Nat \ {0} /\ Len(Tail(c)) = Len(c) - 1
           /\ \A i \in 1 .. Len(c) - 1 : Tail(c)[i] = c[i + 1]
  OBVIOUS

LEMMA SubSeqFacts ==
    ASSUME NEW S, NEW c \in Seq(S), NEW n \in 0 .. Len(c)
    PROVE  /\ SubSeq(c, 1, n) \in Seq(S) /\ Len(SubSeq(c, 1, n)) = n
           /\ \A i \in 1 .. n : SubSeq(c, 1, n)[i] = c[i]
  OBVIOUS

LEMMA NumbersAreNat ==
    ASSUME NEW c \in Seq(Frames)
    PROVE  \A i \in 1 .. Len(c) : c[i].n \in Nat
<1>1. \A i \in 1 .. Len(c) : c[i] \in Frames
  OBVIOUS
<1>2. \A f \in Frames : f.n \in Nat
  BY DEF Frames
<1> QED  BY <1>1, <1>2

LEMMA CarriesQuiet ==
    ASSUME NEW c \in Seq(Frames), NEW d, NEW K, NEW id, Quiet(c, d, K, id)
    PROVE  Carries(d, K, id) <=> Carries(c, K, id)
<1>1. ASSUME NEW f \in Frames, ~Match(f, K, id), d = Append(c, f)
      PROVE  Carries(d, K, id) <=> Carries(c, K, id)
  BY <1>1, AppendFacts DEF Carries
<1>2. ASSUME c # << >>, ~Match(Head(c), K, id), d = Tail(c)
      PROVE  Carries(d, K, id) <=> Carries(c, K, id)
  <2>1. /\ Len(c) \in Nat \ {0} /\ Len(d) = Len(c) - 1 /\ Head(c) = c[1]
        /\ \A i \in 1 .. Len(c) - 1 : d[i] = c[i + 1]
    BY <1>2, TailFacts
  <2>2. ASSUME NEW i \in 1 .. Len(d), Match(d[i], K, id) PROVE Carries(c, K, id)
    <3>1. i + 1 \in 1 .. Len(c) /\ d[i] = c[i + 1]
      BY <2>1
    <3> QED  BY <2>2, <3>1 DEF Carries
  <2>3. ASSUME NEW i \in 1 .. Len(c), Match(c[i], K, id) PROVE Carries(d, K, id)
    <3>1. i # 1
      BY <1>2, <2>1, <2>3
    <3>2. i - 1 \in 1 .. Len(d) /\ d[i - 1] = c[i]
      BY <2>1, <3>1
    <3> QED  BY <2>3, <3>2 DEF Carries
  <2> QED  BY <2>2, <2>3 DEF Carries
<1> QED  BY <1>1, <1>2 DEF Quiet

LEMMA CarriesCutoff ==
    ASSUME NEW c \in Seq(Frames), NEW d, NEW K, NEW id, Cutoff(c, d), Carries(d, K, id)
    PROVE  Carries(c, K, id)
<1>1. PICK n \in 0 .. Len(c) : d = SubSeq(c, 1, n)
  BY DEF Cutoff
<1>2. Len(d) = n /\ \A i \in 1 .. n : d[i] = c[i]
  BY <1>1, SubSeqFacts
<1> QED  BY <1>1, <1>2 DEF Carries

\* The one frame of its kind is taken, or added.
LEMMA CarriesTail ==
    ASSUME NEW c \in Seq(Frames), NEW K, NEW id, c # << >>
    PROVE  /\ Match(Head(c), K, id) => Carries(c, K, id)
           /\ Carries(Tail(c), K, id) => Carries(c, K, id)
           /\ Match(Head(c), K, id) /\ Single(c, K, id) => ~Carries(Tail(c), K, id)
<1>1. /\ Len(c) \in Nat \ {0} /\ Len(Tail(c)) = Len(c) - 1 /\ Head(c) = c[1]
      /\ \A i \in 1 .. Len(c) - 1 : Tail(c)[i] = c[i + 1]
  BY TailFacts
<1>2. Match(Head(c), K, id) => Carries(c, K, id)
  BY <1>1 DEF Carries
<1>3. ASSUME NEW i \in 1 .. Len(Tail(c)), Match(Tail(c)[i], K, id)
      PROVE  /\ i + 1 \in 1 .. Len(c) /\ Match(c[i + 1], K, id) /\ i + 1 # 1
  BY <1>1, <1>3
<1>4. Carries(Tail(c), K, id) => Carries(c, K, id)
  BY <1>3 DEF Carries
<1>5. ASSUME Match(Head(c), K, id), Single(c, K, id), Carries(Tail(c), K, id) PROVE FALSE
  <2>1. PICK i \in 1 .. Len(Tail(c)) : Match(Tail(c)[i], K, id)
    BY <1>5 DEF Carries
  <2>2. 1 \in 1 .. Len(c) /\ Match(c[1], K, id)
    BY <1>1, <1>5
  <2> QED  BY <1>3, <1>5, <2>1, <2>2 DEF Single
<1> QED  BY <1>2, <1>4, <1>5

LEMMA CarriesAppend ==
    ASSUME NEW c \in Seq(Frames), NEW K, NEW id, NEW f \in Frames, Match(f, K, id)
    PROVE  /\ Carries(Append(c, f), K, id)
           /\ ~Carries(c, K, id) => Single(Append(c, f), K, id)
<1>1. /\ Len(c) \in Nat /\ Len(Append(c, f)) = Len(c) + 1
      /\ Append(c, f)[Len(c) + 1] = f
      /\ \A i \in 1 .. Len(c) : Append(c, f)[i] = c[i]
  BY AppendFacts
<1>2. Carries(Append(c, f), K, id)
  BY <1>1 DEF Carries
<1>3. ASSUME ~Carries(c, K, id), NEW i \in 1 .. Len(Append(c, f)),
             Match(Append(c, f)[i], K, id)
      PROVE  i = Len(c) + 1
  BY <1>1, <1>3 DEF Carries
<1> QED  BY <1>2, <1>3 DEF Single

LEMMA SingleQuiet ==
    ASSUME NEW c \in Seq(Frames), NEW d, NEW K, NEW id, Single(c, K, id),
           Quiet(c, d, K, id) \/ Cutoff(c, d)
    PROVE  Single(d, K, id)
<1>1. ASSUME NEW f \in Frames, ~Match(f, K, id), d = Append(c, f)
      PROVE  Single(d, K, id)
  <2>1. /\ Len(c) \in Nat /\ Len(d) = Len(c) + 1 /\ ~Match(d[Len(c) + 1], K, id)
        /\ \A i \in 1 .. Len(c) : d[i] = c[i]
    BY <1>1, AppendFacts
  <2>2. \A i \in 1 .. Len(d) : Match(d[i], K, id) => i \in 1 .. Len(c)
    BY <2>1
  <2> QED  BY <2>1, <2>2 DEF Single
<1>2. ASSUME c # << >>, d = Tail(c)
      PROVE  Single(d, K, id)
  <2>1. /\ Len(c) \in Nat \ {0} /\ Len(d) = Len(c) - 1
        /\ \A i \in 1 .. Len(c) - 1 : d[i] = c[i + 1]
    BY <1>2, TailFacts
  <2> SUFFICES ASSUME NEW i \in 1 .. Len(d), NEW j \in 1 .. Len(d),
                      Match(d[i], K, id), Match(d[j], K, id)
               PROVE  i = j
    BY DEF Single
  <2>2. /\ i + 1 \in 1 .. Len(c) /\ d[i] = c[i + 1]
        /\ j + 1 \in 1 .. Len(c) /\ d[j] = c[j + 1]
    BY <2>1
  <2>3. i + 1 = j + 1
    BY <2>2 DEF Single
  <2> QED  BY <2>3
<1>3. ASSUME Cutoff(c, d) PROVE Single(d, K, id)
  <2>1. PICK n \in 0 .. Len(c) : d = SubSeq(c, 1, n)
    BY <1>3 DEF Cutoff
  <2>2. Len(d) = n /\ \A i \in 1 .. n : d[i] = c[i] /\ i \in 1 .. Len(c)
    BY <2>1, SubSeqFacts
  <2> QED  BY <2>2 DEF Single
<1> QED  BY <1>1, <1>2, <1>3 DEF Quiet

LEMMA RunsQuiet ==
    ASSUME NEW c \in Seq(Frames), NEW d, NEW K, NEW id, NEW lo \in Nat, NEW hi \in Nat,
           Quiet(c, d, K, id)
    PROVE  /\ Runs(c, K, id, lo, hi) => Runs(d, K, id, lo, hi)
           /\ Full(c, K, id, lo, hi) => Full(d, K, id, lo, hi)
<1>0. \A i \in 1 .. Len(c) : c[i].n \in Nat
  BY NumbersAreNat
<1>1. ASSUME NEW f \in Frames, ~Match(f, K, id), d = Append(c, f)
      PROVE  /\ Runs(c, K, id, lo, hi) => Runs(d, K, id, lo, hi)
             /\ Full(c, K, id, lo, hi) => Full(d, K, id, lo, hi)
  <2>1. /\ Len(c) \in Nat /\ Len(d) = Len(c) + 1 /\ ~Match(d[Len(c) + 1], K, id)
        /\ \A i \in 1 .. Len(c) : d[i] = c[i]
    BY <1>1, AppendFacts
  <2>2. \A i \in 1 .. Len(d) : Match(d[i], K, id) => i \in 1 .. Len(c)
    BY <2>1
  <2>3. ASSUME Runs(c, K, id, lo, hi) PROVE Runs(d, K, id, lo, hi)
    <3>1. ASSUME NEW i \in 1 .. Len(d), Match(d[i], K, id)
          PROVE  /\ lo < d[i].n /\ d[i].n <= hi
                 /\ \A m \in lo + 1 .. d[i].n - 1 :
                       \E j \in 1 .. i - 1 : Match(d[j], K, id) /\ d[j].n = m
      <4>1. i \in 1 .. Len(c) /\ d[i] = c[i]  BY <2>1, <2>2, <3>1
      <4>2. \A j \in 1 .. i - 1 : d[j] = c[j]  BY <2>1, <4>1
      <4>3. lo < c[i].n /\ c[i].n <= hi  BY <2>3, <3>1, <4>1 DEF Runs
      <4>4. \A m \in lo + 1 .. c[i].n - 1 :
               \E j \in 1 .. i - 1 : Match(c[j], K, id) /\ c[j].n = m
        BY <2>3, <3>1, <4>1 DEF Runs
      <4> QED  BY <4>1, <4>2, <4>3, <4>4
    <3>2. ASSUME NEW i \in 1 .. Len(d), NEW j \in 1 .. Len(d), i < j,
                 Match(d[i], K, id), Match(d[j], K, id)
          PROVE  d[i].n < d[j].n
      BY <2>1, <2>2, <2>3, <3>2 DEF Runs
    <3>3. lo <= hi  BY <2>3 DEF Runs
    <3> QED  BY <3>1, <3>2, <3>3 DEF Runs
  <2>4. ASSUME Full(c, K, id, lo, hi) PROVE Full(d, K, id, lo, hi)
    <3>1. 1 .. Len(c) \subseteq 1 .. Len(d)  BY <2>1
    <3> QED  BY <2>1, <2>4, <3>1 DEF Full
  <2> QED  BY <2>3, <2>4
<1>2. ASSUME c # << >>, ~Match(Head(c), K, id), d = Tail(c)
      PROVE  /\ Runs(c, K, id, lo, hi) => Runs(d, K, id, lo, hi)
             /\ Full(c, K, id, lo, hi) => Full(d, K, id, lo, hi)
  <2>1. /\ Len(c) \in Nat \ {0} /\ Len(d) = Len(c) - 1 /\ ~Match(c[1], K, id)
        /\ \A i \in 1 .. Len(c) - 1 : d[i] = c[i + 1]
    BY <1>2, TailFacts
  <2>2. \A i \in 1 .. Len(d) : i + 1 \in 1 .. Len(c) /\ d[i] = c[i + 1]
    BY <2>1
  <2>3. \A i \in 1 .. Len(c) : Match(c[i], K, id) => i - 1 \in 1 .. Len(d) /\ d[i - 1] = c[i]
    BY <2>1
  <2>4. ASSUME Runs(c, K, id, lo, hi) PROVE Runs(d, K, id, lo, hi)
    <3>1. ASSUME NEW i \in 1 .. Len(d), Match(d[i], K, id)
          PROVE  /\ lo < d[i].n /\ d[i].n <= hi
                 /\ \A m \in lo + 1 .. d[i].n - 1 :
                       \E j \in 1 .. i - 1 : Match(d[j], K, id) /\ d[j].n = m
      <4>1. i + 1 \in 1 .. Len(c) /\ d[i] = c[i + 1]  BY <2>2
      <4>2. ASSUME NEW m \in lo + 1 .. d[i].n - 1
            PROVE  \E j \in 1 .. i - 1 : Match(d[j], K, id) /\ d[j].n = m
        <5>1. PICK j \in 1 .. (i + 1) - 1 : Match(c[j], K, id) /\ c[j].n = m
          BY <2>4, <3>1, <4>1 DEF Runs
        <5>2. j \in 1 .. Len(c)  BY <4>1, <2>1
        <5>3. j - 1 \in 1 .. Len(d) /\ d[j - 1] = c[j]  BY <2>3, <5>1, <5>2
        <5>4. j - 1 \in 1 .. i - 1  BY <5>3, <2>1
        <5> QED  BY <5>1, <5>3, <5>4
      <4> QED  BY <2>4, <3>1, <4>1, <4>2 DEF Runs
    <3>2. ASSUME NEW i \in 1 .. Len(d), NEW j \in 1 .. Len(d), i < j,
                 Match(d[i], K, id), Match(d[j], K, id)
          PROVE  d[i].n < d[j].n
      <4>1. i + 1 < j + 1  BY <3>2, <2>1
      <4> QED  BY <2>2, <2>4, <3>2, <4>1 DEF Runs
    <3>3. lo <= hi  BY <2>4 DEF Runs
    <3> QED  BY <3>1, <3>2, <3>3 DEF Runs
  <2>5. ASSUME Full(c, K, id, lo, hi) PROVE Full(d, K, id, lo, hi)
    BY <2>3, <2>5 DEF Full
  <2> QED  BY <2>4, <2>5
<1> QED  BY <1>1, <1>2 DEF Quiet

LEMMA RunsCutoff ==
    ASSUME NEW c \in Seq(Frames), NEW d, NEW K, NEW id, NEW lo \in Nat, NEW hi \in Nat,
           Cutoff(c, d), Runs(c, K, id, lo, hi)
    PROVE  Runs(d, K, id, lo, hi)
<1>1. PICK n \in 0 .. Len(c) : d = SubSeq(c, 1, n)
  BY DEF Cutoff
<1>2. Len(d) = n /\ \A i \in 1 .. n : d[i] = c[i] /\ i \in 1 .. Len(c)
  BY <1>1, SubSeqFacts
<1>3. ASSUME NEW i \in 1 .. Len(d), Match(d[i], K, id)
      PROVE  /\ lo < d[i].n /\ d[i].n <= hi
             /\ \A m \in lo + 1 .. d[i].n - 1 :
                   \E j \in 1 .. i - 1 : Match(d[j], K, id) /\ d[j].n = m
  <2>1. i \in 1 .. Len(c) /\ d[i] = c[i]  BY <1>2
  <2>2. \A j \in 1 .. i - 1 : d[j] = c[j]  BY <1>2
  <2> QED  BY <1>3, <2>1, <2>2 DEF Runs
<1>4. ASSUME NEW i \in 1 .. Len(d), NEW j \in 1 .. Len(d), i < j,
             Match(d[i], K, id), Match(d[j], K, id)
      PROVE  d[i].n < d[j].n
  BY <1>2, <1>4 DEF Runs
<1>5. lo <= hi  BY DEF Runs
<1> QED  BY <1>3, <1>4, <1>5 DEF Runs

\* The next number is added.
LEMMA RunsAppend ==
    ASSUME NEW c \in Seq(Frames), NEW K, NEW id, NEW lo \in Nat, NEW hi \in Nat,
           NEW f \in Frames, Match(f, K, id), f.n = hi + 1,
           Runs(c, K, id, lo, hi), Full(c, K, id, lo, hi)
    PROVE  /\ Runs(Append(c, f), K, id, lo, hi + 1)
           /\ Full(Append(c, f), K, id, lo, hi + 1)
<1> DEFINE d == Append(c, f)
<1>0. \A i \in 1 .. Len(c) : c[i].n \in Nat
  BY NumbersAreNat
<1>1. /\ Len(c) \in Nat /\ Len(d) = Len(c) + 1 /\ d[Len(c) + 1] = f
      /\ \A i \in 1 .. Len(c) : d[i] = c[i]
  BY AppendFacts
<1> HIDE DEF d
<1>2. ASSUME NEW i \in 1 .. Len(d), Match(d[i], K, id)
      PROVE  /\ lo < d[i].n /\ d[i].n <= hi + 1
             /\ \A m \in lo + 1 .. d[i].n - 1 :
                   \E j \in 1 .. i - 1 : Match(d[j], K, id) /\ d[j].n = m
  <2>1. CASE i \in 1 .. Len(c)
    <3>1. d[i] = c[i] /\ \A j \in 1 .. i - 1 : d[j] = c[j]  BY <1>1, <2>1
    <3>2. c[i].n \in Nat /\ Match(c[i], K, id)  BY <1>0, <1>2, <2>1, <3>1
    <3>3. lo < c[i].n /\ c[i].n <= hi + 1  BY <2>1, <3>2 DEF Runs
    <3>4. ASSUME NEW m \in lo + 1 .. c[i].n - 1
          PROVE  \E j \in 1 .. i - 1 : Match(d[j], K, id) /\ d[j].n = m
      <4>1. PICK j \in 1 .. i - 1 : Match(c[j], K, id) /\ c[j].n = m
        BY <2>1, <3>2 DEF Runs
      <4> QED  BY <3>1, <4>1
    <3> QED  BY <3>1, <3>3, <3>4
  <2>2. CASE i = Len(c) + 1
    <3>1. d[i] = f /\ \A j \in 1 .. i - 1 : d[j] = c[j] /\ j \in 1 .. Len(c)
      BY <1>1, <2>2
    <3>2. 1 .. i - 1 = 1 .. Len(c)  BY <1>1, <2>2
    <3>3. ASSUME NEW m \in lo + 1 .. d[i].n - 1
          PROVE  \E j \in 1 .. i - 1 : Match(d[j], K, id) /\ d[j].n = m
      <4>1. m \in lo + 1 .. hi  BY <3>1
      <4>2. PICK j \in 1 .. Len(c) : Match(c[j], K, id) /\ c[j].n = m
        BY <4>1 DEF Full
      <4> QED  BY <3>1, <3>2, <4>2
    <3>4. lo < hi + 1  BY DEF Runs
    <3>5. lo < d[i].n /\ d[i].n <= hi + 1  BY <3>1, <3>4
    <3> QED  BY <3>3, <3>5
  <2> QED  BY <1>1, <2>1, <2>2
<1>3. ASSUME NEW i \in 1 .. Len(d), NEW j \in 1 .. Len(d), i < j,
             Match(d[i], K, id), Match(d[j], K, id)
      PROVE  d[i].n < d[j].n
  <2>1. i \in 1 .. Len(c) /\ d[i] = c[i]  BY <1>1, <1>3
  <2>2. CASE j \in 1 .. Len(c)
    BY <1>1, <1>3, <2>1, <2>2 DEF Runs
  <2>3. CASE j = Len(c) + 1
    BY <1>0, <1>1, <1>3, <2>1, <2>3 DEF Runs
  <2> QED  BY <1>1, <2>2, <2>3
<1>4. Full(d, K, id, lo, hi + 1)
  <2> SUFFICES ASSUME NEW m \in lo + 1 .. hi + 1
               PROVE  \E i \in 1 .. Len(d) : Match(d[i], K, id) /\ d[i].n = m
    BY DEF Full
  <2>1. CASE m = hi + 1
    BY <1>1, <2>1
  <2>2. CASE m # hi + 1
    <3>1. m \in lo + 1 .. hi  BY <2>2
    <3>2. PICK j \in 1 .. Len(c) : Match(c[j], K, id) /\ c[j].n = m
      BY <3>1 DEF Full
    <3> QED  BY <1>1, <3>2
  <2> QED  BY <2>1, <2>2
<1>5. Runs(d, K, id, lo, hi + 1)
  <2>1. lo <= hi + 1  BY DEF Runs
  <2> QED  BY <1>2, <1>3, <2>1 DEF Runs
<1> QED  BY <1>4, <1>5 DEF d

\* The first one is taken: it is the one after low.
LEMMA RunsTail ==
    ASSUME NEW c \in Seq(Frames), NEW K, NEW id, NEW lo \in Nat, NEW hi \in Nat,
           c # << >>, Match(Head(c), K, id), Runs(c, K, id, lo, hi)
    PROVE  /\ Head(c).n = lo + 1 /\ lo + 1 <= hi
           /\ Runs(Tail(c), K, id, lo + 1, hi)
           /\ Full(c, K, id, lo, hi) => Full(Tail(c), K, id, lo + 1, hi)
<1> DEFINE d == Tail(c)
<1>0. \A i \in 1 .. Len(c) : c[i].n \in Nat
  BY NumbersAreNat
<1>1. /\ Len(c) \in Nat \ {0} /\ Len(d) = Len(c) - 1 /\ Head(c) = c[1]
      /\ \A i \in 1 .. Len(c) - 1 : d[i] = c[i + 1]
  BY TailFacts
<1> HIDE DEF d
<1>2. 1 \in 1 .. Len(c) /\ Match(c[1], K, id)
  BY <1>1
<1>3. c[1].n = lo + 1 /\ lo + 1 <= hi
  <2>1. lo < c[1].n /\ c[1].n <= hi  BY <1>2 DEF Runs
  <2>2. \A m \in lo + 1 .. c[1].n - 1 : \E j \in 1 .. 1 - 1 : Match(c[j], K, id) /\ c[j].n = m
    BY <1>2 DEF Runs
  <2>3. lo + 1 \notin lo + 1 .. c[1].n - 1  BY <2>2
  <2> QED  BY <1>0, <1>2, <2>1, <2>3
<1>4. \A i \in 1 .. Len(d) : i + 1 \in 1 .. Len(c) /\ d[i] = c[i + 1]
  BY <1>1
<1>5. \A i \in 1 .. Len(c) : i # 1 => i - 1 \in 1 .. Len(d) /\ d[i - 1] = c[i]
  BY <1>1
<1>6. ASSUME NEW i \in 1 .. Len(d), Match(d[i], K, id)
      PROVE  /\ lo + 1 < d[i].n /\ d[i].n <= hi
             /\ \A m \in (lo + 1) + 1 .. d[i].n - 1 :
                   \E j \in 1 .. i - 1 : Match(d[j], K, id) /\ d[j].n = m
  <2>1. i + 1 \in 1 .. Len(c) /\ d[i] = c[i + 1] /\ 1 < i + 1  BY <1>4
  <2>2. c[1].n < c[i + 1].n /\ c[i + 1].n <= hi  BY <1>2, <1>6, <2>1 DEF Runs
  <2>3. ASSUME NEW m \in (lo + 1) + 1 .. d[i].n - 1
        PROVE  \E j \in 1 .. i - 1 : Match(d[j], K, id) /\ d[j].n = m
    <3>1. m \in lo + 1 .. c[i + 1].n - 1 /\ m # lo + 1  BY <2>1
    <3>2. PICK j \in 1 .. (i + 1) - 1 : Match(c[j], K, id) /\ c[j].n = m
      BY <1>6, <2>1, <3>1 DEF Runs
    <3>3. j \in 1 .. Len(c) /\ j # 1  BY <1>1, <1>3, <2>1, <3>1, <3>2
    <3>4. d[j - 1] = c[j]  BY <1>5, <3>3
    <3>5. i \in Nat /\ j \in Nat /\ 1 <= j /\ j <= i  BY <1>1
    <3>6. j - 1 \in 1 .. i - 1  BY <3>3, <3>5
    <3> QED  BY <3>2, <3>4, <3>6
  <2> QED  BY <1>3, <2>1, <2>2, <2>3
<1>7. ASSUME NEW i \in 1 .. Len(d), NEW j \in 1 .. Len(d), i < j,
             Match(d[i], K, id), Match(d[j], K, id)
      PROVE  d[i].n < d[j].n
  <2>1. i + 1 < j + 1  BY <1>1, <1>7
  <2> QED  BY <1>4, <1>7, <2>1 DEF Runs
<1>8. ASSUME Full(c, K, id, lo, hi) PROVE Full(d, K, id, lo + 1, hi)
  <2> SUFFICES ASSUME NEW m \in (lo + 1) + 1 .. hi
               PROVE  \E i \in 1 .. Len(d) : Match(d[i], K, id) /\ d[i].n = m
    BY DEF Full
  <2>1. m \in lo + 1 .. hi /\ m # lo + 1  OBVIOUS
  <2>2. PICK j \in 1 .. Len(c) : Match(c[j], K, id) /\ c[j].n = m
    BY <1>8, <2>1 DEF Full
  <2>3. j # 1  BY <1>3, <2>1, <2>2
  <2> QED  BY <1>5, <2>2, <2>3
<1>9. Runs(d, K, id, lo + 1, hi)
  BY <1>3, <1>6, <1>7 DEF Runs
<1> QED  BY <1>1, <1>3, <1>8, <1>9 DEF d

LEMMA RunsNone ==
    ASSUME NEW c, NEW K, NEW id, ~Carries(c, K, id), NEW lo \in Nat
    PROVE  Runs(c, K, id, lo, lo) /\ Full(c, K, id, lo, lo)
  BY DEF Runs, Full, Carries

LEMMA RunsMore ==
    ASSUME NEW c \in Seq(Frames), NEW K, NEW id, NEW lo \in Nat, NEW hi \in Nat,
           NEW more \in Nat, hi <= more, Runs(c, K, id, lo, hi)
    PROVE  Runs(c, K, id, lo, more)
<1>1. \A i \in 1 .. Len(c) : c[i].n \in Nat
  BY NumbersAreNat
<1> QED  BY <1>1 DEF Runs

LEMMA AnnouncedQuiet ==
    ASSUME NEW c \in Seq(Frames), NEW d, NEW id, Announced(c, id),
           \/ Quiet(c, d, "backward", id) /\ Quiet(c, d, "connected", id)
           \/ Cutoff(c, d)
    PROVE  Announced(d, id)
<1>1. CASE d = c
  BY <1>1
<1>2. ASSUME NEW f \in Frames, ~Match(f, "backward", id), d = Append(c, f)
      PROVE  Announced(d, id)
  <2>1. /\ Len(c) \in Nat /\ Len(d) = Len(c) + 1 /\ d[Len(c) + 1] = f
        /\ \A i \in 1 .. Len(c) : d[i] = c[i]
    BY <1>2, AppendFacts
  <2>2. \A i \in 1 .. Len(d) : Match(d[i], "backward", id) => i \in 1 .. Len(c)
    BY <1>2, <2>1
  <2>3. \A i \in 1 .. Len(c) : \A j \in 1 .. i - 1 : d[j] = c[j]
    BY <2>1
  <2> QED  BY <2>1, <2>2, <2>3 DEF Announced
<1>3. ASSUME c # << >>, ~Match(Head(c), "connected", id), d = Tail(c)
      PROVE  Announced(d, id)
  <2>1. /\ Len(c) \in Nat \ {0} /\ Len(d) = Len(c) - 1 /\ Head(c) = c[1]
        /\ \A i \in 1 .. Len(c) - 1 : d[i] = c[i + 1]
    BY <1>3, TailFacts
  <2> SUFFICES ASSUME NEW i \in 1 .. Len(d), Match(d[i], "backward", id)
               PROVE  \E j \in 1 .. i - 1 : Match(d[j], "connected", id)
    BY DEF Announced
  <2>2. i + 1 \in 1 .. Len(c) /\ d[i] = c[i + 1]  BY <2>1
  <2>3. PICK j \in 1 .. (i + 1) - 1 : Match(c[j], "connected", id)
    BY <2>2 DEF Announced
  <2>4. j # 1  BY <1>3, <2>1, <2>3
  <2>5. j - 1 \in 1 .. i - 1 /\ d[j - 1] = c[j]  BY <2>1, <2>2, <2>3, <2>4
  <2> QED  BY <2>3, <2>5
<1>4. ASSUME Cutoff(c, d) PROVE Announced(d, id)
  <2>1. PICK n \in 0 .. Len(c) : d = SubSeq(c, 1, n)
    BY <1>4 DEF Cutoff
  <2>2. Len(d) = n /\ \A i \in 1 .. n : d[i] = c[i] /\ i \in 1 .. Len(c)
    BY <2>1, SubSeqFacts
  <2>3. \A i \in 1 .. n : \A j \in 1 .. i - 1 : d[j] = c[j]
    BY <2>2
  <2> QED  BY <2>2, <2>3 DEF Announced
<1> QED  BY <1>1, <1>2, <1>3, <1>4 DEF Quiet

\* A backward payload is sent after Connected.
LEMMA AnnouncedAppend ==
    ASSUME NEW c \in Seq(Frames), NEW id, NEW f \in Frames, Announced(c, id),
           Carries(c, "connected", id)
    PROVE  Announced(Append(c, f), id)
<1> DEFINE d == Append(c, f)
<1>1. /\ Len(c) \in Nat /\ Len(d) = Len(c) + 1
      /\ \A i \in 1 .. Len(c) : d[i] = c[i]
  BY AppendFacts
<1> HIDE DEF d
<1> SUFFICES ASSUME NEW i \in 1 .. Len(d), Match(d[i], "backward", id)
             PROVE  \E j \in 1 .. i - 1 : Match(d[j], "connected", id)
  BY DEF Announced, d
<1>2. CASE i \in 1 .. Len(c)
  <2>1. d[i] = c[i] /\ \A j \in 1 .. i - 1 : d[j] = c[j]  BY <1>1, <1>2
  <2> QED  BY <1>2, <2>1 DEF Announced
<1>3. CASE i = Len(c) + 1
  <2>1. 1 .. i - 1 = 1 .. Len(c)  BY <1>1, <1>3
  <2> QED  BY <1>1, <2>1 DEF Carries
<1> QED  BY <1>1, <1>2, <1>3

-----------------------------------------------------------------------------
(* Sides and tunnels.                                                      *)

LEMMA SideFacts ==
    ASSUME NEW p \in Sides
    PROVE  /\ Other(p) \in Sides /\ Other(p) # p /\ Other(Other(p)) = p
           /\ \A q \in Sides : q = p \/ q = Other(p)
  BY DEF Sides, Other

LEMMA PairFacts ==
    ASSUME NEW p \in Sides, NEW id \in Ids
    PROVE  <<p, id>> \in Tunnels /\ <<p, id>>[1] = p /\ <<p, id>>[2] = id
  BY DEF Tunnels

LEMMA TunnelFacts ==
    ASSUME NEW t \in Tunnels
    PROVE  /\ t[1] \in Sides /\ t[2] \in Ids /\ t = <<t[1], t[2]>>
           /\ Far(t) = Other(t[1]) /\ Far(t) \in Sides /\ Far(t) # t[1]
           /\ Other(Far(t)) = t[1]
           /\ Twin(t) \in Tunnels /\ Twin(t)[1] = Far(t) /\ Twin(t)[2] = t[2]
           /\ Far(Twin(t)) = t[1] /\ Twin(Twin(t)) = t
<1>1. t[1] \in Sides /\ t[2] \in Ids /\ t = <<t[1], t[2]>>
  BY DEF Tunnels
<1>2. /\ Far(t) = Other(t[1]) /\ Far(t) \in Sides /\ Far(t) # t[1]
      /\ Other(Far(t)) = t[1]
  BY <1>1, SideFacts DEF Far
<1>3. Twin(t) \in Tunnels /\ Twin(t)[1] = Far(t) /\ Twin(t)[2] = t[2]
  BY <1>1, <1>2, PairFacts DEF Twin
<1>4. Far(Twin(t)) = t[1]
  BY <1>2, <1>3 DEF Far
<1>5. Twin(Twin(t)) = t
  BY <1>1, <1>3, <1>4 DEF Twin
<1> QED  BY <1>1, <1>2, <1>3, <1>4, <1>5

\* Two tunnels of one side and one id are the same.
LEMMA SameTunnel ==
    ASSUME NEW t \in Tunnels, NEW u \in Tunnels, t[2] = u[2],
           t[1] = u[1] \/ Far(t) = Far(u)
    PROVE  t = u
<1>1. t[1] = u[1]
  BY TunnelFacts
<1> QED  BY <1>1, TunnelFacts

\* What a packet handler finds.
TunnelKinds == {"connect", "connected", "error", "forward", "backward"}

LEMMA IncomingFacts ==
    ASSUME FrameIds, NEW p \in Sides, NEW K, Incoming(p, K)
    PROVE  /\ chan[Other(p)] \in Seq(Frames) /\ chan[Other(p)] # << >>
           /\ Head(chan[Other(p)]) \in Frames /\ Head(chan[Other(p)]).kind = K
           /\ K \in TunnelKinds =>
                /\ Head(chan[Other(p)]).id \in Ids
                /\ <<p, Head(chan[Other(p)]).id>> \in Tunnels
                /\ <<Other(p), Head(chan[Other(p)]).id>> \in Tunnels
<1>1. /\ chan[Other(p)] \in Seq(Frames) /\ chan[Other(p)] # << >>
      /\ Head(chan[Other(p)]).kind = K
  BY SideFacts DEF FrameIds, Incoming
<1>2. Head(chan[Other(p)]) \in Frames
  BY <1>1, TailFacts
<1>3. ASSUME K \in TunnelKinds PROVE Head(chan[Other(p)]).id \in Ids
  BY <1>1, <1>2, <1>3 DEF Frames, TunnelKinds
<1> QED  BY <1>1, <1>2, <1>3, PairFacts, SideFacts

-----------------------------------------------------------------------------
(* What the ways of sending and receiving do to the channels.              *)

\* The frames of this kind and id in q's channel stay, or q sends no more.
Calm(q, K, id) ==
    \/ Quiet(chan[q], chan'[q], K, id)
    \/ Cutoff(chan[q], chan'[q]) /\ ~Working(q)'

LEMMA FrameFacts ==
    ASSUME NEW K \in FrameKinds, NEW id \in Ids \cup {0}, NEW n \in Nat,
           K \in {"getFile", "file"} \/ id \in Ids
    PROVE  /\ Frame(K, id, n) \in Frames /\ Frame(K, id, n).n = n
           /\ Match(Frame(K, id, n), K, id)
           /\ \A L, i : Match(Frame(K, id, n), L, i) => L = K /\ i = id
  BY DEF Frame, Frames, Match

LEMMA AcceptCalm ==
    ASSUME FrameIds, NEW p \in Sides, NEW f \in Frames, Accept(p, f)
    PROVE  /\ FrameIds' /\ chan'[p] = Append(chan[p], f) /\ Working(p)
           /\ chan'[Other(p)] = chan[Other(p)]
           /\ \A q \in Sides : \A K, id :
                 ~(q = p /\ Match(f, K, id)) => Quiet(chan[q], chan'[q], K, id)
<1>1. /\ chan' = [chan EXCEPT ![p] = Append(@, f)] /\ Working(p)
      /\ chan \in [Sides -> Seq(Frames)]
  BY DEF Accept, FrameIds
<1>2. Append(chan[p], f) \in Seq(Frames)
  BY <1>1, AppendFacts
<1>3. FrameIds'
  BY <1>1, <1>2 DEF FrameIds
<1>4. \A q \in Sides : chan'[q] = IF q = p THEN Append(chan[q], f) ELSE chan[q]
  BY <1>1
<1> QED  BY <1>1, <1>3, <1>4, SideFacts DEF Quiet

LEMMA HandledCalm ==
    ASSUME FrameIds, NEW p \in Sides, Handled(p), chan[Other(p)] # << >>
    PROVE  /\ FrameIds' /\ chan'[Other(p)] = Tail(chan[Other(p)])
           /\ chan'[p] = chan[p]
           /\ \A q \in Sides : \A K, id :
                 ~(q = Other(p) /\ Match(Head(chan[q]), K, id)) =>
                    Quiet(chan[q], chan'[q], K, id)
<1>0. Other(p) \in Sides /\ Other(p) # p
  BY SideFacts
<1>1. chan' = [chan EXCEPT ![Other(p)] = Tail(@)] /\ chan \in [Sides -> Seq(Frames)]
  BY DEF Handled, FrameIds
<1>2. Tail(chan[Other(p)]) \in Seq(Frames)
  BY <1>0, <1>1, TailFacts
<1>3. FrameIds'
  BY <1>1, <1>2 DEF FrameIds
<1>4. \A q \in Sides : chan'[q] = IF q = Other(p) THEN Tail(chan[q]) ELSE chan[q]
  BY <1>1
<1> QED  BY <1>0, <1>3, <1>4 DEF Quiet

LEMMA HandledWithCalm ==
    ASSUME FrameIds, NEW p \in Sides, NEW t, NEW f \in Frames, HandledWith(p, t, f),
           chan[Other(p)] # << >>
    PROVE  /\ FrameIds' /\ chan'[Other(p)] = Tail(chan[Other(p)])
           /\ \A q \in Sides : \A K, id :
                 ~(q = Other(p) /\ Match(Head(chan[q]), K, id))
                 /\ ~(q = p /\ Match(f, K, id)) =>
                    Quiet(chan[q], chan'[q], K, id)
<1>0. Other(p) \in Sides /\ Other(p) # p
  BY SideFacts
<1>1. CASE Handled(p)
  BY <1>1, HandledCalm
<1>2. CASE chan' = [chan EXCEPT ![Other(p)] = Tail(@), ![p] = Append(@, f)]
  <2>1. chan \in [Sides -> Seq(Frames)]
    BY DEF FrameIds
  <2>2. Tail(chan[Other(p)]) \in Seq(Frames) /\ Append(chan[p], f) \in Seq(Frames)
    BY <1>0, <2>1, TailFacts, AppendFacts
  <2>3. FrameIds'
    BY <1>0, <1>2, <2>1, <2>2 DEF FrameIds
  <2>4. \A q \in Sides : chan'[q] = IF q = p THEN Append(chan[q], f)
                                    ELSE IF q = Other(p) THEN Tail(chan[q]) ELSE chan[q]
    BY <1>0, <1>2, <2>1
  <2> QED  BY <1>0, <2>3, <2>4 DEF Quiet
<1> QED  BY <1>1, <1>2 DEF HandledWith

LEMMA ShutCalm ==
    ASSUME TypeOK, FrameIds, NEW p \in Sides, Shut(p), UNCHANGED link
    PROVE  /\ FrameIds'
           /\ \A q \in Sides : \A K, id : Calm(q, K, id)
<1>1. PICK n \in 0 .. Len(chan[p]) : chan' = [chan EXCEPT ![p] = SubSeq(@, 1, n)]
  <2>1. chan[p] \in Seq(Frames)
    BY DEF FrameIds
  <2>2. Len(chan[p]) \in 0 .. Len(chan[p])
    BY <2>1
  <2> QED  BY <2>2 DEF Shut
<1>2. chan \in [Sides -> Seq(Frames)] /\ ~up'[p]
  BY DEF Shut, TypeOK, FrameIds
<1>3. SubSeq(chan[p], 1, n) \in Seq(Frames)
  BY <1>2, SubSeqFacts
<1>4. FrameIds'
  BY <1>1, <1>2, <1>3 DEF FrameIds
<1>5. \A q \in Sides : chan'[q] = IF q = p THEN SubSeq(chan[q], 1, n) ELSE chan[q]
  BY <1>1, <1>2
<1>6. Cutoff(chan[p], chan'[p]) /\ ~Working(p)'
  BY <1>2, <1>5 DEF Cutoff, Working
<1> QED  BY <1>4, <1>5, <1>6 DEF Quiet, Calm

LEMMA BreakCalm ==
    ASSUME FrameIds, LinkBreaks
    PROVE  /\ FrameIds'
           /\ \A q \in Sides : \A K, id : Calm(q, K, id)
<1>1. chan' = [p \in Sides |-> << >>] /\ ~link'
  BY DEF LinkBreaks
<1>2. FrameIds'
  <2>1. << >> \in Seq(Frames)  OBVIOUS
  <2> QED  BY <1>1, <2>1 DEF FrameIds
<1>3. ASSUME NEW q \in Sides PROVE Cutoff(chan[q], chan'[q]) /\ ~Working(q)'
  <2>1. chan[q] \in Seq(Frames) /\ chan'[q] = << >>
    BY <1>1 DEF FrameIds
  <2>2. 0 \in 0 .. Len(chan[q]) /\ SubSeq(chan[q], 1, 0) = << >>
    BY <2>1
  <2> QED  BY <1>1, <2>1, <2>2 DEF Cutoff, Working
<1> QED  BY <1>2, <1>3 DEF Calm

-----------------------------------------------------------------------------
(* What calm steps keep.                                                   *)

LEMMA CarriesCalm ==
    ASSUME FrameIds, NEW q \in Sides, NEW K, NEW id, Calm(q, K, id)
    PROVE  /\ Carries(chan'[q], K, id) => Carries(chan[q], K, id)
           /\ Working(q)' /\ Carries(chan[q], K, id) => Carries(chan'[q], K, id)
           /\ Single(chan[q], K, id) => Single(chan'[q], K, id)
<1>1. chan[q] \in Seq(Frames)
  BY DEF FrameIds
<1> QED  BY <1>1, CarriesQuiet, CarriesCutoff, SingleQuiet DEF Calm

LEMMA RunsCalm ==
    ASSUME FrameIds, NEW q \in Sides, NEW K, NEW id, NEW lo \in Nat, NEW hi \in Nat,
           Calm(q, K, id), Runs(chan[q], K, id, lo, hi)
    PROVE  /\ Runs(chan'[q], K, id, lo, hi)
           /\ Working(q)' /\ Full(chan[q], K, id, lo, hi) => Full(chan'[q], K, id, lo, hi)
<1>1. chan[q] \in Seq(Frames)
  BY DEF FrameIds
<1> QED  BY <1>1, RunsQuiet, RunsCutoff DEF Calm

LEMMA AnnouncedCalm ==
    ASSUME FrameIds, NEW q \in Sides, NEW id, Calm(q, "backward", id),
           Calm(q, "connected", id), Announced(chan[q], id)
    PROVE  Announced(chan'[q], id)
<1>1. chan[q] \in Seq(Frames)
  BY DEF FrameIds
<1> QED  BY <1>1, AnnouncedQuiet DEF Calm

-----------------------------------------------------------------------------
(* Types.                                                                  *)

TypeUser ==
    /\ user \in [Tunnels -> UserStates]
    /\ handler \in [Tunnels -> {"none", "ack", "connected"}]
    /\ recv \in [Tunnels -> Seq(Nat)] /\ got \in [Tunnels -> Seq(Nat)]
    /\ sent \in [Tunnels -> Nat] /\ cut \in [Tunnels -> BOOLEAN]

TypeForward ==
    /\ task \in [Tunnels -> {"none", "dialing", "starting", "done"}]
    /\ fwd \in [Tunnels -> BOOLEAN]
    /\ reading \in [Tunnels -> BOOLEAN] /\ writing \in [Tunnels -> BOOLEAN]
    /\ upSent \in [Tunnels -> Nat] /\ put \in [Tunnels -> Seq(Nat)]

TypeSession ==
    /\ up \in [Sides -> BOOLEAN] /\ reader \in [Sides -> BOOLEAN]
    /\ link \in BOOLEAN /\ dropped \in [Sides -> BOOLEAN]
    /\ allowed \subseteq Sides
    /\ file \in [Sides -> {"idle", "waiting", "done"}]
    /\ serving \in [Sides -> BOOLEAN]
    /\ lost \subseteq Tunnels /\ early \subseteq Tunnels
    /\ lostFile \subseteq Sides

LEMMA TypeParts == FrameIds => (TypeOK <=> TypeUser /\ TypeForward /\ TypeSession)
<1> SUFFICES ASSUME FrameIds
             PROVE  TypeOK <=> TypeUser /\ TypeForward /\ TypeSession
  OBVIOUS
<1> DEFINE S == [kind : FrameKinds, id : Ids \cup {0}, n : Nat]
<1>1. chan \in [Sides -> Seq(S)]
  <2>1. \A c \in Seq(Frames) : c \in Seq(S)
    <3>1. Frames \subseteq S
      BY DEF Frames
    <3> QED  BY <3>1, SeqMonotonic
  <2> QED  BY <2>1 DEF FrameIds
<1> QED  BY <1>1 DEF TypeOK, TypeUser, TypeForward, TypeSession

LEMMA UserTypes ==
    ASSUME TypeUser, NEW t \in Tunnels,
           \/ Open(t) \/ AckFails(t) \/ AckConnected(t) \/ Abandon(t)
           \/ Write(t) \/ Read(t) \/ ReadEnds(t) \/ Close(t) \/ Reap(t)
    PROVE  TypeUser'
<1> USE DEF TypeUser, UserStates
<1>1. CASE Open(t)  BY <1>1 DEF Open
<1>2. CASE AckFails(t)  BY <1>2 DEF AckFails
<1>3. CASE AckConnected(t)  BY <1>3 DEF AckConnected
<1>4. CASE Abandon(t)  BY <1>4 DEF Abandon
<1>5. CASE Write(t)  BY <1>5 DEF Write
<1>6. CASE Read(t)
  <2>1. PICK n \in 1 .. Len(recv[t]) :
           /\ got' = [got EXCEPT ![t] = @ \o SubSeq(recv[t], 1, n)]
           /\ recv' = [recv EXCEPT ![t] = SubSeq(@, n + 1, Len(@))]
    BY <1>6 DEF Read
  <2>2. recv[t] \in Seq(Nat) /\ got[t] \in Seq(Nat)
    OBVIOUS
  <2>3. SubSeq(recv[t], 1, n) \in Seq(Nat) /\ SubSeq(recv[t], n + 1, Len(recv[t])) \in Seq(Nat)
    BY <2>2
  <2>4. got[t] \o SubSeq(recv[t], 1, n) \in Seq(Nat)
    BY <2>2, <2>3
  <2>5. got' \in [Tunnels -> Seq(Nat)] /\ recv' \in [Tunnels -> Seq(Nat)]
    BY <2>1, <2>3, <2>4
  <2>6. UNCHANGED <<user, handler, cut, sent>>
    BY <1>6 DEF Read
  <2> QED  BY <2>5, <2>6
<1>7. CASE ReadEnds(t)  BY <1>7 DEF ReadEnds
<1>8. CASE Close(t)
  <2>1. /\ user' = [user EXCEPT ![t] = IF cut[t] THEN "closed" ELSE "closing"]
        /\ cut' = [cut EXCEPT ![t] = TRUE]
        /\ UNCHANGED <<handler, recv, sent, got>>
    BY <1>8 DEF Close
  <2> QED  BY <2>1
<1>9. CASE Reap(t)  BY <1>9 DEF Reap
<1> QED  BY <1>1, <1>2, <1>3, <1>4, <1>5, <1>6, <1>7, <1>8, <1>9

LEMMA ForwardTypes ==
    ASSUME TypeForward, NEW t \in Tunnels,
           DialOk(t) \/ DialFails(t) \/ Register(t) \/ UpstreamData(t) \/ UpstreamEnds(t)
    PROVE  TypeForward'
<1> USE DEF TypeForward
<1>1. CASE DialOk(t)  BY <1>1 DEF DialOk
<1>2. CASE DialFails(t)  BY <1>2 DEF DialFails
<1>3. CASE Register(t)  BY <1>3 DEF Register
<1>4. CASE UpstreamData(t)
  <2>1. upSent' = [upSent EXCEPT ![t] = @ + 1]
        /\ UNCHANGED <<task, fwd, reading, writing, put>>
    BY <1>4 DEF UpstreamData
  <2> QED  BY <2>1
<1>5. CASE UpstreamEnds(t)
  <2>1. /\ reading' = [reading EXCEPT ![t] = FALSE]
        /\ fwd' = [fwd EXCEPT ![t] = FALSE]
        /\ UNCHANGED <<task, upSent, put>>
    BY <1>5 DEF UpstreamEnds
  <2>2. PICK err \in BOOLEAN : writing' = [writing EXCEPT ![t] = @ /\ ~err]
    BY <1>5 DEF UpstreamEnds
  <2>3. writing' \in [Tunnels -> BOOLEAN]
    BY <2>2
  <2> QED  BY <2>1, <2>3
<1> QED  BY <1>1, <1>2, <1>3, <1>4, <1>5

\* Of the packet handlers.
LEMMA ArrivalTypes ==
    ASSUME FrameIds, TypeUser, TypeForward, NEW p \in Sides, Receive(p)
    PROVE  TypeUser' /\ TypeForward'
<1> DEFINE h == Head(chan[Other(p)])
           own == <<p, h.id>>
           theirs == <<Other(p), h.id>>
<1> USE DEF TypeUser, TypeForward
<1>1. CASE OnConnect(p)
  <2>1. UNCHANGED <<userVars, fwd, reading, writing, upSent, put>>
        /\ (task' = [task EXCEPT ![theirs] = "dialing"] \/ UNCHANGED task)
    BY <1>1 DEF OnConnect
  <2> HIDE DEF theirs
  <2> QED  BY <2>1 DEF userVars
<1>2. CASE OnConnected(p)
  <2>1. /\ handler' = [handler EXCEPT ![own] = IF @ = "ack" THEN "connected" ELSE @]
        /\ UNCHANGED <<user, recv, cut, sent, got, forwardVars>>
    BY <1>2 DEF OnConnected
  <2> HIDE DEF own
  <2> QED  BY <2>1 DEF forwardVars
<1>3. CASE OnError(p)
  <2>1. /\ handler' = [handler EXCEPT ![own] = "none"]
        /\ cut' = [cut EXCEPT ![own] = @ \/ handler[own] # "none"]
        /\ fwd' = [fwd EXCEPT ![theirs] = FALSE]
        /\ writing' = [writing EXCEPT ![theirs] = @ /\ ~fwd[theirs]]
        /\ UNCHANGED <<user, recv, sent, got, task, reading, upSent, put>>
    BY <1>3 DEF OnError
  <2> HIDE DEF own, theirs
  <2>2. handler' \in [Tunnels -> {"none", "ack", "connected"}]
    BY <2>1
  <2>3. cut' \in [Tunnels -> BOOLEAN] /\ writing' \in [Tunnels -> BOOLEAN]
    BY <2>1
  <2>4. fwd' \in [Tunnels -> BOOLEAN]
    BY <2>1
  <2> QED  BY <2>1, <2>2, <2>3, <2>4
<1>4. CASE OnForward(p)
  <2>1. h.n \in Nat
    BY <1>4, IncomingFacts DEF OnForward, Frames
  <2>2. /\ UNCHANGED <<userVars, task, reading, upSent>>
        /\ \/ UNCHANGED <<fwd, writing, put>>
           \/ /\ put' = [put EXCEPT ![theirs] = Append(@, h.n)]
              /\ UNCHANGED <<fwd, writing>>
           \/ /\ writing' = [writing EXCEPT ![theirs] = FALSE]
              /\ fwd' = [fwd EXCEPT ![theirs] = FALSE]
              /\ UNCHANGED put
    BY <1>4 DEF OnForward
  <2> HIDE DEF theirs, h
  <2>3. \A q \in Seq(Nat) : Append(q, h.n) \in Seq(Nat)
    BY <2>1
  <2>4. put' \in [Tunnels -> Seq(Nat)]
    <3>1. put' = [put EXCEPT ![theirs] = Append(@, h.n)] \/ put' = put
      BY <2>2
    <3>2. put \in [Tunnels -> Seq(Nat)]
      OBVIOUS
    <3>3. theirs \in Tunnels => Append(put[theirs], h.n) \in Seq(Nat)
      BY <2>3, <3>2
    <3> QED  BY <3>1, <3>2, <3>3
  <2> QED  BY <2>2, <2>4 DEF userVars
<1>5. CASE OnBackward(p)
  <2>1. h.n \in Nat
    BY <1>5, IncomingFacts DEF OnBackward, Frames
  <2>2. /\ recv' = [recv EXCEPT ![own] =
                       IF handler[own] = "connected" THEN Append(@, h.n) ELSE @]
        /\ UNCHANGED <<user, handler, cut, sent, got, forwardVars>>
    BY <1>5 DEF OnBackward
  <2> HIDE DEF own, h
  <2>3. \A q \in Seq(Nat) : Append(q, h.n) \in Seq(Nat)
    BY <2>1
  <2>4. recv' \in [Tunnels -> Seq(Nat)]
    BY <2>2, <2>3
  <2> QED  BY <2>2, <2>4 DEF forwardVars
<1>6. CASE OnGetFile(p)  BY <1>6 DEF OnGetFile, userVars, forwardVars
<1>7. CASE OnFile(p)  BY <1>7 DEF OnFile, userVars, forwardVars
<1> QED  BY <1>1, <1>2, <1>3, <1>4, <1>5, <1>6, <1>7 DEF Receive

\* What a step never takes back.
Lasting ==
    /\ lost \subseteq lost' /\ early \subseteq early'
    /\ \A q \in Sides : (Working(q)' => Working(q)) /\ (dropped[q] => dropped'[q])

LEMMA SendForLost ==
    ASSUME TypeSession, NEW t \in Tunnels, NEW p, NEW f,
           SendFor(t, p, f) \/ HandledWith(p, t, f)
    PROVE  lost' \subseteq Tunnels /\ lost \subseteq lost'
  BY DEF TypeSession, SendFor, HandledWith

LEMMA SessionTypes ==
    ASSUME TypeSession, FrameIds, Next
    PROVE  TypeSession' /\ Lasting
<1> DEFINE Goal == TypeSession' /\ Lasting
<1>0. ASSUME UNCHANGED sessionVars, UNCHANGED fileVars,
             lost' \subseteq Tunnels, lost \subseteq lost',
             early' \subseteq Tunnels, early \subseteq early'
      PROVE  Goal
  BY <1>0 DEF sessionVars, fileVars, TypeSession, Lasting, Working
<1>1. ASSUME UNCHANGED sessionVars, UNCHANGED <<lost, early>>,
             file' \in [Sides -> {"idle", "waiting", "done"}],
             serving' \in [Sides -> BOOLEAN], lostFile' \subseteq Sides
      PROVE  Goal
  BY <1>1 DEF sessionVars, TypeSession, Lasting, Working
<1> HIDE DEF Goal
<1>2. lost \subseteq Tunnels /\ early \subseteq Tunnels
  BY DEF TypeSession
<1>3. ASSUME NEW t \in Tunnels,
             \/ Open(t) \/ AckFails(t) \/ AckConnected(t) \/ Abandon(t)
             \/ Write(t) \/ Read(t) \/ ReadEnds(t) \/ Reap(t) \/ Register(t)
      PROVE  Goal
  BY <1>0, <1>2, <1>3 DEF Open, AckFails, AckConnected, Abandon, Write, Read,
                          ReadEnds, Reap, Register
<1>4. ASSUME NEW t \in Tunnels, Close(t) PROVE Goal
  <2>1. UNCHANGED sessionVars /\ UNCHANGED fileVars /\ UNCHANGED early
    BY <1>4 DEF Close
  <2>2. lost' \subseteq Tunnels /\ lost \subseteq lost'
    <3>1. UNCHANGED lost \/ SendFor(t, t[1], Frame("error", t[2], 0))
      BY <1>4 DEF Close
    <3> QED  BY <1>2, <3>1, SendForLost
  <2> QED  BY <1>0, <1>2, <2>1, <2>2
<1>5. ASSUME NEW t \in Tunnels, DialOk(t) PROVE Goal
  <2>1. UNCHANGED sessionVars /\ UNCHANGED fileVars /\ UNCHANGED early
        /\ SendFor(t, Far(t), Frame("connected", t[2], 0))
    BY <1>5 DEF DialOk
  <2> QED  BY <1>0, <1>2, <2>1, SendForLost
<1>6. ASSUME NEW t \in Tunnels, DialFails(t) PROVE Goal
  <2>1. UNCHANGED sessionVars /\ UNCHANGED fileVars /\ UNCHANGED early
        /\ SendFor(t, Far(t), Frame("error", t[2], 0))
    BY <1>6 DEF DialFails
  <2> QED  BY <1>0, <1>2, <2>1, SendForLost
<1>7. ASSUME NEW t \in Tunnels, UpstreamData(t) \/ UpstreamEnds(t) PROVE Goal
  <2>1. UNCHANGED sessionVars /\ UNCHANGED fileVars
    BY <1>7 DEF UpstreamData, UpstreamEnds
  <2>2. early' = early \/ early' = early \cup {t}
    BY <1>7 DEF UpstreamData, UpstreamEnds
  <2>3. \/ UNCHANGED lost
        \/ SendFor(t, Far(t), Frame("backward", t[2], upSent[t] + 1))
        \/ SendFor(t, Far(t), Frame("error", t[2], 0))
    BY <1>7 DEF UpstreamData, UpstreamEnds
  <2>4. lost' \subseteq Tunnels /\ lost \subseteq lost'
    BY <1>2, <2>3, SendForLost
  <2> QED  BY <1>0, <1>2, <2>1, <2>2, <2>4
<1>8. ASSUME NEW p \in Sides, OnConnect(p) PROVE Goal
  <2> DEFINE t == <<Other(p), Head(chan[Other(p)]).id>>
  <2>1. t \in Tunnels
    BY <1>8, IncomingFacts DEF OnConnect, TunnelKinds
  <2>2. /\ UNCHANGED sessionVars /\ UNCHANGED fileVars /\ UNCHANGED early
        /\ UNCHANGED lost \/ HandledWith(p, t, Frame("error", Head(chan[Other(p)]).id, 0))
    BY <1>8 DEF OnConnect
  <2> HIDE DEF t
  <2>3. lost' \subseteq Tunnels /\ lost \subseteq lost'
    BY <1>2, <2>1, <2>2, SendForLost
  <2> QED  BY <1>0, <1>2, <2>2, <2>3
<1>9. ASSUME NEW p \in Sides, OnConnected(p) \/ OnBackward(p) PROVE Goal
  BY <1>0, <1>2, <1>9 DEF OnConnected, OnBackward
<1>10. ASSUME NEW p \in Sides, OnError(p) PROVE Goal
  <2> DEFINE t == <<Other(p), Head(chan[Other(p)]).id>>
  <2>1. t \in Tunnels
    BY <1>10, IncomingFacts DEF OnError, TunnelKinds
  <2>2. /\ UNCHANGED sessionVars /\ UNCHANGED fileVars /\ UNCHANGED lost
        /\ early' = early \/ early' = early \cup {t}
    BY <1>10 DEF OnError
  <2> HIDE DEF t
  <2> QED  BY <1>0, <1>2, <2>1, <2>2
<1>11. ASSUME NEW p \in Sides, OnForward(p) PROVE Goal
  <2> DEFINE t == <<Other(p), Head(chan[Other(p)]).id>>
  <2>1. t \in Tunnels
    BY <1>11, IncomingFacts DEF OnForward, TunnelKinds
  <2>2. /\ UNCHANGED sessionVars /\ UNCHANGED fileVars
        /\ UNCHANGED lost \/ HandledWith(p, t, Frame("error", Head(chan[Other(p)]).id, 0))
        /\ early' = early \/ early' = early \cup {t}
    BY <1>11 DEF OnForward
  <2> HIDE DEF t
  <2>3. lost' \subseteq Tunnels /\ lost \subseteq lost'
    BY <1>2, <2>1, <2>2, SendForLost
  <2> QED  BY <1>0, <1>2, <2>1, <2>2, <2>3
<1>12. ASSUME NEW p \in Sides,
              OnGetFile(p) \/ OnFile(p) \/ RequestFile(p) \/ ServeFile(p)
       PROVE Goal
  <2>1. UNCHANGED sessionVars /\ UNCHANGED <<lost, early>>
    BY <1>12 DEF OnGetFile, OnFile, RequestFile, ServeFile
  <2>2. file' \in [Sides -> {"idle", "waiting", "done"}] /\ serving' \in [Sides -> BOOLEAN]
    BY <1>12 DEF TypeSession, OnGetFile, OnFile, RequestFile, ServeFile
  <2>3. lostFile' \subseteq Sides
    BY <1>12, SideFacts DEF TypeSession, OnGetFile, OnFile, RequestFile, ServeFile, SendFile
  <2> QED  BY <1>1, <2>1, <2>2, <2>3
<1>13. ASSUME NEW p \in Sides, ReaderEnds(p) PROVE Goal
  BY <1>13 DEF Goal, TypeSession, Lasting, Working, ReaderEnds, Shut, fileVars
<1>14. ASSUME NEW p \in Sides, DropConnection(p) PROVE Goal
  BY <1>14 DEF Goal, TypeSession, Lasting, Working, DropConnection, fileVars
<1>15. ASSUME LinkBreaks PROVE Goal
  BY <1>15 DEF Goal, TypeSession, Lasting, Working, LinkBreaks, fileVars
<1>16. ASSUME PingTimeout PROVE Goal
  BY <1>16 DEF Goal, TypeSession, Lasting, Working, PingTimeout, Shut, fileVars
<1> QED
  BY <1>3, <1>4, <1>5, <1>6, <1>7, <1>8, <1>9, <1>10, <1>11, <1>12, <1>13, <1>14,
     <1>15, <1>16
     DEF Next, Dial, Receive, Goal

-----------------------------------------------------------------------------
(* Who changes what.                                                       *)

\* A frame of tunnel t is handled, at either end.
ConnectArrives(t) == OnConnect(Far(t)) /\ Head(chan[t[1]]).id = t[2]
ForwardArrives(t) == OnForward(Far(t)) /\ Head(chan[t[1]]).id = t[2]
ConnectedArrives(t) == OnConnected(t[1]) /\ Head(chan[Far(t)]).id = t[2]
BackwardArrives(t) == OnBackward(t[1]) /\ Head(chan[Far(t)]).id = t[2]
ErrorAtUser(t) == OnError(t[1]) /\ Head(chan[Far(t)]).id = t[2]

\* The steps that send a frame of this kind and id into the channel of q.
Sends(t, q, K, id) ==
    /\ id = t[2]
    /\ \/ q = t[1] /\ K = "connect" /\ Open(t)
       \/ q = t[1] /\ K = "forward" /\ Write(t)
       \/ q = t[1] /\ K = "error" /\ Close(t)
       \/ q = Far(t) /\ K = "connected" /\ DialOk(t)
       \/ q = Far(t) /\ K = "backward" /\ UpstreamData(t)
       \/ q = Far(t) /\ K = "error" /\
             \/ DialFails(t) \/ UpstreamEnds(t)
             \/ ConnectArrives(t) \/ ForwardArrives(t)

\* The step that takes such a frame out of it.
Takes(q, K, id) ==
    /\ Receive(Other(q)) /\ Incoming(Other(q), K)
    /\ chan[q] # << >> /\ Match(Head(chan[q]), K, id)

\* Frames on their way stay there but for those who send and take them.
LEMMA SendForCalm ==
    ASSUME FrameIds, NEW t, NEW p \in Sides, NEW f \in Frames, SendFor(t, p, f)
    PROVE  /\ FrameIds'
           /\ \A q \in Sides : \A K, id :
                 ~(q = p /\ Match(f, K, id)) => Quiet(chan[q], chan'[q], K, id)
<1>1. CASE Accept(p, f)  BY <1>1, AcceptCalm
<1>2. CASE UNCHANGED chan  BY <1>2 DEF FrameIds, Quiet
<1> QED  BY <1>1, <1>2 DEF SendFor, Refuse

LEMMA KindsFacts ==
    /\ TunnelKinds \subseteq FrameKinds /\ "getFile" \in FrameKinds /\ "file" \in FrameKinds
    /\ "getFile" \notin TunnelKinds /\ "file" \notin TunnelKinds
  BY DEF TunnelKinds, FrameKinds

LEMMA ChanEffect ==
    ASSUME TypeOK, FrameIds, Next
    PROVE  /\ FrameIds'
           /\ \A q \in Sides : \A K \in TunnelKinds : \A id :
                 \/ Calm(q, K, id) \/ Takes(q, K, id)
                 \/ \E t \in Tunnels : Sends(t, q, K, id)
<1> DEFINE Goal ==
        /\ FrameIds'
        /\ \A q \in Sides : \A K \in TunnelKinds : \A id :
              \/ Calm(q, K, id) \/ Takes(q, K, id)
              \/ \E t \in Tunnels : Sends(t, q, K, id)
<1>0. ASSUME UNCHANGED chan PROVE Goal
  BY <1>0 DEF Calm, Quiet, FrameIds
<1>1. ASSUME NEW t \in Tunnels, Open(t) PROVE Goal
  <2>1. UNCHANGED chan \/ Accept(t[1], Frame("connect", t[2], 0))
    BY <1>1 DEF Open, Refuse
  <2>2. CASE Accept(t[1], Frame("connect", t[2], 0))
    <3>1. /\ Frame("connect", t[2], 0) \in Frames
          /\ \A L, i : Match(Frame("connect", t[2], 0), L, i) => L = "connect" /\ i = t[2]
      BY TunnelFacts, FrameFacts, KindsFacts DEF TunnelKinds
    <3> QED  BY <1>1, <2>2, <3>1, AcceptCalm, TunnelFacts DEF Calm, Sends
  <2> QED  BY <1>0, <2>1, <2>2
<1>2. ASSUME NEW t \in Tunnels, Write(t) PROVE Goal
  <2>1. Accept(t[1], Frame("forward", t[2], sent[t] + 1))
    BY <1>2 DEF Write
  <2>2. /\ Frame("forward", t[2], sent[t] + 1) \in Frames
        /\ \A L, i : Match(Frame("forward", t[2], sent[t] + 1), L, i) =>
              L = "forward" /\ i = t[2]
    <3>1. sent[t] + 1 \in Nat
      BY DEF TypeOK
    <3> QED  BY <3>1, TunnelFacts, FrameFacts, KindsFacts DEF TunnelKinds
  <2> QED  BY <1>2, <2>1, <2>2, AcceptCalm, TunnelFacts DEF Calm, Sends
<1>3. ASSUME NEW t \in Tunnels, Close(t) PROVE Goal
  <2>1. UNCHANGED chan \/ SendFor(t, t[1], Frame("error", t[2], 0))
    BY <1>3 DEF Close
  <2>2. CASE SendFor(t, t[1], Frame("error", t[2], 0))
    <3>1. /\ Frame("error", t[2], 0) \in Frames
          /\ \A L, i : Match(Frame("error", t[2], 0), L, i) => L = "error" /\ i = t[2]
      BY TunnelFacts, FrameFacts, KindsFacts DEF TunnelKinds
    <3> QED  BY <1>3, <2>2, <3>1, SendForCalm, TunnelFacts DEF Calm, Sends
  <2> QED  BY <1>0, <2>1, <2>2
<1>4. ASSUME NEW t \in Tunnels, DialOk(t) PROVE Goal
  <2>1. SendFor(t, Far(t), Frame("connected", t[2], 0))
    BY <1>4 DEF DialOk
  <2>2. /\ Frame("connected", t[2], 0) \in Frames
        /\ \A L, i : Match(Frame("connected", t[2], 0), L, i) => L = "connected" /\ i = t[2]
    BY TunnelFacts, FrameFacts, KindsFacts DEF TunnelKinds
  <2> QED  BY <1>4, <2>1, <2>2, SendForCalm, TunnelFacts DEF Calm, Sends
<1>5. ASSUME NEW t \in Tunnels, UpstreamData(t) PROVE Goal
  <2>1. UNCHANGED chan \/ SendFor(t, Far(t), Frame("backward", t[2], upSent[t] + 1))
    BY <1>5 DEF UpstreamData
  <2>2. CASE SendFor(t, Far(t), Frame("backward", t[2], upSent[t] + 1))
    <3>1. /\ Frame("backward", t[2], upSent[t] + 1) \in Frames
          /\ \A L, i : Match(Frame("backward", t[2], upSent[t] + 1), L, i) =>
                L = "backward" /\ i = t[2]
      <4>1. upSent[t] + 1 \in Nat
        BY DEF TypeOK
      <4> QED  BY <4>1, TunnelFacts, FrameFacts, KindsFacts DEF TunnelKinds
    <3> QED  BY <1>5, <2>2, <3>1, SendForCalm, TunnelFacts DEF Calm, Sends
  <2> QED  BY <1>0, <2>1, <2>2
<1>6. ASSUME NEW t \in Tunnels, DialFails(t) \/ UpstreamEnds(t) PROVE Goal
  <2>1. UNCHANGED chan \/ SendFor(t, Far(t), Frame("error", t[2], 0))
    BY <1>6 DEF DialFails, UpstreamEnds
  <2>2. CASE SendFor(t, Far(t), Frame("error", t[2], 0))
    <3>1. /\ Frame("error", t[2], 0) \in Frames
          /\ \A L, i : Match(Frame("error", t[2], 0), L, i) => L = "error" /\ i = t[2]
      BY TunnelFacts, FrameFacts, KindsFacts DEF TunnelKinds
    <3> QED  BY <1>6, <2>2, <3>1, SendForCalm, TunnelFacts DEF Calm, Sends
  <2> QED  BY <1>0, <2>1, <2>2
<1>7. ASSUME NEW p \in Sides, NEW L \in FrameKinds, Receive(p), Incoming(p, L),
             Handled(p)
      PROVE  Goal
  <2>1. /\ Other(p) \in Sides /\ Other(Other(p)) = p /\ chan[Other(p)] # << >>
        /\ Head(chan[Other(p)]).kind = L
    BY <1>7, SideFacts, IncomingFacts
  <2>2. \A K \in TunnelKinds : \A id :
           Match(Head(chan[Other(p)]), K, id) => Takes(Other(p), K, id)
    BY <1>7, <2>1 DEF Takes, Match
  <2> QED  BY <1>7, <2>1, <2>2, HandledCalm DEF Calm
<1>8. ASSUME NEW p \in Sides, NEW L \in FrameKinds, Receive(p), Incoming(p, L),
             NEW t \in Tunnels, p = Far(t), ConnectArrives(t) \/ ForwardArrives(t),
             HandledWith(p, t, Frame("error", t[2], 0))
      PROVE  Goal
  <2>1. /\ Other(p) \in Sides /\ Other(Other(p)) = p /\ chan[Other(p)] # << >>
        /\ Head(chan[Other(p)]).kind = L
    BY <1>8, SideFacts, IncomingFacts
  <2>2. \A K \in TunnelKinds : \A id :
           Match(Head(chan[Other(p)]), K, id) => Takes(Other(p), K, id)
    BY <1>8, <2>1 DEF Takes, Match
  <2>3. /\ Frame("error", t[2], 0) \in Frames
        /\ \A M, i : Match(Frame("error", t[2], 0), M, i) => M = "error" /\ i = t[2]
    BY TunnelFacts, FrameFacts, KindsFacts DEF TunnelKinds
  <2>4. \A K, id : Match(Frame("error", t[2], 0), K, id) => Sends(t, p, K, id)
    BY <1>8, <2>3 DEF Sends
  <2>5. /\ FrameIds'
        /\ \A q \in Sides : \A K, id :
              ~(q = Other(p) /\ Match(Head(chan[q]), K, id))
              /\ ~(q = p /\ Match(Frame("error", t[2], 0), K, id)) =>
                 Quiet(chan[q], chan'[q], K, id)
    BY <1>8, <2>1, <2>3, HandledWithCalm
  <2>6. ASSUME NEW q \in Sides, NEW K \in TunnelKinds, NEW id
        PROVE  \/ Calm(q, K, id) \/ Takes(q, K, id)
               \/ Sends(t, q, K, id)
    <3>1. CASE q = Other(p) /\ Match(Head(chan[q]), K, id)
      BY <2>2, <3>1
    <3>2. CASE q = p /\ Match(Frame("error", t[2], 0), K, id)
      BY <2>4, <3>2
    <3> QED  BY <2>5, <3>1, <3>2 DEF Calm
  <2> QED  BY <2>5, <2>6
<1> HIDE DEF Goal
<1>9. ASSUME NEW p \in Sides, OnConnect(p) PROVE Goal
  <2> DEFINE t == <<Other(p), Head(chan[Other(p)]).id>>
  <2>1. t \in Tunnels /\ t[1] = Other(p) /\ t[2] = Head(chan[Other(p)]).id
    BY <1>9, IncomingFacts, PairFacts, SideFacts DEF OnConnect, TunnelKinds
  <2>2. Far(t) = p
    BY <2>1, SideFacts DEF Far
  <2>3. /\ Receive(p) /\ Incoming(p, "connect") /\ "connect" \in FrameKinds
        /\ ConnectArrives(t)
    BY <1>9, <2>1, <2>2, KindsFacts DEF OnConnect, Receive, ConnectArrives, TunnelKinds
  <2>4. Handled(p) \/ HandledWith(p, t, Frame("error", t[2], 0))
    BY <1>9, <2>1 DEF OnConnect
  <2> HIDE DEF t
  <2> QED  BY <1>7, <1>8, <2>1, <2>2, <2>3, <2>4
<1>10. ASSUME NEW p \in Sides, OnForward(p) PROVE Goal
  <2> DEFINE t == <<Other(p), Head(chan[Other(p)]).id>>
  <2>1. t \in Tunnels /\ t[1] = Other(p) /\ t[2] = Head(chan[Other(p)]).id
    BY <1>10, IncomingFacts, PairFacts, SideFacts DEF OnForward, TunnelKinds
  <2>2. Far(t) = p
    BY <2>1, SideFacts DEF Far
  <2>3. /\ Receive(p) /\ Incoming(p, "forward") /\ "forward" \in FrameKinds
        /\ ForwardArrives(t)
    BY <1>10, <2>1, <2>2, KindsFacts DEF OnForward, Receive, ForwardArrives, TunnelKinds
  <2>4. Handled(p) \/ HandledWith(p, t, Frame("error", t[2], 0))
    BY <1>10, <2>1 DEF OnForward
  <2> HIDE DEF t
  <2> QED  BY <1>7, <1>8, <2>1, <2>2, <2>3, <2>4
<1>11. ASSUME NEW p \in Sides,
              \/ OnConnected(p) \/ OnError(p) \/ OnBackward(p)
              \/ OnGetFile(p) \/ OnFile(p)
       PROVE  Goal
  <2>1. /\ Receive(p) /\ Handled(p)
        /\ \E L \in FrameKinds : Incoming(p, L)
    BY <1>11, KindsFacts
       DEF OnConnected, OnError, OnBackward, OnGetFile, OnFile, Receive, TunnelKinds
  <2> QED  BY <1>7, <2>1
<1>12. ASSUME NEW p \in Sides, NEW q \in Sides, NEW L \in {"getFile", "file"},
              SendFile(q, p, Frame(L, 0, 0))
       PROVE  Goal
  <2>1. /\ Frame(L, 0, 0) \in Frames
        /\ \A M, i : Match(Frame(L, 0, 0), M, i) => M = L
    BY FrameFacts, KindsFacts
  <2>2. Accept(p, Frame(L, 0, 0)) \/ UNCHANGED chan
    BY <1>12 DEF SendFile, Refuse
  <2>3. CASE Accept(p, Frame(L, 0, 0))
    BY <2>1, <2>3, AcceptCalm, KindsFacts DEF Calm, Goal
  <2> QED  BY <1>0, <2>2, <2>3
<1>13. ASSUME NEW p \in Sides, RequestFile(p) \/ ServeFile(p) PROVE Goal
  BY <1>12, <1>13, SideFacts DEF RequestFile, ServeFile
<1>14. ASSUME NEW p \in Sides, ReaderEnds(p) PROVE Goal
  BY <1>14, ShutCalm DEF ReaderEnds, Goal
<1>15. ASSUME PingTimeout PROVE Goal
  BY <1>15, ShutCalm DEF PingTimeout, Sides, Goal
<1>16. ASSUME LinkBreaks PROVE Goal
  BY <1>16, BreakCalm DEF Goal
<1>17. ASSUME NEW t \in Tunnels,
              \/ AckFails(t) \/ AckConnected(t) \/ Abandon(t)
              \/ Read(t) \/ ReadEnds(t) \/ Reap(t) \/ Register(t)
       PROVE  Goal
  BY <1>0, <1>17 DEF AckFails, AckConnected, Abandon, Read, ReadEnds, Reap, Register
<1>18. ASSUME NEW p \in Sides, DropConnection(p) PROVE Goal
  BY <1>0, <1>18 DEF DropConnection
<1> QED
  BY <1>1, <1>2, <1>3, <1>4, <1>5, <1>6, <1>9, <1>10, <1>11, <1>13, <1>14, <1>15,
     <1>16, <1>17, <1>18
     DEF Next, Dial, Receive, Goal

\* The handler of a frame is the one of its kind.
LEMMA TakesKind ==
    ASSUME NEW q \in Sides, NEW K, NEW id, Takes(q, K, id)
    PROVE  /\ chan[q] # << >> /\ Match(Head(chan[q]), K, id) /\ Head(chan[q]).id = id
           /\ K = "connect" => OnConnect(Other(q))
           /\ K = "connected" => OnConnected(Other(q))
           /\ K = "error" => OnError(Other(q))
           /\ K = "forward" => OnForward(Other(q))
           /\ K = "backward" => OnBackward(Other(q))
<1>1. /\ chan[q] # << >> /\ Match(Head(chan[q]), K, id) /\ Head(chan[q]).id = id
      /\ Head(chan[q]).kind = K
  BY DEF Takes, Match
<1>2. Receive(Other(q)) /\ Other(Other(q)) = q
  BY SideFacts DEF Takes
<1> QED
  BY <1>1, <1>2
     DEF Receive, Incoming, OnConnect, OnConnected, OnError, OnForward, OnBackward,
         OnGetFile, OnFile

\* Who sends and who takes the frames of tunnel u.
LEMMA FrameEffect ==
    ASSUME TypeOK, FrameIds, Next, NEW u \in Tunnels
    PROVE  /\ Calm(u[1], "connect", u[2]) \/ Open(u) \/ ConnectArrives(u)
           /\ Calm(u[1], "forward", u[2]) \/ Write(u) \/ ForwardArrives(u)
           /\ Calm(Far(u), "connected", u[2]) \/ DialOk(u) \/ ConnectedArrives(u)
           /\ Calm(Far(u), "backward", u[2]) \/ UpstreamData(u) \/ BackwardArrives(u)
           /\ \/ Calm(Far(u), "error", u[2]) \/ ErrorAtUser(u)
              \/ DialFails(u) \/ UpstreamEnds(u)
              \/ ConnectArrives(u) \/ ForwardArrives(u) \/ Close(Twin(u))
<1>1. /\ u[1] \in Sides /\ Far(u) \in Sides /\ Other(u[1]) = Far(u)
      /\ Other(Far(u)) = u[1] /\ Far(u) # u[1]
  BY TunnelFacts
<1>2. \A q \in Sides : \A K \in TunnelKinds : \A id :
         \/ Calm(q, K, id) \/ Takes(q, K, id)
         \/ \E t \in Tunnels : Sends(t, q, K, id)
  BY ChanEffect
<1>3. ASSUME NEW t \in Tunnels, t[2] = u[2], t[1] = u[1] \/ Far(t) = Far(u) PROVE t = u
  BY <1>3, SameTunnel
<1>4. ASSUME NEW t \in Tunnels, t[2] = u[2], t[1] = Far(u) PROVE t = Twin(u)
  <2>1. Twin(u) \in Tunnels /\ Twin(u)[1] = Far(u) /\ Twin(u)[2] = u[2]
    BY TunnelFacts
  <2> QED  BY <1>4, <2>1, SameTunnel
<1>5. Calm(u[1], "connect", u[2]) \/ Open(u) \/ ConnectArrives(u)
  <2>1. CASE Takes(u[1], "connect", u[2])
    BY <1>1, <2>1, TakesKind DEF ConnectArrives
  <2>2. ASSUME NEW t \in Tunnels, Sends(t, u[1], "connect", u[2]) PROVE Open(u)
    BY <1>3, <2>2 DEF Sends
  <2>3. "connect" \in TunnelKinds  BY DEF TunnelKinds
  <2> QED  BY <1>1, <1>2, <2>1, <2>2, <2>3
<1>6. Calm(u[1], "forward", u[2]) \/ Write(u) \/ ForwardArrives(u)
  <2>1. CASE Takes(u[1], "forward", u[2])
    BY <1>1, <2>1, TakesKind DEF ForwardArrives
  <2>2. ASSUME NEW t \in Tunnels, Sends(t, u[1], "forward", u[2]) PROVE Write(u)
    BY <1>3, <2>2 DEF Sends
  <2>3. "forward" \in TunnelKinds  BY DEF TunnelKinds
  <2> QED  BY <1>1, <1>2, <2>1, <2>2, <2>3
<1>7. Calm(Far(u), "connected", u[2]) \/ DialOk(u) \/ ConnectedArrives(u)
  <2>1. CASE Takes(Far(u), "connected", u[2])
    BY <1>1, <2>1, TakesKind DEF ConnectedArrives
  <2>2. ASSUME NEW t \in Tunnels, Sends(t, Far(u), "connected", u[2]) PROVE DialOk(u)
    BY <1>3, <2>2 DEF Sends
  <2>3. "connected" \in TunnelKinds  BY DEF TunnelKinds
  <2> QED  BY <1>1, <1>2, <2>1, <2>2, <2>3
<1>8. Calm(Far(u), "backward", u[2]) \/ UpstreamData(u) \/ BackwardArrives(u)
  <2>1. CASE Takes(Far(u), "backward", u[2])
    BY <1>1, <2>1, TakesKind DEF BackwardArrives
  <2>2. ASSUME NEW t \in Tunnels, Sends(t, Far(u), "backward", u[2]) PROVE UpstreamData(u)
    BY <1>3, <2>2 DEF Sends
  <2>3. "backward" \in TunnelKinds  BY DEF TunnelKinds
  <2> QED  BY <1>1, <1>2, <2>1, <2>2, <2>3
<1>9. \/ Calm(Far(u), "error", u[2]) \/ ErrorAtUser(u)
      \/ DialFails(u) \/ UpstreamEnds(u)
      \/ ConnectArrives(u) \/ ForwardArrives(u) \/ Close(Twin(u))
  <2>1. CASE Takes(Far(u), "error", u[2])
    BY <1>1, <2>1, TakesKind DEF ErrorAtUser
  <2>2. ASSUME NEW t \in Tunnels, Sends(t, Far(u), "error", u[2])
        PROVE  \/ DialFails(u) \/ UpstreamEnds(u)
               \/ ConnectArrives(u) \/ ForwardArrives(u) \/ Close(Twin(u))
    BY <1>3, <1>4, <2>2 DEF Sends
  <2>3. "error" \in TunnelKinds  BY DEF TunnelKinds
  <2> QED  BY <1>1, <1>2, <2>1, <2>2, <2>3
<1> QED  BY <1>5, <1>6, <1>7, <1>8, <1>9

\* The frame p handles is of tunnel u.
LEMMA OwnFrame ==
    ASSUME NEW p \in Sides, NEW id, NEW u \in Tunnels, u = <<p, id>>
    PROVE  u[1] = p /\ u[2] = id /\ Far(u) = Other(p)
  BY DEF Far, Tunnels

LEMMA UserEffect ==
    ASSUME TypeUser, FrameIds, Next, NEW u \in Tunnels
    PROVE  /\ \/ user'[u] = user[u] \/ Open(u) \/ AckFails(u) \/ AckConnected(u)
              \/ Abandon(u) \/ ReadEnds(u) \/ Close(u) \/ Reap(u)
           /\ handler'[u] \in {handler[u], "none"} \/ Open(u) \/ ConnectedArrives(u)
           /\ cut'[u] = cut[u] \/ Close(u) \/ ErrorAtUser(u) \/ DropConnection(u[1])
           /\ sent'[u] = sent[u] \/ Write(u)
           /\ \/ got'[u] = got[u] /\ recv'[u] = recv[u]
              \/ Read(u) \/ BackwardArrives(u)
<1> DEFINE Goal ==
       /\ \/ user'[u] = user[u] \/ Open(u) \/ AckFails(u) \/ AckConnected(u)
          \/ Abandon(u) \/ ReadEnds(u) \/ Close(u) \/ Reap(u)
       /\ handler'[u] \in {handler[u], "none"} \/ Open(u) \/ ConnectedArrives(u)
       /\ cut'[u] = cut[u] \/ Close(u) \/ ErrorAtUser(u) \/ DropConnection(u[1])
       /\ sent'[u] = sent[u] \/ Write(u)
       /\ \/ got'[u] = got[u] /\ recv'[u] = recv[u]
          \/ Read(u) \/ BackwardArrives(u)
<1>0. ASSUME UNCHANGED userVars PROVE Goal
  BY <1>0 DEF userVars
<1>1. ASSUME NEW t \in Tunnels, Open(t) PROVE Goal
  BY <1>1 DEF Open, TypeUser
<1>2. ASSUME NEW t \in Tunnels, AckFails(t) PROVE Goal
  BY <1>2 DEF AckFails, TypeUser
<1>3. ASSUME NEW t \in Tunnels, AckConnected(t) PROVE Goal
  BY <1>3 DEF AckConnected, TypeUser
<1>4. ASSUME NEW t \in Tunnels, Abandon(t) PROVE Goal
  BY <1>4 DEF Abandon, TypeUser
<1>5. ASSUME NEW t \in Tunnels, Write(t) PROVE Goal
  BY <1>5 DEF Write, TypeUser
<1>6. ASSUME NEW t \in Tunnels, Read(t) PROVE Goal
  <2>1. UNCHANGED <<user, handler, cut, sent>>
    BY <1>6 DEF Read
  <2>2. CASE t = u
    BY <1>6, <2>1, <2>2
  <2>3. CASE t # u
    <3>1. got'[u] = got[u] /\ recv'[u] = recv[u]
      BY <1>6, <2>3 DEF Read, TypeUser
    <3> QED  BY <2>1, <3>1
  <2> QED  BY <2>2, <2>3
<1>7. ASSUME NEW t \in Tunnels, ReadEnds(t) PROVE Goal
  BY <1>7 DEF ReadEnds, TypeUser
<1>8. ASSUME NEW t \in Tunnels, Close(t) PROVE Goal
  <2>1. UNCHANGED <<handler, recv, sent, got>>
    BY <1>8 DEF Close
  <2>2. t # u => user'[u] = user[u] /\ cut'[u] = cut[u]
    BY <1>8 DEF Close, TypeUser
  <2> QED  BY <1>8, <2>1, <2>2
<1>9. ASSUME NEW t \in Tunnels, Reap(t) PROVE Goal
  BY <1>9 DEF Reap, TypeUser
<1>10. ASSUME NEW p \in Sides, OnConnected(p) PROVE Goal
  <2> DEFINE t == <<p, Head(chan[Other(p)]).id>>
  <2>1. /\ handler' = [handler EXCEPT ![t] = IF @ = "ack" THEN "connected" ELSE @]
        /\ UNCHANGED <<user, recv, cut, sent, got>>
    BY <1>10 DEF OnConnected
  <2>2. t = u => ConnectedArrives(u)
    BY <1>10, OwnFrame DEF ConnectedArrives
  <2> HIDE DEF t
  <2> QED  BY <2>1, <2>2 DEF TypeUser
<1>11. ASSUME NEW p \in Sides, OnError(p) PROVE Goal
  <2> DEFINE t == <<p, Head(chan[Other(p)]).id>>
  <2>1. /\ handler' = [handler EXCEPT ![t] = "none"]
        /\ cut' = [cut EXCEPT ![t] = @ \/ handler[t] # "none"]
        /\ UNCHANGED <<user, recv, sent, got>>
    BY <1>11 DEF OnError
  <2>2. t = u => ErrorAtUser(u)
    BY <1>11, OwnFrame DEF ErrorAtUser
  <2> HIDE DEF t
  <2> QED  BY <2>1, <2>2 DEF TypeUser
<1>12. ASSUME NEW p \in Sides, OnBackward(p) PROVE Goal
  <2> DEFINE h == Head(chan[Other(p)])
             t == <<p, h.id>>
  <2>1. /\ recv' = [recv EXCEPT ![t] =
                       IF handler[t] = "connected" THEN Append(@, h.n) ELSE @]
        /\ UNCHANGED <<user, handler, cut, sent, got>>
    BY <1>12 DEF OnBackward
  <2>2. t = u => BackwardArrives(u)
    BY <1>12, OwnFrame DEF BackwardArrives
  <2> HIDE DEF t, h
  <2> QED  BY <2>1, <2>2 DEF TypeUser
<1>13. ASSUME NEW p \in Sides, DropConnection(p) PROVE Goal
  <2>1. /\ cut' = [t \in Tunnels |-> cut[t] \/ (t[1] = p /\ handler[t] # "none")]
        /\ handler' = [t \in Tunnels |-> IF t[1] = p THEN "none" ELSE handler[t]]
        /\ UNCHANGED <<user, recv, sent, got>>
    BY <1>13 DEF DropConnection
  <2>2. CASE u[1] = p
    BY <1>13, <2>1, <2>2
  <2>3. CASE u[1] # p
    <3>1. cut'[u] = cut[u]
      BY <2>1, <2>3 DEF TypeUser
    <3> QED  BY <2>1, <2>3, <3>1
  <2> QED  BY <2>2, <2>3
<1> HIDE DEF Goal
<1>14. ASSUME NEW t \in Tunnels,
              \/ DialOk(t) \/ DialFails(t) \/ Register(t) \/ UpstreamData(t)
              \/ UpstreamEnds(t)
       PROVE  Goal
  BY <1>0, <1>14 DEF DialOk, DialFails, Register, UpstreamData, UpstreamEnds
<1>15. ASSUME NEW p \in Sides,
              \/ OnConnect(p) \/ OnForward(p) \/ OnGetFile(p) \/ OnFile(p)
              \/ RequestFile(p) \/ ServeFile(p) \/ ReaderEnds(p)
       PROVE  Goal
  BY <1>0, <1>15 DEF OnConnect, OnForward, OnGetFile, OnFile, RequestFile,
                     ServeFile, ReaderEnds
<1>16. ASSUME LinkBreaks \/ PingTimeout PROVE Goal
  BY <1>0, <1>16 DEF LinkBreaks, PingTimeout
<1> QED
  BY <1>1, <1>2, <1>3, <1>4, <1>5, <1>6, <1>7, <1>8, <1>9, <1>10, <1>11, <1>12,
     <1>13, <1>14, <1>15, <1>16
     DEF Next, Dial, Receive, Goal

LEMMA ForwardEffect ==
    ASSUME TypeForward, FrameIds, Next, NEW u \in Tunnels
    PROVE  /\ \/ task'[u] = task[u] \/ ConnectArrives(u) \/ DialOk(u)
              \/ DialFails(u) \/ Register(u)
           /\ fwd'[u] = fwd[u] \/ ~fwd'[u] \/ Register(u)
           /\ reading'[u] = reading[u] \/ DialOk(u) \/ UpstreamEnds(u)
           /\ upSent'[u] = upSent[u] \/ UpstreamData(u)
           /\ put'[u] = put[u] \/ ForwardArrives(u)
<1> DEFINE Goal ==
       /\ \/ task'[u] = task[u] \/ ConnectArrives(u) \/ DialOk(u)
          \/ DialFails(u) \/ Register(u)
       /\ fwd'[u] = fwd[u] \/ ~fwd'[u] \/ Register(u)
       /\ reading'[u] = reading[u] \/ DialOk(u) \/ UpstreamEnds(u)
       /\ upSent'[u] = upSent[u] \/ UpstreamData(u)
       /\ put'[u] = put[u] \/ ForwardArrives(u)
<1>0. ASSUME UNCHANGED forwardVars PROVE Goal
  BY <1>0 DEF forwardVars
<1>1. ASSUME NEW t \in Tunnels, DialOk(t) PROVE Goal
  <2>1. /\ task' = [task EXCEPT ![t] = "starting"]
        /\ reading' = [reading EXCEPT ![t] = TRUE]
        /\ UNCHANGED <<fwd, upSent, put>>
    BY <1>1 DEF DialOk
  <2> QED  BY <1>1, <2>1 DEF TypeForward
<1>2. ASSUME NEW t \in Tunnels, DialFails(t) PROVE Goal
  <2>1. /\ task' = [task EXCEPT ![t] = "done"]
        /\ UNCHANGED <<fwd, reading, upSent, put>>
    BY <1>2 DEF DialFails
  <2> QED  BY <1>2, <2>1 DEF TypeForward
<1>3. ASSUME NEW t \in Tunnels, Register(t) PROVE Goal
  BY <1>3 DEF Register, TypeForward
<1>4. ASSUME NEW t \in Tunnels, UpstreamData(t) PROVE Goal
  <2>1. /\ upSent' = [upSent EXCEPT ![t] = @ + 1]
        /\ UNCHANGED <<task, fwd, reading, put>>
    BY <1>4 DEF UpstreamData
  <2> QED  BY <1>4, <2>1 DEF TypeForward
<1>5. ASSUME NEW t \in Tunnels, UpstreamEnds(t) PROVE Goal
  <2>1. /\ reading' = [reading EXCEPT ![t] = FALSE]
        /\ fwd' = [fwd EXCEPT ![t] = FALSE]
        /\ UNCHANGED <<task, upSent, put>>
    BY <1>5 DEF UpstreamEnds
  <2> QED  BY <1>5, <2>1 DEF TypeForward
<1>6. ASSUME NEW p \in Sides, OnConnect(p) PROVE Goal
  <2> DEFINE t == <<Other(p), Head(chan[Other(p)]).id>>
  <2>1. /\ task' = [task EXCEPT ![t] = "dialing"] \/ UNCHANGED task
        /\ UNCHANGED <<fwd, reading, upSent, put>>
    BY <1>6 DEF OnConnect
  <2>2. t = u => ConnectArrives(u)
    BY <1>6, OwnFrame, SideFacts DEF ConnectArrives
  <2> HIDE DEF t
  <2> QED  BY <2>1, <2>2 DEF TypeForward
<1>7. ASSUME NEW p \in Sides, OnError(p) PROVE Goal
  <2> DEFINE t == <<Other(p), Head(chan[Other(p)]).id>>
  <2>1. /\ fwd' = [fwd EXCEPT ![t] = FALSE]
        /\ UNCHANGED <<task, reading, upSent, put>>
    BY <1>7 DEF OnError
  <2> HIDE DEF t
  <2> QED  BY <2>1 DEF TypeForward
<1>8. ASSUME NEW p \in Sides, OnForward(p) PROVE Goal
  <2> DEFINE h == Head(chan[Other(p)])
             t == <<Other(p), h.id>>
  <2>1. /\ UNCHANGED <<task, reading, upSent>>
        /\ fwd' = [fwd EXCEPT ![t] = FALSE] \/ fwd' = fwd
        /\ put' = [put EXCEPT ![t] = Append(@, h.n)] \/ put' = put
    BY <1>8 DEF OnForward
  <2>2. t = u => ForwardArrives(u)
    BY <1>8, OwnFrame, SideFacts DEF ForwardArrives
  <2> HIDE DEF t, h
  <2> QED  BY <2>1, <2>2 DEF TypeForward
<1> HIDE DEF Goal
<1>9. ASSUME NEW t \in Tunnels,
             \/ Open(t) \/ AckFails(t) \/ AckConnected(t) \/ Abandon(t)
             \/ Write(t) \/ Read(t) \/ ReadEnds(t) \/ Close(t) \/ Reap(t)
      PROVE  Goal
  BY <1>0, <1>9 DEF Open, AckFails, AckConnected, Abandon, Write, Read, ReadEnds,
                    Close, Reap
<1>10. ASSUME NEW p \in Sides,
              \/ OnConnected(p) \/ OnBackward(p) \/ OnGetFile(p) \/ OnFile(p)
              \/ RequestFile(p) \/ ServeFile(p) \/ ReaderEnds(p) \/ DropConnection(p)
       PROVE  Goal
  BY <1>0, <1>10 DEF OnConnected, OnBackward, OnGetFile, OnFile, RequestFile,
                     ServeFile, ReaderEnds, DropConnection
<1>11. ASSUME LinkBreaks \/ PingTimeout PROVE Goal
  BY <1>0, <1>11 DEF LinkBreaks, PingTimeout
<1> QED
  BY <1>1, <1>2, <1>3, <1>4, <1>5, <1>6, <1>7, <1>8, <1>9, <1>10, <1>11
     DEF Next, Dial, Receive, Goal

\* The types last.
LEMMA TypeStep ==
    ASSUME TypeOK, FrameIds, Next
    PROVE  TypeOK' /\ FrameIds' /\ Lasting
<1>1. TypeUser /\ TypeForward /\ TypeSession
  BY TypeParts
<1>2. FrameIds'
  BY ChanEffect
<1>3. TypeSession' /\ Lasting
  BY <1>1, SessionTypes
<1>4. TypeUser'
  <2>1. CASE UNCHANGED userVars
    BY <1>1, <2>1 DEF TypeUser, userVars
  <2>2. ASSUME NEW t \in Tunnels,
               \/ DialOk(t) \/ DialFails(t) \/ Register(t) \/ UpstreamData(t)
               \/ UpstreamEnds(t)
        PROVE  TypeUser'
    BY <2>1, <2>2 DEF DialOk, DialFails, Register, UpstreamData, UpstreamEnds
  <2>3. ASSUME NEW p \in Sides, RequestFile(p) \/ ServeFile(p) \/ ReaderEnds(p)
        PROVE  TypeUser'
    BY <2>1, <2>3 DEF RequestFile, ServeFile, ReaderEnds
  <2>4. ASSUME LinkBreaks \/ PingTimeout PROVE TypeUser'
    BY <2>1, <2>4 DEF LinkBreaks, PingTimeout
  <2>5. ASSUME NEW p \in Sides, DropConnection(p) PROVE TypeUser'
    BY <1>1, <2>5 DEF DropConnection, TypeUser
  <2> QED  BY <1>1, <2>2, <2>3, <2>4, <2>5, UserTypes, ArrivalTypes DEF Next, Dial
<1>5. TypeForward'
  <2>1. CASE UNCHANGED forwardVars
    BY <1>1, <2>1 DEF TypeForward, forwardVars
  <2>2. ASSUME NEW t \in Tunnels,
               \/ Open(t) \/ AckFails(t) \/ AckConnected(t) \/ Abandon(t)
               \/ Write(t) \/ Read(t) \/ ReadEnds(t) \/ Close(t) \/ Reap(t)
        PROVE  TypeForward'
    BY <2>1, <2>2 DEF Open, AckFails, AckConnected, Abandon, Write, Read,
                      ReadEnds, Close, Reap
  <2>3. ASSUME NEW p \in Sides,
               RequestFile(p) \/ ServeFile(p) \/ ReaderEnds(p) \/ DropConnection(p)
        PROVE  TypeForward'
    BY <2>1, <2>3 DEF RequestFile, ServeFile, ReaderEnds, DropConnection
  <2>4. ASSUME LinkBreaks \/ PingTimeout PROVE TypeForward'
    BY <2>1, <2>4 DEF LinkBreaks, PingTimeout
  <2> QED  BY <1>1, <2>2, <2>3, <2>4, ForwardTypes, ArrivalTypes DEF Next, Dial
<1>6. TypeOK'
  BY <1>2, <1>3, <1>4, <1>5, TypeParts, PTL
<1> QED  BY <1>2, <1>3, <1>6

-----------------------------------------------------------------------------
(* What the arrival of a frame does to its tunnel.                         *)

\* The frame that arrives was on its way.
LEMMA ArrivalCarried ==
    ASSUME FrameIds, NEW u \in Tunnels
    PROVE  /\ ConnectArrives(u) =>
                 /\ chan[u[1]] # << >> /\ Match(Head(chan[u[1]]), "connect", u[2])
                 /\ Carries(chan[u[1]], "connect", u[2])
           /\ ForwardArrives(u) =>
                 /\ chan[u[1]] # << >> /\ Match(Head(chan[u[1]]), "forward", u[2])
                 /\ Carries(chan[u[1]], "forward", u[2])
           /\ ConnectedArrives(u) =>
                 /\ chan[Far(u)] # << >> /\ Match(Head(chan[Far(u)]), "connected", u[2])
                 /\ Carries(chan[Far(u)], "connected", u[2])
           /\ BackwardArrives(u) =>
                 /\ chan[Far(u)] # << >> /\ Match(Head(chan[Far(u)]), "backward", u[2])
                 /\ Carries(chan[Far(u)], "backward", u[2])
           /\ ErrorAtUser(u) =>
                 /\ chan[Far(u)] # << >> /\ Match(Head(chan[Far(u)]), "error", u[2])
                 /\ Carries(chan[Far(u)], "error", u[2])
<1>1. /\ u[1] \in Sides /\ Far(u) \in Sides /\ Other(u[1]) = Far(u) /\ Other(Far(u)) = u[1]
      /\ chan[u[1]] \in Seq(Frames) /\ chan[Far(u)] \in Seq(Frames)
  BY TunnelFacts DEF FrameIds
<1>2. ASSUME NEW q \in Sides, NEW K, chan[q] # << >>, Match(Head(chan[q]), K, u[2])
      PROVE  Carries(chan[q], K, u[2])
  BY <1>2, CarriesTail DEF FrameIds
<1>3. ASSUME ConnectArrives(u)
      PROVE  chan[u[1]] # << >> /\ Match(Head(chan[u[1]]), "connect", u[2])
  BY <1>1, <1>3 DEF ConnectArrives, OnConnect, Incoming, Match
<1>4. ASSUME ForwardArrives(u)
      PROVE  chan[u[1]] # << >> /\ Match(Head(chan[u[1]]), "forward", u[2])
  BY <1>1, <1>4 DEF ForwardArrives, OnForward, Incoming, Match
<1>5. ASSUME ConnectedArrives(u)
      PROVE  chan[Far(u)] # << >> /\ Match(Head(chan[Far(u)]), "connected", u[2])
  BY <1>1, <1>5 DEF ConnectedArrives, OnConnected, Incoming, Match
<1>6. ASSUME BackwardArrives(u)
      PROVE  chan[Far(u)] # << >> /\ Match(Head(chan[Far(u)]), "backward", u[2])
  BY <1>1, <1>6 DEF BackwardArrives, OnBackward, Incoming, Match
<1>7. ASSUME ErrorAtUser(u)
      PROVE  chan[Far(u)] # << >> /\ Match(Head(chan[Far(u)]), "error", u[2])
  BY <1>1, <1>7 DEF ErrorAtUser, OnError, Incoming, Match
<1> QED  BY <1>1, <1>2, <1>3, <1>4, <1>5, <1>6, <1>7

LEMMA ConnectArrivesEffect ==
    ASSUME TypeOK, FrameIds, NEW u \in Tunnels, ConnectArrives(u)
    PROVE  /\ chan'[u[1]] = Tail(chan[u[1]]) /\ UNCHANGED <<user, fwd>>
           /\ \/ task'[u] = "dialing" /\ chan'[Far(u)] = chan[Far(u)]
              \/ task'[u] = task[u]
<1>1. /\ u[1] \in Sides /\ Far(u) \in Sides /\ Other(Far(u)) = u[1] /\ u[2] \in Ids
      /\ u = <<u[1], u[2]>>
  BY TunnelFacts
<1>2. chan[u[1]] # << >> /\ OnConnect(Far(u)) /\ Head(chan[u[1]]).id = u[2]
  BY ArrivalCarried DEF ConnectArrives
<1>3. /\ UNCHANGED <<user, fwd>>
      /\ \/ task' = [task EXCEPT ![u] = "dialing"] /\ Handled(Far(u))
         \/ UNCHANGED task /\ HandledWith(Far(u), u, Frame("error", u[2], 0))
  BY <1>1, <1>2 DEF OnConnect, userVars
<1>4. Frame("error", u[2], 0) \in Frames
  BY <1>1, FrameFacts, KindsFacts DEF TunnelKinds
<1> QED  BY <1>1, <1>2, <1>3, <1>4, HandledCalm, HandledWithCalm DEF TypeOK

LEMMA ForwardArrivesEffect ==
    ASSUME TypeOK, FrameIds, NEW u \in Tunnels, ForwardArrives(u)
    PROVE  /\ chan'[u[1]] = Tail(chan[u[1]]) /\ UNCHANGED <<user, task, sent, reading>>
           /\ \/ /\ ~fwd[u] /\ UNCHANGED <<fwd, put>> /\ chan'[Far(u)] = chan[Far(u)]
                 /\ task[u] = "starting" => u \in early'
              \/ /\ fwd[u] /\ UNCHANGED fwd /\ chan'[Far(u)] = chan[Far(u)]
                 /\ put'[u] = Append(put[u], Head(chan[u[1]]).n)
              \/ /\ fwd[u] /\ ~fwd'[u] /\ UNCHANGED put
<1>1. /\ u[1] \in Sides /\ Far(u) \in Sides /\ Other(Far(u)) = u[1] /\ u[2] \in Ids
      /\ u = <<u[1], u[2]>>
  BY TunnelFacts
<1>2. chan[u[1]] # << >> /\ OnForward(Far(u)) /\ Head(chan[u[1]]).id = u[2]
  BY ArrivalCarried DEF ForwardArrives
<1>3. /\ UNCHANGED <<user, task, sent, reading>>
      /\ \/ /\ ~fwd[u] /\ UNCHANGED <<fwd, put>> /\ Handled(Far(u))
            /\ early' = IF task[u] = "starting" THEN early \cup {u} ELSE early
         \/ /\ fwd[u] /\ UNCHANGED fwd /\ Handled(Far(u))
            /\ put' = [put EXCEPT ![u] = Append(@, Head(chan[u[1]]).n)]
         \/ /\ fwd[u] /\ fwd' = [fwd EXCEPT ![u] = FALSE] /\ UNCHANGED put
            /\ HandledWith(Far(u), u, Frame("error", u[2], 0))
  BY <1>1, <1>2 DEF OnForward, userVars
<1>4. Frame("error", u[2], 0) \in Frames
  BY <1>1, FrameFacts, KindsFacts DEF TunnelKinds
<1>5. /\ Handled(Far(u)) => chan'[u[1]] = Tail(chan[u[1]]) /\ chan'[Far(u)] = chan[Far(u)]
      /\ HandledWith(Far(u), u, Frame("error", u[2], 0)) => chan'[u[1]] = Tail(chan[u[1]])
  BY <1>1, <1>2, <1>4, HandledCalm, HandledWithCalm
<1>6. fwd' = [fwd EXCEPT ![u] = FALSE] => ~fwd'[u]
  BY DEF TypeOK
<1>7. put' = [put EXCEPT ![u] = Append(@, Head(chan[u[1]]).n)] =>
         put'[u] = Append(put[u], Head(chan[u[1]]).n)
  BY DEF TypeOK
<1> QED  BY <1>3, <1>5, <1>6, <1>7

LEMMA ConnectedArrivesEffect ==
    ASSUME TypeOK, FrameIds, NEW u \in Tunnels, ConnectedArrives(u)
    PROVE  handler'[u] = IF handler[u] = "ack" THEN "connected" ELSE handler[u]
<1>1. Other(u[1]) = Far(u) /\ u = <<u[1], u[2]>>
  BY TunnelFacts
<1>2. handler' = [handler EXCEPT ![u] = IF @ = "ack" THEN "connected" ELSE @]
  BY <1>1 DEF ConnectedArrives, OnConnected
<1> QED  BY <1>2 DEF TypeOK

LEMMA BackwardArrivesEffect ==
    ASSUME TypeOK, FrameIds, NEW u \in Tunnels, BackwardArrives(u)
    PROVE  /\ chan'[Far(u)] = Tail(chan[Far(u)])
           /\ UNCHANGED <<user, handler, got, task, fwd, upSent, early>>
           /\ recv'[u] = IF handler[u] = "connected"
                         THEN Append(recv[u], Head(chan[Far(u)]).n) ELSE recv[u]
<1>1. /\ u[1] \in Sides /\ Other(u[1]) = Far(u) /\ u = <<u[1], u[2]>>
  BY TunnelFacts
<1>2. chan[Far(u)] # << >>
  BY ArrivalCarried
<1>3. /\ recv' = [recv EXCEPT ![u] =
                     IF handler[u] = "connected"
                     THEN Append(@, Head(chan[Far(u)]).n) ELSE @]
      /\ Handled(u[1]) /\ UNCHANGED <<user, handler, got, task, fwd, upSent, early>>
  BY <1>1 DEF BackwardArrives, OnBackward, forwardVars
<1>4. chan'[Far(u)] = Tail(chan[Far(u)])
  BY <1>1, <1>2, <1>3, HandledCalm
<1> QED  BY <1>3, <1>4 DEF TypeOK

LEMMA ErrorAtUserEffect ==
    ASSUME TypeOK, FrameIds, NEW u \in Tunnels, ErrorAtUser(u)
    PROVE  /\ chan'[Far(u)] = Tail(chan[Far(u)])
           /\ handler'[u] = "none" /\ cut'[u] = (cut[u] \/ handler[u] # "none")
           /\ UNCHANGED <<user, task>>
<1>1. /\ u[1] \in Sides /\ Other(u[1]) = Far(u) /\ u = <<u[1], u[2]>>
  BY TunnelFacts
<1>2. chan[Far(u)] # << >>
  BY ArrivalCarried
<1>3. /\ handler' = [handler EXCEPT ![u] = "none"]
      /\ cut' = [cut EXCEPT ![u] = @ \/ handler[u] # "none"]
      /\ Handled(u[1]) /\ UNCHANGED <<user, task>>
  BY <1>1 DEF ErrorAtUser, OnError
<1>4. chan'[Far(u)] = Tail(chan[Far(u)])
  BY <1>1, <1>2, <1>3, HandledCalm
<1> QED  BY <1>3, <1>4 DEF TypeOK

-----------------------------------------------------------------------------
(* The life of a tunnel.                                                   *)

\* A tunnel is opened once.
LEMMA IdleStep ==
    ASSUME TypeOK, FrameIds, Next, NEW u \in Tunnels, user'[u] = "idle"
    PROVE  user[u] = "idle" /\ ~Open(u)
<1>1. Open(u) => user'[u] # "idle"
  BY DEF Open, TypeOK
<1>2. AckFails(u) \/ AckConnected(u) \/ Abandon(u) \/ ReadEnds(u) \/ Reap(u) => user'[u] # "idle"
  BY DEF AckFails, AckConnected, Abandon, ReadEnds, Reap, TypeOK
<1>3. Close(u) => user'[u] # "idle"
  <2>1. Close(u) => user' = [user EXCEPT ![u] = IF cut[u] THEN "closed" ELSE "closing"]
    BY DEF Close
  <2> QED  BY <2>1 DEF TypeOK
<1> QED  BY <1>1, <1>2, <1>3, UserEffect, TypeParts

\* Its task makes progress.
LEMMA TaskStep ==
    ASSUME TypeOK, FrameIds, Next, NEW u \in Tunnels
    PROVE  \/ task'[u] = task[u]
           \/ ConnectArrives(u) /\ task'[u] = "dialing"
           \/ DialOk(u) /\ task[u] = "dialing" /\ task'[u] = "starting"
           \/ DialFails(u) /\ task[u] = "dialing" /\ task'[u] = "done"
           \/ Register(u) /\ task[u] = "starting" /\ task'[u] = "done"
<1>1. DialOk(u) => task[u] = "dialing" /\ task'[u] = "starting"
  <2>1. DialOk(u) => task[u] = "dialing" /\ task' = [task EXCEPT ![u] = "starting"]
    BY DEF DialOk
  <2> QED  BY <2>1 DEF TypeOK
<1>2. DialFails(u) => task[u] = "dialing" /\ task'[u] = "done"
  <2>1. DialFails(u) => task[u] = "dialing" /\ task' = [task EXCEPT ![u] = "done"]
    BY DEF DialFails
  <2> QED  BY <2>1 DEF TypeOK
<1>3. Register(u) => task[u] = "starting" /\ task'[u] = "done"
  BY DEF Register, TypeOK
<1> QED  BY <1>1, <1>2, <1>3, ForwardEffect, ConnectArrivesEffect, TypeParts

LEMMA OpenOnceStep ==
    ASSUME TypeOK, FrameIds, OpenOnce, NotStarted, Next
    PROVE  OpenOnce'
<1> SUFFICES ASSUME NEW u \in Tunnels
             PROVE  /\ user'[u] = "idle" =>
                          /\ task'[u] = "none" /\ handler'[u] = "none" /\ ~cut'[u]
                          /\ ~Carries(chan'[u[1]], "connect", u[2])
                    /\ Carries(chan'[u[1]], "connect", u[2]) => task'[u] = "none"
                    /\ Single(chan'[u[1]], "connect", u[2])
  BY DEF OpenOnce
<1> DEFINE c == chan[u[1]]
<1>1. u[1] \in Sides /\ u[2] \in Ids /\ c \in Seq(Frames) /\ c = chan[u[1]]
  BY TunnelFacts DEF FrameIds
<1> HIDE DEF c
<1>2. /\ user[u] = "idle" =>
            /\ task[u] = "none" /\ handler[u] = "none" /\ ~cut[u]
            /\ ~Carries(c, "connect", u[2])
      /\ Carries(c, "connect", u[2]) => task[u] = "none"
      /\ Single(c, "connect", u[2])
  BY <1>1 DEF OpenOnce
<1>3. CASE ConnectArrives(u)
  <2>1. chan'[u[1]] = Tail(c) /\ UNCHANGED user
    BY <1>1, <1>3, ConnectArrivesEffect
  <2>2. c # << >> /\ Match(Head(c), "connect", u[2]) /\ Carries(c, "connect", u[2])
    BY <1>1, <1>3, ArrivalCarried
  <2>3. ~Carries(Tail(c), "connect", u[2])
    BY <1>1, <1>2, <2>2, CarriesTail
  <2>4. Single(Tail(c), "connect", u[2])
    BY <2>3 DEF Single, Carries
  <2>5. user'[u] # "idle"
    BY <1>2, <2>1, <2>2
  <2> QED  BY <2>1, <2>3, <2>4, <2>5
<1>4. CASE Open(u)
  <2>1. user[u] = "idle" /\ UNCHANGED task
    BY <1>4 DEF Open, forwardVars
  <2>2. user'[u] # "idle"
    BY <1>4, IdleStep
  <2>3. Single(chan'[u[1]], "connect", u[2])
    <3>1. CASE Accept(u[1], Frame("connect", u[2], 0))
      <4>1. /\ Frame("connect", u[2], 0) \in Frames
            /\ Match(Frame("connect", u[2], 0), "connect", u[2])
        BY <1>1, FrameFacts, KindsFacts DEF TunnelKinds
      <4>2. chan'[u[1]] = Append(c, Frame("connect", u[2], 0))
        BY <1>1, <3>1, <4>1, AcceptCalm
      <4> QED  BY <1>1, <1>2, <2>1, <4>1, <4>2, CarriesAppend
    <3>2. CASE UNCHANGED chan
      BY <1>1, <1>2, <3>2
    <3> QED  BY <1>4, <3>1, <3>2 DEF Open, Refuse
  <2> QED  BY <1>2, <2>1, <2>2, <2>3
<1>5. CASE ~ConnectArrives(u) /\ ~Open(u)
  <2>1. Calm(u[1], "connect", u[2])
    BY <1>5, FrameEffect
  <2>2. /\ Carries(chan'[u[1]], "connect", u[2]) => Carries(c, "connect", u[2])
        /\ Single(chan'[u[1]], "connect", u[2])
    BY <1>1, <1>2, <2>1, CarriesCalm
  <2>3. task[u] = "none" => task'[u] = "none"
    BY <1>5, TaskStep
  <2>4. ASSUME user'[u] = "idle"
        PROVE  user[u] = "idle" /\ handler'[u] = "none" /\ ~cut'[u]
    <3>1. user[u] = "idle"
      BY <2>4, IdleStep
    <3>2. handler'[u] = "none"
      BY <1>2, <1>5, <3>1, UserEffect, ConnectedArrivesEffect, TypeParts
    <3>3. ErrorAtUser(u) => ~cut'[u]
      BY <1>2, <3>1, ErrorAtUserEffect
    <3>4. DropConnection(u[1]) => ~cut'[u]
      <4>1. DropConnection(u[1]) => cut'[u] = (cut[u] \/ (u[1] = u[1] /\ handler[u] # "none"))
        BY DEF DropConnection
      <4> QED  BY <1>2, <3>1, <4>1
    <3>5. ~Close(u)
      BY <3>1 DEF Close
    <3> QED  BY <1>2, <3>1, <3>2, <3>3, <3>4, <3>5, UserEffect, TypeParts
  <2> QED  BY <1>2, <2>2, <2>3, <2>4
<1> QED  BY <1>3, <1>4, <1>5

LEMMA NotStartedStep ==
    ASSUME TypeOK, FrameIds, OpenOnce, NotStarted, Registered, Next
    PROVE  NotStarted'
<1> SUFFICES ASSUME NEW u \in Tunnels, task'[u] \in {"none", "dialing"}
             PROVE  /\ sent'[u] = 0 /\ put'[u] = << >> /\ upSent'[u] = 0
                    /\ got'[u] = << >> /\ recv'[u] = << >>
                    /\ ~fwd'[u] /\ ~reading'[u]
                    /\ handler'[u] # "connected" /\ user'[u] # "open"
                    /\ ~Carries(chan'[u[1]], "forward", u[2])
                    /\ ~Carries(chan'[Far(u)], "connected", u[2])
                    /\ ~Carries(chan'[Far(u)], "backward", u[2])
  BY DEF NotStarted
<1>0. u[1] \in Sides /\ Far(u) \in Sides
  BY TunnelFacts
<1>1. ConnectArrives(u) => task[u] = "none"
  BY ArrivalCarried DEF OpenOnce
<1>2. task[u] \in {"none", "dialing"} /\ ~DialOk(u) /\ ~Register(u)
  <2>1. DialOk(u) => task'[u] = "starting"
    <3>1. DialOk(u) => task' = [task EXCEPT ![u] = "starting"]
      BY DEF DialOk
    <3> QED  BY <3>1 DEF TypeOK
  <2>2. Register(u) => task'[u] = "done"
    BY DEF Register, TypeOK
  <2> QED  BY <1>1, <2>1, <2>2, TaskStep
<1>3. /\ sent[u] = 0 /\ put[u] = << >> /\ upSent[u] = 0
      /\ got[u] = << >> /\ recv[u] = << >>
      /\ ~fwd[u] /\ ~reading[u]
      /\ handler[u] # "connected" /\ user[u] # "open"
      /\ ~Carries(chan[u[1]], "forward", u[2])
      /\ ~Carries(chan[Far(u)], "connected", u[2])
      /\ ~Carries(chan[Far(u)], "backward", u[2])
  BY <1>2 DEF NotStarted
<1>4. ~ForwardArrives(u) /\ ~ConnectedArrives(u) /\ ~BackwardArrives(u)
  BY <1>3, ArrivalCarried
<1>5. /\ ~Write(u) /\ ~Read(u) /\ ~UpstreamData(u) /\ ~UpstreamEnds(u)
      /\ ~AckConnected(u)
  BY <1>3 DEF Write, Read, UpstreamData, UpstreamEnds, AckConnected
<1>6. sent'[u] = 0 /\ got'[u] = << >> /\ recv'[u] = << >>
  BY <1>3, <1>4, <1>5, UserEffect, TypeParts
<1>7. put'[u] = << >> /\ upSent'[u] = 0 /\ ~fwd'[u] /\ ~reading'[u]
  BY <1>2, <1>3, <1>4, <1>5, ForwardEffect, TypeParts
<1>8. handler'[u] # "connected"
  <2>1. Open(u) => handler'[u] = "ack"
    BY DEF Open, TypeOK
  <2> QED  BY <1>3, <1>4, <2>1, UserEffect, TypeParts
<1>9. user'[u] # "open"
  <2>1. \/ Open(u) \/ AckFails(u) \/ Abandon(u) \/ ReadEnds(u) \/ Reap(u)
        => user'[u] # "open"
    BY DEF Open, AckFails, Abandon, ReadEnds, Reap, TypeOK
  <2>2. ~Close(u)
    BY <1>3 DEF Close
  <2> QED  BY <1>3, <1>5, <2>1, <2>2, UserEffect, TypeParts
<1>10. /\ Calm(u[1], "forward", u[2]) /\ Calm(Far(u), "connected", u[2])
       /\ Calm(Far(u), "backward", u[2])
  BY <1>2, <1>4, <1>5, FrameEffect
<1>11. /\ ~Carries(chan'[u[1]], "forward", u[2])
       /\ ~Carries(chan'[Far(u)], "connected", u[2])
       /\ ~Carries(chan'[Far(u)], "backward", u[2])
  BY <1>0, <1>3, <1>10, CarriesCalm
<1> QED  BY <1>6, <1>7, <1>8, <1>9, <1>11

LEMMA RegisteredStep ==
    ASSUME TypeOK, FrameIds, OpenOnce, NotStarted, Registered, Next
    PROVE  Registered'
<1> SUFFICES ASSUME NEW u \in Tunnels
             PROVE  /\ fwd'[u] => task'[u] = "done"
                    /\ fwd'[u] \/ task'[u] = "starting" => reading'[u] \/ u \in early'
  BY DEF Registered
<1>0. early \subseteq early'
  BY TypeStep DEF Lasting
<1>1. /\ fwd[u] => task[u] = "done"
      /\ fwd[u] \/ task[u] = "starting" => reading[u] \/ u \in early
  BY DEF Registered
<1>2. ConnectArrives(u) => task[u] = "none"
  BY ArrivalCarried DEF OpenOnce
<1>3. CASE DialOk(u)
  <2>1. /\ reading' = [reading EXCEPT ![u] = TRUE]
        /\ task[u] = "dialing" /\ UNCHANGED fwd
    BY <1>3 DEF DialOk
  <2>2. reading'[u]
    BY <2>1 DEF TypeOK
  <2> QED  BY <1>1, <2>1, <2>2
<1>4. CASE UpstreamEnds(u)
  <2>1. /\ fwd' = [fwd EXCEPT ![u] = FALSE] /\ UNCHANGED task
        /\ ~fwd[u] => early' = IF task[u] = "starting" THEN early \cup {u} ELSE early
    BY <1>4 DEF UpstreamEnds
  <2>2. ~fwd'[u]
    BY <2>1 DEF TypeOK
  <2> QED  BY <1>1, <2>1, <2>2
<1>5. CASE ~DialOk(u) /\ ~UpstreamEnds(u)
  <2>1. reading'[u] = reading[u] /\ (fwd'[u] = fwd[u] \/ ~fwd'[u] \/ Register(u))
    BY <1>5, ForwardEffect, TypeParts
  <2>2. CASE Register(u)
    <3>1. task[u] = "starting" /\ task'[u] = "done"
      BY <2>2 DEF Register, TypeOK
    <3> QED  BY <1>0, <1>1, <2>1, <3>1
  <2>3. CASE ~Register(u)
    <3>1. task'[u] = task[u] \/ (task[u] \in {"none", "dialing"} /\ task'[u] # "starting")
      BY <1>2, <1>5, <2>3, TaskStep
    <3> QED  BY <1>0, <1>1, <2>1, <2>3, <3>1
  <2> QED  BY <2>2, <2>3
<1> QED  BY <1>3, <1>4, <1>5

\* A handler comes from Open alone.
LEMMA HandlerStep ==
    ASSUME TypeOK, FrameIds, Next, NEW u \in Tunnels, handler'[u] # "none", ~Open(u)
    PROVE  /\ handler[u] # "none" /\ ~ErrorAtUser(u) /\ ~DropConnection(u[1])
           /\ handler'[u] = handler[u] \/ (handler[u] = "ack" /\ handler'[u] = "connected")
           /\ ~AckFails(u) /\ ~Reap(u)
<1>1. ~ErrorAtUser(u)
  BY ErrorAtUserEffect
<1>2. ~DropConnection(u[1])
  BY DEF DropConnection
<1>3. ~AckFails(u) /\ ~Reap(u)
  BY DEF AckFails, Reap, TypeOK
<1>4. /\ handler[u] # "none"
      /\ handler'[u] = handler[u] \/ (handler[u] = "ack" /\ handler'[u] = "connected")
  BY UserEffect, ConnectedArrivesEffect, TypeParts
<1> QED  BY <1>1, <1>2, <1>3, <1>4

LEMMA HandlersStep ==
    ASSUME TypeOK, FrameIds, OpenOnce, NoStaleHandler, CutHandler, Next
    PROVE  NoStaleHandler' /\ CutHandler'
<1> SUFFICES ASSUME NEW u \in Tunnels, handler'[u] # "none"
             PROVE  /\ user'[u] \in {"waiting", "open", "closing", "refused", "abandoned"}
                    /\ cut'[u] => user'[u] = "closing"
  BY DEF NoStaleHandler, CutHandler
<1>1. CASE Open(u)
  <2>1. user[u] = "idle" /\ UNCHANGED cut /\ user'[u] \in {"waiting", "refused"}
    BY <1>1 DEF Open, TypeOK
  <2> QED  BY <2>1 DEF OpenOnce
<1>2. CASE ~Open(u)
  <2>1. /\ handler[u] # "none" /\ ~ErrorAtUser(u) /\ ~DropConnection(u[1])
        /\ ~AckFails(u) /\ ~Reap(u)
    BY <1>2, HandlerStep
  <2>2. /\ user[u] \in {"waiting", "open", "closing", "refused", "abandoned"}
        /\ cut[u] => user[u] = "closing"
    BY <2>1 DEF NoStaleHandler, CutHandler
  <2>3. CASE Close(u)
    <3>1. user[u] = "open" /\ user' = [user EXCEPT ![u] = IF cut[u] THEN "closed" ELSE "closing"]
      BY <2>3 DEF Close
    <3>2. user'[u] = "closing"
      BY <2>2, <3>1 DEF TypeOK
    <3> QED  BY <3>2
  <2>4. CASE ~Close(u)
    <3>1. cut'[u] = cut[u]
      BY <2>1, <2>4, UserEffect, TypeParts
    <3>2. ~ReadEnds(u)
      BY <2>2 DEF ReadEnds
    <3>3. AckConnected(u) => user[u] = "waiting" /\ user'[u] = "open"
      BY DEF AckConnected, TypeOK
    <3>4. Abandon(u) => user[u] \in {"waiting", "open"} /\ user'[u] = "abandoned"
      BY DEF Abandon, TypeOK
    <3> QED
      BY <1>2, <2>1, <2>2, <2>4, <3>1, <3>2, <3>3, <3>4, UserEffect, TypeParts
  <2> QED  BY <2>3, <2>4
<1> QED  BY <1>1, <1>2

-----------------------------------------------------------------------------
(* The order of payloads.                                                  *)

\* Only a successful dial starts the forwarding.
LEMMA ForwardingStep ==
    ASSUME TypeOK, FrameIds, OpenOnce, NotStarted, Next, NEW u \in Tunnels,
           Forwarding(u)', ~DialOk(u)
    PROVE  Forwarding(u)
<1>1. fwd'[u] \/ task'[u] = "starting"
  BY DEF Forwarding
<1>2. Register(u) => task[u] = "starting"
  BY DEF Register
<1>3. fwd'[u] => fwd[u] \/ Register(u)
  BY ForwardEffect, TypeParts
<1>4. task'[u] = "starting" => task[u] = "starting"
  BY TaskStep
<1> QED  BY <1>1, <1>2, <1>3, <1>4 DEF Forwarding

LEMMA ForwardOrderStep ==
    ASSUME TypeOK, FrameIds, OpenOnce, NotStarted, Registered, ForwardOrder, Next
    PROVE  ForwardOrder'
<1> SUFFICES ASSUME NEW u \in Tunnels, u \notin early', Forwarding(u)'
             PROVE  /\ Runs(chan'[u[1]], "forward", u[2], Len(put'[u]), sent'[u])
                    /\ Working(u[1])' =>
                          Full(chan'[u[1]], "forward", u[2], Len(put'[u]), sent'[u])
  BY DEF ForwardOrder
<1>0. /\ u[1] \in Sides /\ u[2] \in Ids /\ chan[u[1]] \in Seq(Frames)
      /\ sent[u] \in Nat /\ put[u] \in Seq(Nat) /\ Len(put[u]) \in Nat
  <2>1. put[u] \in Seq(Nat) /\ sent[u] \in Nat
    BY DEF TypeOK
  <2> QED  BY <2>1, TunnelFacts DEF FrameIds
<1>1. u \notin early /\ (Working(u[1])' => Working(u[1]))
  BY <1>0, TypeStep DEF Lasting
<1>2. CASE DialOk(u)
  <2>1. task[u] = "dialing"
    BY <1>2 DEF DialOk
  <2>2. /\ sent[u] = 0 /\ put[u] = << >> /\ user[u] # "open"
        /\ ~Carries(chan[u[1]], "forward", u[2])
    BY <2>1 DEF NotStarted
  <2>3. ~Write(u) /\ ~ForwardArrives(u)
    BY <2>2, ArrivalCarried DEF Write
  <2>4. Calm(u[1], "forward", u[2]) /\ sent'[u] = 0 /\ put'[u] = << >>
    BY <2>2, <2>3, FrameEffect, UserEffect, ForwardEffect, TypeParts
  <2>5. ~Carries(chan'[u[1]], "forward", u[2])
    BY <1>0, <2>2, <2>4, CarriesCalm
  <2>6. Len(put'[u]) = 0
    BY <2>4
  <2> QED  BY <2>4, <2>5, <2>6, RunsNone
<1>3. CASE ~DialOk(u)
  <2>1. Forwarding(u)
    BY <1>3, ForwardingStep
  <2>2. /\ Runs(chan[u[1]], "forward", u[2], Len(put[u]), sent[u])
        /\ Working(u[1]) => Full(chan[u[1]], "forward", u[2], Len(put[u]), sent[u])
    BY <1>1, <2>1 DEF ForwardOrder
  <2>3. CASE Write(u)
    <3> DEFINE f == Frame("forward", u[2], sent[u] + 1)
    <3>1. f \in Frames /\ f.n = sent[u] + 1 /\ Match(f, "forward", u[2])
      <4>1. sent[u] + 1 \in Nat
        BY <1>0
      <4> QED  BY <1>0, <4>1, FrameFacts, KindsFacts DEF TunnelKinds
    <3>2. Accept(u[1], f) /\ sent' = [sent EXCEPT ![u] = @ + 1] /\ UNCHANGED put
      BY <2>3 DEF Write, forwardVars
    <3> HIDE DEF f
    <3>3. sent'[u] = sent[u] + 1
      BY <3>2 DEF TypeOK
    <3>4. chan'[u[1]] = Append(chan[u[1]], f) /\ Working(u[1])
      BY <1>0, <3>1, <3>2, AcceptCalm
    <3> QED  BY <1>0, <2>2, <3>1, <3>2, <3>3, <3>4, RunsAppend
  <2>4. CASE ForwardArrives(u)
    <3> DEFINE h == Head(chan[u[1]])
    <3>1. chan[u[1]] # << >> /\ Match(h, "forward", u[2])
      BY <2>4, ArrivalCarried
    <3>2. /\ h.n = Len(put[u]) + 1 /\ Len(put[u]) + 1 <= sent[u]
          /\ Runs(Tail(chan[u[1]]), "forward", u[2], Len(put[u]) + 1, sent[u])
          /\ Full(chan[u[1]], "forward", u[2], Len(put[u]), sent[u]) =>
                Full(Tail(chan[u[1]]), "forward", u[2], Len(put[u]) + 1, sent[u])
      BY <1>0, <2>2, <3>1, RunsTail
    <3>3. fwd[u] => task[u] = "done"
      BY DEF Registered
    <3>4. /\ chan'[u[1]] = Tail(chan[u[1]]) /\ sent'[u] = sent[u]
          /\ put'[u] = Append(put[u], h.n)
      BY <2>1, <2>4, <3>3, ForwardArrivesEffect DEF Forwarding
    <3>5. Len(put'[u]) = Len(put[u]) + 1
      <4>1. h.n \in Nat
        BY <1>0, <3>2
      <4> QED  BY <1>0, <3>4, <4>1
    <3> QED  BY <1>1, <2>2, <3>2, <3>4, <3>5
  <2>5. CASE ~Write(u) /\ ~ForwardArrives(u)
    <3>1. Calm(u[1], "forward", u[2]) /\ sent'[u] = sent[u] /\ put'[u] = put[u]
      BY <2>5, FrameEffect, UserEffect, ForwardEffect, TypeParts
    <3> QED  BY <1>0, <1>1, <2>2, <3>1, RunsCalm
  <2> QED  BY <2>3, <2>4, <2>5
<1> QED  BY <1>2, <1>3

\* A tunnel that is undisturbed was so before.
LEMMA UndisturbedStep ==
    ASSUME TypeOK, FrameIds, Next, NEW u \in Tunnels, Undisturbed(u)'
    PROVE  /\ Undisturbed(u)
           /\ u \notin lost' /\ u \notin early' /\ u \notin early
  BY TypeStep DEF Lasting, Undisturbed

\* What the upstream sends is on its way, or the tunnel is disturbed, or it is
\* not sent and never will be.
LEMMA UpstreamDataEffect ==
    ASSUME TypeOK, FrameIds, NEW u \in Tunnels, UpstreamData(u), Undisturbed(u)'
    PROVE  /\ upSent'[u] = upSent[u] + 1
           /\ UNCHANGED <<user, handler, got, recv, task, fwd>>
           /\ \/ /\ fwd[u] /\ Working(Far(u))
                 /\ chan'[Far(u)] =
                       Append(chan[Far(u)], Frame("backward", u[2], upSent[u] + 1))
              \/ UNCHANGED chan /\ (~Working(Far(u)) \/ ~Forwarding(u))
<1>0. Far(u) \in Sides /\ u[2] \in Ids /\ upSent[u] \in Nat
  BY TunnelFacts DEF TypeOK
<1>1. /\ upSent' = [upSent EXCEPT ![u] = @ + 1]
      /\ UNCHANGED <<user, handler, got, recv, task, fwd>>
      /\ \/ fwd[u] /\ SendFor(u, Far(u), Frame("backward", u[2], upSent[u] + 1))
         \/ /\ ~fwd[u] /\ UNCHANGED <<chan, lost>>
            /\ early' = IF task[u] = "starting" THEN early \cup {u} ELSE early
  BY DEF UpstreamData, userVars
<1>2. upSent'[u] = upSent[u] + 1
  BY <1>1 DEF TypeOK
<1>3. u \notin lost' /\ u \notin early'
  BY DEF Undisturbed
<1>4. CASE fwd[u] /\ SendFor(u, Far(u), Frame("backward", u[2], upSent[u] + 1))
  <2>1. CASE Accept(Far(u), Frame("backward", u[2], upSent[u] + 1))
    <3>1. Frame("backward", u[2], upSent[u] + 1) \in Frames
      <4>1. upSent[u] + 1 \in Nat  BY <1>0
      <4> QED  BY <1>0, <4>1, FrameFacts, KindsFacts DEF TunnelKinds
    <3> QED  BY <1>0, <1>1, <1>2, <1>4, <2>1, <3>1, AcceptCalm
  <2>2. CASE /\ Refuse(Far(u))
             /\ lost' = IF Working(Far(u)) THEN lost \cup {u} ELSE lost
    BY <1>1, <1>2, <1>3, <2>2 DEF Refuse
  <2> QED  BY <1>4, <2>1, <2>2 DEF SendFor
<1>5. CASE /\ ~fwd[u] /\ UNCHANGED <<chan, lost>>
           /\ early' = IF task[u] = "starting" THEN early \cup {u} ELSE early
  BY <1>1, <1>2, <1>3, <1>5 DEF Forwarding
<1> QED  BY <1>1, <1>4, <1>5

\* A backward payload that arrives finds the handler connected.
LEMMA BackwardMeetsHandler ==
    ASSUME TypeOK, FrameIds, ConnectedFirst, NEW u \in Tunnels, Undisturbed(u),
           BackwardArrives(u), handler[u] # "none"
    PROVE  handler[u] = "connected"
<1>1. Far(u) \in Sides /\ chan[Far(u)] \in Seq(Frames)
  BY TunnelFacts DEF FrameIds
<1>2. chan[Far(u)] # << >> /\ Match(Head(chan[Far(u)]), "backward", u[2])
  BY ArrivalCarried
<1>3. 1 \in 1 .. Len(chan[Far(u)]) /\ Match(chan[Far(u)][1], "backward", u[2])
  BY <1>1, <1>2, TailFacts
<1>4. ~Announced(chan[Far(u)], u[2])
  <2>1. SUFFICES ASSUME Announced(chan[Far(u)], u[2]) PROVE FALSE
    OBVIOUS
  <2>2. \E j \in 1 .. 1 - 1 : Match(chan[Far(u)][j], "connected", u[2])
    BY <1>3, <2>1 DEF Announced
  <2> QED  BY <2>2
<1>5. handler[u] # "ack"
  BY <1>4 DEF ConnectedFirst
<1> QED  BY <1>5 DEF TypeOK

LEMMA ConcatNat ==
    ASSUME NEW x \in Seq(Nat), NEW y \in Seq(Nat), NEW z \in Seq(Nat)
    PROVE  (x \o y) \o z = x \o (y \o z)
<1> DEFINE l == (x \o y) \o z
           m == x \o (y \o z)
<1>1. /\ x \o y \in Seq(Nat) /\ y \o z \in Seq(Nat) /\ l \in Seq(Nat) /\ m \in Seq(Nat)
  OBVIOUS
<1>2. Len(l) = Len(m) /\ Len(x) \in Nat /\ Len(y) \in Nat /\ Len(z) \in Nat
  OBVIOUS
<1>3. \A i \in 1 .. Len(l) : l[i] = m[i]
  OBVIOUS
<1> HIDE DEF l, m
<1>4. l = m
  BY <1>1, <1>2, <1>3, SeqEqual
<1> QED  BY <1>4 DEF l, m

\* Reading moves what has arrived from one place to another.
LEMMA ReadEffect ==
    ASSUME TypeOK, NEW u \in Tunnels, Read(u)
    PROVE  /\ got'[u] \o recv'[u] = got[u] \o recv[u]
           /\ Len(got'[u]) + Len(recv'[u]) = Len(got[u]) + Len(recv[u])
           /\ UNCHANGED <<chan, user, handler, upSent, task, fwd, sent, put>>
<1> DEFINE g == got[u]
           r == recv[u]
<1>1. g \in Seq(Nat) /\ r \in Seq(Nat) /\ Len(g) \in Nat /\ Len(r) \in Nat
  <2>1. g \in Seq(Nat) /\ r \in Seq(Nat)
    BY DEF TypeOK
  <2> QED  BY <2>1
<1>2. PICK n \in 1 .. Len(r) :
         /\ got'[u] = g \o SubSeq(r, 1, n)
         /\ recv'[u] = SubSeq(r, n + 1, Len(r))
  BY DEF Read, TypeOK
<1> HIDE DEF g, r
<1> DEFINE a == SubSeq(r, 1, n)
           b == SubSeq(r, n + 1, Len(r))
<1>3. a \in Seq(Nat) /\ b \in Seq(Nat)
  BY <1>1
<1>4. a \o b = r
  <2>1. a \o b = SubSeq(r, 1, Len(r))
    <3>1. 1 \in 1 .. Len(r) + 1 /\ n \in 1 - 1 .. Len(r) /\ Len(r) \in n .. Len(r)
      BY <1>1
    <3> QED  BY <1>1, <3>1, ConcatAdjacentSubSeq
  <2> QED  BY <1>1, <2>1, SubSeqFull
<1>5. (g \o a) \o b = g \o r
  <2> HIDE DEF a, b
  <2>1. (g \o a) \o b = g \o (a \o b)
    BY <1>1, <1>3, ConcatNat
  <2> QED  BY <1>4, <2>1
<1>6. Len(g \o a) + Len(b) = Len(g) + Len(r)
  <2> HIDE DEF a, b
  <2>1. /\ Len(g \o a) = Len(g) + Len(a) /\ Len(a \o b) = Len(a) + Len(b)
        /\ Len(a) \in Nat /\ Len(b) \in Nat
    BY <1>1, <1>3
  <2> QED  BY <1>1, <1>4, <2>1
<1>7. UNCHANGED <<chan, user, handler, upSent, task, fwd, sent, put>>
  BY DEF Read, forwardVars
<1> QED  BY <1>2, <1>5, <1>6, <1>7 DEF a, b, g, r

\* Nothing of a tunnel that has not started is on its way to its user, and no
\* step changes that.
LEMMA NothingFlows ==
    ASSUME TypeOK, FrameIds, NotStarted, Next, NEW u \in Tunnels,
           task[u] \in {"none", "dialing"}
    PROVE  /\ upSent'[u] = 0 /\ got'[u] = << >> /\ recv'[u] = << >>
           /\ sent'[u] = 0 /\ put'[u] = << >>
           /\ ~Carries(chan'[Far(u)], "backward", u[2])
<1>0. Far(u) \in Sides
  BY TunnelFacts
<1>1. /\ sent[u] = 0 /\ put[u] = << >> /\ upSent[u] = 0
      /\ got[u] = << >> /\ recv[u] = << >> /\ ~reading[u] /\ user[u] # "open"
      /\ ~Carries(chan[u[1]], "forward", u[2])
      /\ ~Carries(chan[Far(u)], "backward", u[2])
  BY DEF NotStarted
<1>2. /\ ~UpstreamData(u) /\ ~Read(u) /\ ~BackwardArrives(u)
      /\ ~Write(u) /\ ~ForwardArrives(u)
  BY <1>1, ArrivalCarried DEF UpstreamData, Read, Write
<1>3. Calm(Far(u), "backward", u[2])
  BY <1>2, FrameEffect
<1>4. ~Carries(chan'[Far(u)], "backward", u[2])
  BY <1>0, <1>1, <1>3, CarriesCalm
<1>5. got'[u] = << >> /\ recv'[u] = << >> /\ sent'[u] = 0
  BY <1>1, <1>2, UserEffect, TypeParts
<1>6. upSent'[u] = 0 /\ put'[u] = << >>
  BY <1>1, <1>2, ForwardEffect, TypeParts
<1> QED  BY <1>4, <1>5, <1>6

\* Once it has, neither its Open nor its dial is to come.
LEMMA StartedStep ==
    ASSUME TypeOK, FrameIds, OpenOnce, NotStarted, Next, NEW u \in Tunnels,
           task[u] \notin {"none", "dialing"}
    PROVE  /\ ~Open(u) /\ ~DialOk(u) /\ (Forwarding(u)' => Forwarding(u))
           /\ handler'[u] # "none" => handler[u] # "none"
           /\ handler'[u] = "ack" => handler[u] = "ack" /\ ~ConnectedArrives(u)
<1>1. ~DialOk(u)
  BY DEF DialOk
<1>2. ~Open(u)
  BY DEF Open, OpenOnce
<1>3. Forwarding(u)' => Forwarding(u)
  BY <1>1, ForwardingStep
<1>4. ConnectedArrives(u) => handler'[u] # "ack"
  BY ConnectedArrivesEffect
<1> QED  BY <1>1, <1>2, <1>3, <1>4, HandlerStep

LEMMA ArrivedFacts ==
    ASSUME TypeOK, NEW u \in Tunnels
    PROVE  /\ got[u] \in Seq(Nat) /\ recv[u] \in Seq(Nat)
           /\ Len(got[u]) \in Nat /\ Len(recv[u]) \in Nat /\ Arrived(u) \in Nat
           /\ upSent[u] \in Nat
<1>1. got[u] \in Seq(Nat) /\ recv[u] \in Seq(Nat) /\ upSent[u] \in Nat
  BY DEF TypeOK
<1>2. Len(got[u]) \in Nat /\ Len(recv[u]) \in Nat
  BY <1>1
<1>3. Arrived(u) \in Nat
  <2>1. \A x, y \in Nat : x + y \in Nat  OBVIOUS
  <2> QED  BY <1>2, <2>1, Zenon DEF Arrived
<1> QED  BY <1>1, <1>2, <1>3

LEMMA BackwardOrderStep ==
    ASSUME TypeOK, FrameIds, OpenOnce, NotStarted, BackwardOrder, ConnectedFirst, Next
    PROVE  BackwardOrder'
<1> SUFFICES ASSUME NEW u \in Tunnels, Undisturbed(u)', handler'[u] # "none"
             PROVE  /\ Runs(chan'[Far(u)], "backward", u[2], Arrived(u)', upSent'[u])
                    /\ Working(Far(u))' /\ Forwarding(u)' =>
                          Full(chan'[Far(u)], "backward", u[2], Arrived(u)', upSent'[u])
  BY DEF BackwardOrder, Far
<1> DEFINE c == chan[Far(u)]
           d == chan'[Far(u)]
<1>0. /\ Far(u) \in Sides /\ u[2] \in Ids /\ c \in Seq(Frames)
      /\ Arrived(u) \in Nat /\ upSent[u] \in Nat
      /\ Arrived(u)' = Len(got'[u]) + Len(recv'[u])
      /\ Arrived(u) = Len(got[u]) + Len(recv[u])
  BY TunnelFacts, ArrivedFacts DEF FrameIds, Arrived
<1>1. Undisturbed(u) /\ (Working(Far(u))' => Working(Far(u)))
  BY <1>0, TypeStep, UndisturbedStep DEF Lasting
<1>2. CASE task[u] \in {"none", "dialing"}
  <2>1. Arrived(u)' = 0 /\ upSent'[u] = 0 /\ ~Carries(d, "backward", u[2])
    <3>1. /\ upSent'[u] = 0 /\ got'[u] = << >> /\ recv'[u] = << >>
          /\ ~Carries(d, "backward", u[2])
      BY <1>2, NothingFlows
    <3>2. Len(got'[u]) = 0 /\ Len(recv'[u]) = 0
      BY <3>1
    <3> QED  BY <1>0, <3>1, <3>2
  <2> QED  BY <2>1, RunsNone
<1>3. CASE task[u] \notin {"none", "dialing"}
  <2>1. handler[u] # "none" /\ (Forwarding(u)' => Forwarding(u))
    BY <1>3, StartedStep
  <2>2. /\ Runs(c, "backward", u[2], Arrived(u), upSent[u])
        /\ Working(Far(u)) /\ Forwarding(u) =>
              Full(c, "backward", u[2], Arrived(u), upSent[u])
    BY <1>1, <2>1 DEF BackwardOrder
  <2>3. CASE UpstreamData(u)
    <3>1. /\ upSent'[u] = upSent[u] + 1 /\ UNCHANGED <<got, recv, task, fwd>>
          /\ \/ /\ fwd[u] /\ Working(Far(u))
                /\ d = Append(c, Frame("backward", u[2], upSent[u] + 1))
             \/ UNCHANGED chan /\ (~Working(Far(u)) \/ ~Forwarding(u))
      BY <2>3, UpstreamDataEffect
    <3>2. Arrived(u)' = Arrived(u)
      BY <1>0, <3>1
    <3>3. CASE /\ fwd[u] /\ Working(Far(u))
               /\ d = Append(c, Frame("backward", u[2], upSent[u] + 1))
      <4> DEFINE f == Frame("backward", u[2], upSent[u] + 1)
      <4>1. f \in Frames /\ f.n = upSent[u] + 1 /\ Match(f, "backward", u[2])
        <5>1. upSent[u] + 1 \in Nat  BY <1>0
        <5> QED  BY <1>0, <5>1, FrameFacts, KindsFacts DEF TunnelKinds
      <4>2. Forwarding(u)
        BY <3>3 DEF Forwarding
      <4> HIDE DEF f, c, d
      <4>3. /\ Runs(Append(c, f), "backward", u[2], Arrived(u), upSent[u] + 1)
            /\ Full(Append(c, f), "backward", u[2], Arrived(u), upSent[u] + 1)
        BY <1>0, <2>2, <3>3, <4>1, <4>2, RunsAppend
      <4> QED  BY <3>1, <3>2, <3>3, <4>3 DEF f, d
    <3>4. CASE UNCHANGED chan /\ (~Working(Far(u)) \/ ~Forwarding(u))
      <4>1. upSent[u] + 1 \in Nat /\ upSent[u] <= upSent[u] + 1 /\ d = c
        BY <1>0, <3>4
      <4>2. Runs(c, "backward", u[2], Arrived(u), upSent[u] + 1)
        BY <1>0, <2>2, <4>1, RunsMore
      <4> QED  BY <1>1, <2>1, <3>1, <3>2, <3>4, <4>1, <4>2
    <3> QED  BY <3>1, <3>3, <3>4
  <2>4. CASE BackwardArrives(u)
    <3>1. c # << >> /\ Match(Head(c), "backward", u[2])
      BY <2>4, ArrivalCarried
    <3>2. /\ Head(c).n = Arrived(u) + 1 /\ Arrived(u) + 1 <= upSent[u]
          /\ Runs(Tail(c), "backward", u[2], Arrived(u) + 1, upSent[u])
          /\ Full(c, "backward", u[2], Arrived(u), upSent[u]) =>
                Full(Tail(c), "backward", u[2], Arrived(u) + 1, upSent[u])
      BY <1>0, <2>2, <3>1, RunsTail
    <3>3. handler[u] = "connected"
      BY <1>1, <2>1, <2>4, BackwardMeetsHandler
    <3>4. /\ d = Tail(c) /\ UNCHANGED <<got, upSent>>
          /\ recv'[u] = Append(recv[u], Head(c).n)
      BY <2>4, <3>3, BackwardArrivesEffect
    <3>5. Len(recv'[u]) = Len(recv[u]) + 1
      <4>1. Arrived(u) + 1 \in Nat
        <5>1. \A x \in Nat : x + 1 \in Nat  OBVIOUS
        <5> QED  BY <1>0, <5>1, Zenon
      <4>2. Head(c).n \in Nat
        BY <3>2, <4>1, Zenon
      <4> QED  BY <3>4, <4>2, ArrivedFacts, AppendFacts
    <3>6. Arrived(u)' = Arrived(u) + 1
      <4> HIDE DEF c, d
      <4>1. Arrived(u)' = Len(got[u]) + (Len(recv[u]) + 1)
        BY <1>0, <3>4, <3>5
      <4>2. Len(got[u]) \in Nat /\ Len(recv[u]) \in Nat
        BY ArrivedFacts
      <4>3. Len(got[u]) + (Len(recv[u]) + 1) = (Len(got[u]) + Len(recv[u])) + 1
        <5>1. \A x, y \in Nat : x + (y + 1) = (x + y) + 1  OBVIOUS
        <5> QED  BY <4>2, <5>1, Zenon
      <4> QED  BY <1>0, <4>1, <4>3
    <3> QED  BY <1>1, <2>1, <2>2, <3>2, <3>4, <3>6
  <2>5. CASE Read(u)
    <3>1. /\ Len(got'[u]) + Len(recv'[u]) = Len(got[u]) + Len(recv[u])
          /\ UNCHANGED <<chan, upSent>>
      BY <2>5, ReadEffect
    <3>2. Arrived(u)' = Arrived(u) /\ d = c
      BY <1>0, <3>1
    <3> QED  BY <1>1, <2>1, <2>2, <3>1, <3>2
  <2>6. CASE ~UpstreamData(u) /\ ~BackwardArrives(u) /\ ~Read(u)
    <3>1. got'[u] = got[u] /\ recv'[u] = recv[u]
      BY <2>6, UserEffect, TypeParts
    <3>2. upSent'[u] = upSent[u]
      BY <2>6, ForwardEffect, TypeParts
    <3>3. Arrived(u)' = Arrived(u) /\ Calm(Far(u), "backward", u[2])
      BY <1>0, <2>6, <3>1, FrameEffect
    <3> QED  BY <1>0, <1>1, <2>1, <2>2, <3>2, <3>3, RunsCalm
  <2> QED  BY <2>3, <2>4, <2>5, <2>6
<1> QED  BY <1>2, <1>3

LEMMA ConnectedFirstStep ==
    ASSUME TypeOK, FrameIds, OpenOnce, NotStarted, ConnectedFirst, Next
    PROVE  ConnectedFirst'
<1> SUFFICES ASSUME NEW u \in Tunnels, Undisturbed(u)', handler'[u] = "ack"
             PROVE  /\ Announced(chan'[Far(u)], u[2])
                    /\ Working(Far(u))' /\ Forwarding(u)' =>
                          Carries(chan'[Far(u)], "connected", u[2])
  BY DEF ConnectedFirst, Far
<1> DEFINE c == chan[Far(u)]
           d == chan'[Far(u)]
<1>0. Far(u) \in Sides /\ u[2] \in Ids /\ c \in Seq(Frames)
  BY TunnelFacts DEF FrameIds
<1>1. /\ Undisturbed(u) /\ u \notin lost'
      /\ Working(Far(u))' => Working(Far(u))
  BY <1>0, TypeStep, UndisturbedStep DEF Lasting
<1>2. CASE task[u] \in {"none", "dialing"}
  <2>1. Announced(d, u[2])
    <3>1. ~Carries(d, "backward", u[2])
      BY <1>2, NothingFlows
    <3> QED  BY <3>1 DEF Announced, Carries
  <2>2. ASSUME Working(Far(u))', Forwarding(u)'
        PROVE  Carries(d, "connected", u[2])
    <3>1. ~Forwarding(u)
      BY <1>2 DEF NotStarted, Forwarding
    <3>2. DialOk(u)
      BY <2>2, <3>1, ForwardingStep
    <3>3. SendFor(u, Far(u), Frame("connected", u[2], 0))
      BY <3>2 DEF DialOk
    <3>4. Accept(Far(u), Frame("connected", u[2], 0))
      BY <1>1, <2>2, <3>3 DEF SendFor
    <3>5. /\ Frame("connected", u[2], 0) \in Frames
          /\ Match(Frame("connected", u[2], 0), "connected", u[2])
      BY <1>0, FrameFacts, KindsFacts DEF TunnelKinds
    <3>6. d = Append(c, Frame("connected", u[2], 0))
      BY <1>0, <3>4, <3>5, AcceptCalm
    <3> QED  BY <1>0, <3>5, <3>6, CarriesAppend
  <2> QED  BY <2>1, <2>2
<1>3. CASE task[u] \notin {"none", "dialing"}
  <2>1. /\ handler[u] = "ack" /\ ~ConnectedArrives(u) /\ ~DialOk(u)
        /\ Forwarding(u)' => Forwarding(u)
    BY <1>3, StartedStep
  <2>2. /\ Announced(c, u[2])
        /\ Working(Far(u)) /\ Forwarding(u) => Carries(c, "connected", u[2])
    BY <1>1, <2>1 DEF ConnectedFirst
  <2>3. Calm(Far(u), "connected", u[2])
    BY <2>1, FrameEffect
  <2>4. Working(Far(u))' /\ Forwarding(u)' => Carries(d, "connected", u[2])
    BY <1>0, <1>1, <2>1, <2>2, <2>3, CarriesCalm
  <2>5. CASE UpstreamData(u)
    <3>1. \/ /\ fwd[u] /\ Working(Far(u))
             /\ d = Append(c, Frame("backward", u[2], upSent[u] + 1))
          \/ UNCHANGED chan
      BY <2>5, UpstreamDataEffect
    <3>2. CASE /\ fwd[u] /\ Working(Far(u))
               /\ d = Append(c, Frame("backward", u[2], upSent[u] + 1))
      <4>1. Frame("backward", u[2], upSent[u] + 1) \in Frames
        <5>1. upSent[u] \in Nat  BY ArrivedFacts
        <5>2. upSent[u] + 1 \in Nat  BY <5>1
        <5> QED  BY <1>0, <5>2, FrameFacts, KindsFacts DEF TunnelKinds
      <4>2. Carries(c, "connected", u[2])
        BY <2>2, <3>2 DEF Forwarding
      <4>3. Announced(d, u[2])
        BY <1>0, <2>2, <3>2, <4>1, <4>2, AnnouncedAppend
      <4> QED  BY <2>4, <4>3
    <3>3. CASE UNCHANGED chan
      BY <2>2, <2>4, <3>3
    <3> QED  BY <3>1, <3>2, <3>3
  <2>6. CASE ~UpstreamData(u)
    <3>1. ~BackwardArrives(u)
      BY <1>1, <2>1, BackwardMeetsHandler
    <3>2. Calm(Far(u), "backward", u[2])
      BY <2>6, <3>1, FrameEffect
    <3> QED  BY <1>0, <2>2, <2>3, <2>4, <3>2, AnnouncedCalm
  <2> QED  BY <2>5, <2>6
<1> QED  BY <1>2, <1>3

LEMMA PrefixAppend ==
    ASSUME NEW s \in Seq(Nat), NEW n \in Nat, NEW x \in Nat, Prefix(s, n),
           x = Len(s) + 1, Len(s) + 1 <= n
    PROVE  Prefix(Append(s, x), n)
  BY AppendFacts DEF Prefix

LEMMA PrefixMore ==
    ASSUME NEW s \in Seq(Nat), NEW n \in Nat, Prefix(s, n)
    PROVE  Prefix(s, n + 1)
<1>1. Len(s) \in Nat
  OBVIOUS
<1> QED  BY <1>1 DEF Prefix

LEMMA ConcatAppend ==
    ASSUME NEW s \in Seq(Nat), NEW r \in Seq(Nat), NEW x \in Nat
    PROVE  /\ s \o Append(r, x) = Append(s \o r, x)
           /\ s \o r \in Seq(Nat) /\ Len(s \o r) = Len(s) + Len(r)
<1> DEFINE a == s \o Append(r, x)
           b == Append(s \o r, x)
<1>1. /\ s \o r \in Seq(Nat) /\ Append(r, x) \in Seq(Nat) /\ Len(s \o r) = Len(s) + Len(r)
      /\ Len(s) \in Nat /\ Len(r) \in Nat
  OBVIOUS
<1>2. a \in Seq(Nat) /\ b \in Seq(Nat) /\ Len(a) = Len(b)
  BY <1>1
<1>3. \A i \in 1 .. Len(a) : a[i] = b[i]
  BY <1>1
<1> HIDE DEF a, b
<1>4. a = b
  BY <1>2, <1>3, SeqEqual
<1> QED  BY <1>1, <1>4 DEF a, b

LEMMA InOrderStep ==
    ASSUME TypeOK, FrameIds, Ordered, Next
    PROVE  InOrder'
<1> SUFFICES ASSUME NEW u \in Tunnels, Undisturbed(u)'
             PROVE  /\ Prefix(got'[u] \o recv'[u], upSent'[u])
                    /\ Prefix(put'[u], sent'[u])
  BY DEF InOrder
<1>0. /\ u[1] \in Sides /\ Far(u) \in Sides
      /\ chan[u[1]] \in Seq(Frames) /\ chan[Far(u)] \in Seq(Frames)
      /\ got[u] \in Seq(Nat) /\ recv[u] \in Seq(Nat) /\ put[u] \in Seq(Nat)
      /\ upSent[u] \in Nat /\ sent[u] \in Nat /\ Arrived(u) \in Nat
      /\ Len(put[u]) \in Nat
  <2>1. put[u] \in Seq(Nat) /\ sent[u] \in Nat
    BY DEF TypeOK
  <2> QED  BY <2>1, TunnelFacts, ArrivedFacts DEF FrameIds
<1>1. /\ Undisturbed(u) /\ u \notin early
      /\ ForwardOrder /\ BackwardOrder /\ ConnectedFirst /\ InOrder
  BY UndisturbedStep DEF Ordered
<1>2. Prefix(got[u] \o recv[u], upSent[u]) /\ Prefix(put[u], sent[u])
  BY <1>1 DEF InOrder
<1>3. Prefix(put'[u], sent'[u])
  <2>1. CASE Write(u)
    <3>1. sent' = [sent EXCEPT ![u] = @ + 1] /\ UNCHANGED put
      BY <2>1 DEF Write, forwardVars
    <3>2. sent'[u] = sent[u] + 1
      BY <3>1 DEF TypeOK
    <3> QED  BY <1>0, <1>2, <3>1, <3>2, PrefixMore
  <2>2. CASE ForwardArrives(u)
    <3> DEFINE h == Head(chan[u[1]])
    <3>1. /\ sent'[u] = sent[u]
          /\ put'[u] = put[u] \/ (fwd[u] /\ put'[u] = Append(put[u], h.n))
      BY <2>2, ForwardArrivesEffect
    <3>2. CASE fwd[u] /\ put'[u] = Append(put[u], h.n)
      <4>1. Runs(chan[u[1]], "forward", u[2], Len(put[u]), sent[u])
        BY <1>1, <3>2 DEF ForwardOrder, Forwarding
      <4>2. chan[u[1]] # << >> /\ Match(h, "forward", u[2])
        BY <2>2, ArrivalCarried
      <4>3. h.n = Len(put[u]) + 1 /\ Len(put[u]) + 1 <= sent[u]
        BY <1>0, <4>1, <4>2, RunsTail
      <4> HIDE DEF h
      <4>4. h.n \in Nat
        BY <1>0, <4>3
      <4> QED  BY <1>0, <1>2, <3>1, <3>2, <4>3, <4>4, PrefixAppend
    <3> QED  BY <1>2, <3>1, <3>2
  <2>3. CASE ~Write(u) /\ ~ForwardArrives(u)
    BY <1>2, <2>3, UserEffect, ForwardEffect, TypeParts
  <2> QED  BY <2>1, <2>2, <2>3
<1>4. Prefix(got'[u] \o recv'[u], upSent'[u])
  <2>1. CASE UpstreamData(u)
    <3>1. upSent'[u] = upSent[u] + 1 /\ UNCHANGED <<got, recv>>
      BY <2>1, UpstreamDataEffect
    <3>2. got[u] \o recv[u] \in Seq(Nat)
      BY <1>0
    <3> QED  BY <1>0, <1>2, <3>1, <3>2, PrefixMore
  <2>2. CASE BackwardArrives(u)
    <3> DEFINE h == Head(chan[Far(u)])
    <3>1. /\ UNCHANGED <<got, upSent>>
          /\ recv'[u] = IF handler[u] = "connected" THEN Append(recv[u], h.n) ELSE recv[u]
      BY <2>2, BackwardArrivesEffect
    <3>2. CASE handler[u] = "connected"
      <4>1. Runs(chan[Far(u)], "backward", u[2], Arrived(u), upSent[u])
        BY <1>1, <3>2 DEF BackwardOrder
      <4>2. chan[Far(u)] # << >> /\ Match(h, "backward", u[2])
        BY <2>2, ArrivalCarried
      <4>3. h.n = Arrived(u) + 1 /\ Arrived(u) + 1 <= upSent[u]
        BY <1>0, <4>1, <4>2, RunsTail
      <4> HIDE DEF h
      <4>4. h.n \in Nat
        <5>1. \A x \in Nat : x + 1 \in Nat  OBVIOUS
        <5> QED  BY <1>0, <4>3, <5>1, Zenon
      <4>5. /\ got[u] \o Append(recv[u], h.n) = Append(got[u] \o recv[u], h.n)
            /\ got[u] \o recv[u] \in Seq(Nat) /\ Len(got[u] \o recv[u]) = Arrived(u)
        BY <1>0, <4>4, ConcatAppend DEF Arrived
      <4>6. Prefix(Append(got[u] \o recv[u], h.n), upSent[u])
        BY <1>0, <1>2, <4>3, <4>4, <4>5, PrefixAppend
      <4> QED  BY <3>1, <3>2, <4>5, <4>6
    <3>3. CASE handler[u] # "connected"
      BY <1>2, <3>1, <3>3
    <3> QED  BY <3>2, <3>3
  <2>3. CASE Read(u)
    BY <1>2, <2>3, ReadEffect
  <2>4. CASE ~UpstreamData(u) /\ ~BackwardArrives(u) /\ ~Read(u)
    BY <1>2, <2>4, UserEffect, ForwardEffect, TypeParts
  <2> QED  BY <2>1, <2>2, <2>3, <2>4
<1> QED  BY <1>3, <1>4

-----------------------------------------------------------------------------
(* What may cut a stream.                                                  *)

LEMMA SharedStep ==
    ASSUME TypeOK, FrameIds, Next, NEW u \in Tunnels, Shared(u)
    PROVE  Shared(u)'
<1>1. Twin(u) \in Tunnels
  BY TunnelFacts
<1>2. user'[Twin(u)] # "idle"
  BY <1>1, IdleStep DEF Shared
<1> QED  BY <1>2 DEF Shared, Twin, Far

\* A tunnel that is gone stays so.
LEMMA GoneStep ==
    ASSUME TypeOK, FrameIds, OpenOnce, Next, NEW u \in Tunnels, Gone(u)
    PROVE  Gone(u)'
<1>0. u[1] \in Sides
  BY TunnelFacts
<1>1. ConnectArrives(u) => Carries(chan[u[1]], "connect", u[2]) /\ task[u] = "none"
  BY ArrivalCarried DEF OpenOnce
<1>2. ~fwd[u] /\ task[u] \in {"none", "done"}
  BY DEF Gone
<1>3. ~Register(u)
  BY <1>2 DEF Register
<1>4. ~fwd'[u]
  BY <1>2, <1>3, ForwardEffect, TypeParts
<1>5. CASE task[u] = "done"
  <2>1. task'[u] = "done"
    BY <1>1, <1>5, TaskStep
  <2> QED  BY <1>4, <2>1 DEF Gone
<1>6. CASE /\ task[u] = "none" /\ user[u] # "idle"
           /\ ~Carries(chan[u[1]], "connect", u[2])
  <2>1. task'[u] = "none"
    BY <1>1, <1>6, TaskStep
  <2>2. user'[u] # "idle"
    BY <1>6, IdleStep
  <2>3. ~Open(u)
    BY <1>6 DEF Open
  <2>4. Calm(u[1], "connect", u[2])
    BY <1>1, <1>6, <2>3, FrameEffect
  <2>5. ~Carries(chan'[u[1]], "connect", u[2])
    BY <1>0, <1>6, <2>4, CarriesCalm
  <2> QED  BY <1>4, <2>1, <2>2, <2>5 DEF Gone
<1> QED  BY <1>5, <1>6 DEF Gone

\* An error for the user of u is sent when u is gone, or by its twin.
LEMMA ErrorIsSent ==
    ASSUME TypeOK, FrameIds, OpenOnce, NotStarted, Registered, Next, NEW u \in Tunnels,
           ~Carries(chan[Far(u)], "error", u[2]),
           Carries(chan'[Far(u)], "error", u[2])
    PROVE  Shared(u)' \/ Gone(u)'
<1>0. u[1] \in Sides /\ Far(u) \in Sides /\ Twin(u) \in Tunnels /\ chan[u[1]] \in Seq(Frames)
  BY TunnelFacts DEF FrameIds
<1>1. ~Calm(Far(u), "error", u[2]) /\ chan'[Far(u)] # chan[Far(u)]
  BY <1>0, CarriesCalm
<1>2. ~ErrorAtUser(u)
  BY ArrivalCarried
<1>3. fwd[u] => task[u] = "done"
  BY DEF Registered
<1>4. CASE DialFails(u)
  <2>1. task[u] = "dialing" /\ task' = [task EXCEPT ![u] = "done"] /\ UNCHANGED fwd
    BY <1>4 DEF DialFails
  <2>2. task'[u] = "done"
    BY <2>1 DEF TypeOK
  <2> QED  BY <1>3, <2>1, <2>2 DEF Gone
<1>5. CASE UpstreamEnds(u)
  <2>1. /\ fwd' = [fwd EXCEPT ![u] = FALSE] /\ UNCHANGED task
        /\ fwd[u] \/ UNCHANGED chan
    BY <1>5 DEF UpstreamEnds
  <2>2. ~fwd'[u]
    BY <2>1 DEF TypeOK
  <2> QED  BY <1>1, <1>3, <2>1, <2>2 DEF Gone
<1>6. CASE ConnectArrives(u)
  <2>1. /\ chan[u[1]] # << >> /\ Match(Head(chan[u[1]]), "connect", u[2])
        /\ Carries(chan[u[1]], "connect", u[2])
    BY <1>6, ArrivalCarried
  <2>2. task[u] = "none" /\ user[u] # "idle" /\ Single(chan[u[1]], "connect", u[2])
    BY <2>1 DEF OpenOnce
  <2>3. ~Carries(Tail(chan[u[1]]), "connect", u[2])
    BY <1>0, <2>1, <2>2, CarriesTail
  <2>4. /\ chan'[u[1]] = Tail(chan[u[1]]) /\ UNCHANGED <<user, fwd>>
        /\ task'[u] = task[u]
    BY <1>1, <1>6, ConnectArrivesEffect
  <2> QED  BY <1>3, <2>2, <2>3, <2>4 DEF Gone
<1>7. CASE ForwardArrives(u)
  <2>1. fwd[u] /\ ~fwd'[u] /\ UNCHANGED task
    BY <1>1, <1>7, ForwardArrivesEffect
  <2> QED  BY <1>3, <2>1 DEF Gone
<1>8. CASE Close(Twin(u))
  <2>1. Shared(u)
    BY <1>8 DEF Close, Shared
  <2> QED  BY <2>1, SharedStep
<1> QED  BY <1>1, <1>2, <1>4, <1>5, <1>6, <1>7, <1>8, FrameEffect

LEMMA ErrorInvStep ==
    ASSUME TypeOK, FrameIds, OpenOnce, NotStarted, Registered, ErrorInv, Next
    PROVE  ErrorInv'
<1> SUFFICES ASSUME NEW u \in Tunnels, Carries(chan'[Far(u)], "error", u[2])
             PROVE  Shared(u)' \/ Gone(u)'
  BY DEF ErrorInv, Far
<1>1. CASE Carries(chan[Far(u)], "error", u[2])
  <2>1. Shared(u) \/ Gone(u)
    BY <1>1 DEF ErrorInv
  <2> QED  BY <2>1, SharedStep, GoneStep
<1>2. CASE ~Carries(chan[Far(u)], "error", u[2])
  BY <1>2, ErrorIsSent
<1> QED  BY <1>1, <1>2

\* A user that has closed its stream stays out.
LEMMA ClosedStep ==
    ASSUME TypeOK, FrameIds, Next, NEW u \in Tunnels, user[u] \in {"closing", "closed"}
    PROVE  user'[u] \in {"closing", "closed"}
<1>1. /\ ~Open(u) /\ ~AckFails(u) /\ ~AckConnected(u) /\ ~Abandon(u)
      /\ ~ReadEnds(u) /\ ~Close(u)
  BY DEF Open, AckFails, AckConnected, Abandon, ReadEnds, Close
<1>2. Reap(u) => user'[u] = "closed"
  BY DEF Reap, TypeOK
<1> QED  BY <1>1, <1>2, UserEffect, TypeParts

LEMMA CutInvStep ==
    ASSUME TypeOK, FrameIds, OpenOnce, ErrorInv, CutInv, Next
    PROVE  CutInv'
<1> SUFFICES ASSUME NEW u \in Tunnels, cut'[u]
             PROVE  \/ user'[u] \in {"closing", "closed"} \/ dropped'[u[1]]
                    \/ Shared(u)' \/ Gone(u)'
  BY DEF CutInv
<1>0. u[1] \in Sides
  BY TunnelFacts
<1>1. CASE cut[u]
  <2>1. \/ user[u] \in {"closing", "closed"} \/ dropped[u[1]]
        \/ Shared(u) \/ Gone(u)
    BY <1>1 DEF CutInv
  <2>2. dropped[u[1]] => dropped'[u[1]]
    BY <1>0, TypeStep DEF Lasting
  <2> QED  BY <2>1, <2>2, ClosedStep, SharedStep, GoneStep
<1>2. CASE ~cut[u]
  <2>1. CASE Close(u)
    <3>1. user' = [user EXCEPT ![u] = IF cut[u] THEN "closed" ELSE "closing"]
      BY <2>1 DEF Close
    <3>2. user'[u] = "closing"
      BY <1>2, <3>1 DEF TypeOK
    <3> QED  BY <3>2
  <2>2. CASE ErrorAtUser(u)
    <3>1. Carries(chan[Far(u)], "error", u[2])
      BY <2>2, ArrivalCarried
    <3>2. Shared(u) \/ Gone(u)
      BY <3>1 DEF ErrorInv
    <3> QED  BY <3>2, SharedStep, GoneStep
  <2>3. CASE DropConnection(u[1])
    BY <1>0, <2>3 DEF DropConnection, TypeOK
  <2> QED  BY <1>2, <2>1, <2>2, <2>3, UserEffect, TypeParts
<1> QED  BY <1>1, <1>2

-----------------------------------------------------------------------------
(* The theorems.                                                           *)

LEMMA InitIInv == Init => IInv
<1> SUFFICES ASSUME Init PROVE IInv
  OBVIOUS
<1>0. << >> \in Seq(Frames) /\ << >> \in Seq(Nat) /\ Len(<< >>) = 0
  OBVIOUS
<1>1. \A p \in Sides : chan[p] = << >>
  BY DEF Init
<1>2. FrameIds
  BY <1>0 DEF Init, FrameIds
<1>3. TypeOK
  <2>1. TypeUser
    BY <1>0 DEF Init, TypeUser, UserStates
  <2>2. TypeForward
    BY <1>0 DEF Init, TypeForward
  <2>3. TypeSession
    BY DEF Init, TypeSession, Sides
  <2> QED  BY <1>2, <2>1, <2>2, <2>3, TypeParts
<1>4. \A p \in Sides : \A K, id : ~Carries(chan[p], K, id) /\ Single(chan[p], K, id)
  BY <1>0, <1>1 DEF Carries, Single
<1>5. ASSUME NEW t \in Tunnels
      PROVE  /\ user[t] = "idle" /\ handler[t] = "none" /\ task[t] = "none"
             /\ ~cut[t] /\ ~fwd[t] /\ ~reading[t]
             /\ sent[t] = 0 /\ upSent[t] = 0
             /\ put[t] = << >> /\ got[t] = << >> /\ recv[t] = << >>
             /\ t[1] \in Sides /\ Far(t) \in Sides
  BY TunnelFacts DEF Init
<1>6. OpenOnce /\ NotStarted
  BY <1>4, <1>5 DEF OpenOnce, NotStarted
<1>7. Registered /\ NoStaleHandler /\ CutHandler
  BY <1>5 DEF Registered, NoStaleHandler, CutHandler
<1>8. ForwardOrder /\ BackwardOrder /\ ConnectedFirst
  BY <1>5 DEF ForwardOrder, BackwardOrder, ConnectedFirst, Forwarding
<1>9. InOrder
  <2>1. Prefix(<< >> \o << >>, 0) /\ Prefix(<< >>, 0)
    BY DEF Prefix
  <2> QED  BY <1>5, <2>1 DEF InOrder
<1>10. ErrorInv /\ CutInv
  BY <1>4, <1>5 DEF ErrorInv, CutInv
<1> QED  BY <1>2, <1>3, <1>6, <1>7, <1>8, <1>9, <1>10 DEF IInv, Ordered

LEMMA StepIInv == IInv /\ [Next]_vars => IInv'
<1> SUFFICES ASSUME IInv, [Next]_vars PROVE IInv'
  OBVIOUS
<1>1. /\ TypeOK /\ FrameIds /\ OpenOnce /\ NotStarted /\ Registered
      /\ NoStaleHandler /\ CutHandler /\ Ordered /\ ErrorInv /\ CutInv
      /\ ForwardOrder /\ BackwardOrder /\ ConnectedFirst /\ InOrder
  BY DEF IInv, Ordered
<1>2. CASE Next
  <2>1. TypeOK' /\ FrameIds'
    BY <1>1, <1>2, TypeStep
  <2>2. OpenOnce' /\ NotStarted' /\ Registered'
    BY <1>1, <1>2, OpenOnceStep, NotStartedStep, RegisteredStep
  <2>3. NoStaleHandler' /\ CutHandler'
    BY <1>1, <1>2, HandlersStep
  <2>4. ForwardOrder' /\ BackwardOrder' /\ ConnectedFirst' /\ InOrder'
    BY <1>1, <1>2, ForwardOrderStep, BackwardOrderStep, ConnectedFirstStep, InOrderStep
  <2>5. ErrorInv' /\ CutInv'
    BY <1>1, <1>2, ErrorInvStep, CutInvStep
  <2> QED  BY <2>1, <2>2, <2>3, <2>4, <2>5 DEF IInv, Ordered
<1>3. CASE UNCHANGED vars
  <2> USE <1>3 DEF vars, sessionVars, userVars, forwardVars, fileVars
  <2>1. TypeOK' /\ FrameIds'
    BY <1>1 DEF TypeOK, FrameIds
  <2>2. OpenOnce' /\ NotStarted' /\ Registered' /\ NoStaleHandler' /\ CutHandler'
    BY <1>1 DEF OpenOnce, NotStarted, Registered, NoStaleHandler, CutHandler
  <2>3. ForwardOrder' /\ BackwardOrder' /\ ConnectedFirst' /\ InOrder'
    BY <1>1 DEF ForwardOrder, BackwardOrder, ConnectedFirst, InOrder,
                Forwarding, Working, Undisturbed, Arrived
  <2>4. ErrorInv' /\ CutInv'
    BY <1>1 DEF ErrorInv, CutInv, Shared, Gone
  <2> QED  BY <2>1, <2>2, <2>3, <2>4 DEF IInv, Ordered
<1> QED  BY <1>2, <1>3

\* Whatever the two sides of a session, their users, upstreams and network do,
\* the inductive invariant holds.
THEOREM IInvHolds == Spec => []IInv
  BY InitIInv, StepIInv, PTL DEF Spec

\* Every variable has its type, forward_proxy_handlers leaks only the named
\* entries (connect_to_forward_proxy_connection removes every other one), and a
\* tunnel in forward_connections has an upstream that is read, unless that one
\* closed before add_forward_connection (handle_forward_connect).
THEOREM TunnelSoundHolds == Spec => []TunnelSound
<1>1. IInv => TunnelSound
  BY DEF IInv, TunnelSound, NoDeadEntry, Registered
<1> QED  BY <1>1, IInvHolds, PTL

\* forward_payload gives an upstream, and incoming_payload_for_proxy_connection
\* gives a user, what the other end has sent, from the first payload on, in
\* order and without a hole, though frames carry ids that both sides use: unless
\* a refused or an early frame has disturbed the tunnel.
THEOREM InOrderHolds == Spec => []InOrder
<1>1. IInv => InOrder
  BY DEF IInv, Ordered
<1> QED  BY <1>1, IInvHolds, PTL

\* disconnect_forward_proxy_connection cuts an open stream whose tunnel is still
\* forwarded only if the other side has used the same id; otherwise the whole
\* session was dropped.
THEOREM OnlyTwinCutsHolds == Spec => []OnlyTwinCuts
<1>1. IInv => OnlyTwinCuts
  BY DEF IInv, OnlyTwinCuts, CutInv, Gone, Shared
<1> QED  BY <1>1, IInvHolds, PTL
=============================================================================
