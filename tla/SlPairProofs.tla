---------------------------- MODULE SlPairProofs ----------------------------
(***************************************************************************)
(* Proofs about the two terminals of SlPair, for every value of the        *)
(* constants: they stay well typed (PairTypeCorrect), tell the congestion  *)
(* of their buffers (CongestionIsTold) and, with preventive cyclic         *)
(* retransmission, lose nothing at a changeover, keep the promise of the   *)
(* link service and stay in service (ChangeoverIsComplete, LinkServes,     *)
(* LossNeverFails).                                                        *)
(***************************************************************************)
EXTENDS SlPair, SlFunctionProofs

------------------------------------------------------------------------------
\* What the functions that deal with the buffers do to them.

\* The fields that an acknowledgement may change and how (sl_txc_bsnr_and_bibr).
LEMMA AcknowledgedFields ==
  ASSUME NEW x, SlState(x), NEW bsn \in Sn
  PROVE  LET y == Acknowledged(x, bsn)
             k == (bsn + 1 - x.Ffsn) % Mod
             next == (bsn + 1) % Mod
             q == Dropped(x.rtb, k)
             rewind == SN_OUTSIDE(next, x.Z, x.Lfsn) \/ q = <<>>
         IN  /\ y.tb = x.tb /\ y.rb = x.rb /\ y.Lfsn = x.Lfsn /\ y.Tfsn = x.Tfsn
             /\ y.Xfsn = x.Xfsn /\ y.tXfsn = x.tXfsn /\ y.ib_mask = x.ib_mask
             /\ y.clear_rtb = x.clear_rtb /\ y.Ffsn = next /\ y.rtb = q
             /\ y.forced_retransmission = x.forced_retransmission /\ y.wqc = x.wqc
             /\ y.cong_status = CongestionLevels(x.wqc + Len(x.tb) + Len(q),
                                                x.cong_status, x.disc_status)[1]
             /\ y.Z = IF rewind THEN next ELSE x.Z
             /\ y.pos = IF rewind THEN (IF q = <<>> THEN 0 ELSE 1) ELSE PosAfter(x.pos, k)
<1> DEFINE k == (bsn + 1 - x.Ffsn) % Mod
           next == (bsn + 1) % Mod
           q == Dropped(x.rtb, k)
           rewind == SN_OUTSIDE(next, x.Z, x.Lfsn) \/ q = <<>>
           z == IF rewind THEN next ELSE x.Z
           pos == IF rewind THEN (IF q = <<>> THEN 0 ELSE 1) ELSE PosAfter(x.pos, k)
           level == CongestionLevels(x.wqc + Len(x.tb) + Len(q), x.cong_status, x.disc_status)[1]
           y == Acknowledged(x, bsn)
<1>1. DOMAIN x = Fields
  BY DEF SlState
<1> DEFINE Kept(u) ==
      /\ u.tb = x.tb /\ u.rb = x.rb /\ u.Lfsn = x.Lfsn /\ u.Tfsn = x.Tfsn
      /\ u.Xfsn = x.Xfsn /\ u.tXfsn = x.tXfsn /\ u.ib_mask = x.ib_mask
      /\ u.clear_rtb = x.clear_rtb /\ u.forced_retransmission = x.forced_retransmission
      /\ u.wqc = x.wqc
<1> DEFINE Told(u) == u.cong_status = x.cong_status /\ u.disc_status = x.disc_status
<1> DEFINE o == SibOver(x)
<1>2. DOMAIN o = Fields /\ Kept(o) /\ Told(o) /\ o.rtb = x.rtb /\ o.Z = x.Z /\ o.pos = x.pos
  BY <1>1, SMT DEF SibOver, Fields
<1> HIDE DEF o
<1> DEFINE ct == (o.Ct - k) % CtrMod
           a == [o EXCEPT !.rtb = Dropped(o.rtb, k), !.Ct = ct, !.Ffsn = next]
<1> HIDE DEF k, next, ct
<1>3. /\ DOMAIN a = Fields /\ Kept(a) /\ a.rtb = q /\ a.Ffsn = next /\ a.Z = x.Z /\ a.pos = x.pos
      /\ Told(a)
  BY <1>2, SMT DEF Fields
<1> HIDE DEF a
<1> DEFINE c == sl_check_congestion(a)
<1>4. /\ DOMAIN c = Fields /\ Kept(c) /\ c.rtb = q /\ c.Ffsn = next /\ c.Z = x.Z /\ c.pos = x.pos
      /\ c.cong_status = level
  BY <1>3, SMT DEF sl_check_congestion, Fields
<1> HIDE DEF c
<1> DEFINE tm == IF q = <<>> THEN c.tm \ {"t7"} ELSE c.tm \cup {"t7"}
           full == IF ~PCR \/ Len(q) < N1 THEN 0 ELSE c.rtb_full
           d == [c EXCEPT !.tm = tm, !.rtb_full = full, !.Z = z, !.pos = pos]
<1> HIDE DEF tm, full, z, pos, level
<1>5. /\ Kept(d) /\ d.rtb = q /\ d.Ffsn = next /\ d.Z = z /\ d.pos = pos
      /\ d.cong_status = level
  BY <1>4, SMT DEF Fields
<1>6. y = d
  BY <1>3, <1>4 DEF Acknowledged, d, c, a, o, k, next, ct, z, pos, tm, full
<1> HIDE DEF y, d
<1> QED
  BY <1>5, <1>6 DEF z, pos, level, y, k, next

\* What an MSU in sequence changes.
LEMMA InSequenceFields ==
  ASSUME NEW x, SlState(x), NEW su
  PROVE  LET y == InSequence(x, su)
         IN  /\ y.tb = x.tb /\ y.rtb = x.rtb /\ y.pos = x.pos /\ y.Z = x.Z
             /\ y.Ffsn = x.Ffsn /\ y.Lfsn = x.Lfsn /\ y.Tfsn = x.Tfsn /\ y.rFfsn = x.rFfsn
             /\ y.forced_retransmission = x.forced_retransmission
             /\ y.clear_rtb = x.clear_rtb /\ y.ib_mask = x.ib_mask /\ y.wqc = x.wqc
             /\ y.cong_status = x.cong_status
             /\ y.Xfsn = (x.Xfsn + 1) % Mod /\ y.tXfsn \in {x.tXfsn, (x.Xfsn + 1) % Mod}
             /\ y.rb = Append(x.rb, su.pdu)
<1>1. DOMAIN x = Fields
  BY DEF SlState
<1> DEFINE f == (x.Xfsn + 1) % Mod
           q == Append(x.rb, su.pdu)
           c == (x.Cr + 1) % CtrMod
<1>2. InSequence(x, su) =
        LET a == [x EXCEPT !.Xfsn = f, !.rtr = IF PCR THEN @ ELSE 0, !.rb = q, !.Cr = c]
        IN  IF a.congestion_accept = 1 THEN sl_cc_busy(a) ELSE sl_txc_fsnx_value(a)
  BY <1>1 DEF InSequence
<1> HIDE DEF f, q, c
<1>3. LET y == InSequence(x, su)
      IN  /\ y.tb = x.tb /\ y.rtb = x.rtb /\ y.pos = x.pos /\ y.Z = x.Z
          /\ y.Ffsn = x.Ffsn /\ y.Lfsn = x.Lfsn /\ y.Tfsn = x.Tfsn /\ y.rFfsn = x.rFfsn
          /\ y.forced_retransmission = x.forced_retransmission
          /\ y.clear_rtb = x.clear_rtb /\ y.ib_mask = x.ib_mask /\ y.wqc = x.wqc
          /\ y.cong_status = x.cong_status
          /\ y.Xfsn = f /\ y.tXfsn \in {x.tXfsn, f} /\ y.rb = q
  BY <1>1, <1>2, SMT DEF sl_cc_busy, sl_timer_start, sl_txc_send_sib, sl_txc_fsnx_value, Fields
<1> QED
  BY <1>3 DEF f, q

\* What the transmission of a new message changes.
LEMMA SendNewFields ==
  ASSUME NEW x, SlState(x)
  PROVE  LET y == SendNew(x).st
             fsn == (x.Lfsn + 1) % Mod
             q == Append(x.rtb, Head(x.tb))
         IN  /\ SendNew(x).su = sl_daedt_msu(y, Head(x.tb))
             /\ y.tb = Tail(x.tb) /\ y.rtb = q
             /\ y.Lfsn = fsn /\ y.Tfsn = fsn /\ y.Nfsn = fsn
             /\ y.forced_retransmission =
                  IF PCR /\ Len(q) >= N1 THEN 1 ELSE x.forced_retransmission
             /\ y.pos = x.pos /\ y.Z = x.Z /\ y.Ffsn = x.Ffsn /\ y.rFfsn = x.rFfsn
             /\ y.Xfsn = x.Xfsn /\ y.tXfsn = x.tXfsn /\ y.rb = x.rb
             /\ y.clear_rtb = x.clear_rtb /\ y.ib_mask = x.ib_mask /\ y.wqc = x.wqc
             /\ y.cong_status = x.cong_status
             /\ y.lsc = x.lsc /\ y.iac = x.iac
             /\ y.lssu_available = x.lssu_available /\ y.sio = x.sio
<1> DEFINE fsn == (x.Lfsn + 1) % Mod
           q == Append(x.rtb, Head(x.tb))
           full == Len(q) >= N1
           t == Tail(x.tb)
           cm == (x.Cm - 1) % CtrMod
           ct == (x.Ct + 1) % CtrMod
           isfull == full \/ (~PCR /\ fsn = (x.Ffsn - 2) % Mod)
           n == [x EXCEPT
                   !.tb = t, !.rtb = q, !.Cm = cm, !.Ct = ct,
                   !.Lfsn = fsn, !.Nfsn = fsn, !.Tfsn = fsn,
                   !.tm = @ \cup (IF x.rtb = <<>> THEN {"t7"} ELSE {}),
                   !.rtb_full = IF isfull THEN 1 ELSE @,
                   !.forced_retransmission = IF PCR /\ full THEN 1 ELSE @]
<1>1. DOMAIN x = Fields
  BY DEF SlState
<1>2. SendNew(x).st = n /\ SendNew(x).su = sl_daedt_msu(n, Head(x.tb))
  BY DEF SendNew
<1> HIDE DEF fsn, q, full, t, cm, ct, isfull
<1>3. /\ n.tb = t /\ n.rtb = q /\ n.Lfsn = fsn /\ n.Tfsn = fsn /\ n.Nfsn = fsn
      /\ n.forced_retransmission = IF PCR /\ full THEN 1 ELSE x.forced_retransmission
      /\ n.pos = x.pos /\ n.Z = x.Z /\ n.Ffsn = x.Ffsn /\ n.rFfsn = x.rFfsn
      /\ n.Xfsn = x.Xfsn /\ n.tXfsn = x.tXfsn /\ n.rb = x.rb
      /\ n.clear_rtb = x.clear_rtb /\ n.ib_mask = x.ib_mask /\ n.wqc = x.wqc
      /\ n.cong_status = x.cong_status
      /\ n.lsc = x.lsc /\ n.iac = x.iac
      /\ n.lssu_available = x.lssu_available /\ n.sio = x.sio
  BY <1>1, SMT DEF Fields
<1> HIDE DEF n
<1> QED
  BY <1>2, <1>3 DEF fsn, q, full, t

\* What the repetition of a message changes: z_ptr and Z first start over
\* with PCR, then move to the next message.
LEMMA SendOldFields ==
  ASSUME NEW x, SlState(x), NEW junk
  PROVE  LET r == SendOld(x, junk)
             y == r.st
             over == PCR /\ x.pos = 0
             i == IF over THEN (IF x.rtb = <<>> THEN 0 ELSE 1) ELSE x.pos
             z == IF over THEN x.Ffsn ELSE x.Z
             p == IF i = 0 THEN NoPdu ELSE IF i = -1 THEN junk.pdu ELSE x.rtb[i]
         IN  /\ IF p = NoPdu
                THEN r.su = NoSu /\ y.pos = i /\ y.Z = z
                ELSE /\ r.su = sl_daedt_msu(y, p)
                     /\ y.pos = IF i = -1 THEN junk.pos ELSE IF i = Len(x.rtb) THEN 0 ELSE i + 1
                     /\ y.Z = IF PCR THEN (z + 1) % Mod ELSE z
                     /\ y.Nfsn = IF PCR THEN z ELSE (x.Nfsn + 1) % Mod
             /\ y.tb = x.tb /\ y.rtb = x.rtb /\ y.rb = x.rb
             /\ y.Lfsn = x.Lfsn /\ y.Tfsn = x.Tfsn /\ y.Ffsn = x.Ffsn /\ y.rFfsn = x.rFfsn
             /\ y.Xfsn = x.Xfsn /\ y.tXfsn = x.tXfsn
             /\ y.forced_retransmission = x.forced_retransmission
             /\ y.clear_rtb = x.clear_rtb /\ y.ib_mask = x.ib_mask /\ y.wqc = x.wqc
             /\ y.cong_status = x.cong_status
             /\ y.lsc = x.lsc /\ y.lssu_available = x.lssu_available /\ y.sio = x.sio
<1> DEFINE over == PCR /\ x.pos = 0
           i == IF over THEN (IF x.rtb = <<>> THEN 0 ELSE 1) ELSE x.pos
           z == IF over THEN x.Ffsn ELSE x.Z
           p == IF i = 0 THEN NoPdu ELSE IF i = -1 THEN junk.pdu ELSE x.rtb[i]
           after == IF i = -1 THEN junk.pos ELSE IF i = Len(x.rtb) THEN 0 ELSE i + 1
           fsn == IF PCR THEN z ELSE (x.Nfsn + 1) % Mod
           next == IF PCR THEN (z + 1) % Mod ELSE z
           s == IF over THEN [x EXCEPT !.pos = IF x.rtb = <<>> THEN 0 ELSE 1, !.Z = x.Ffsn]
                        ELSE x
           n == [s EXCEPT !.pos = after, !.Nfsn = fsn, !.Z = next,
                          !.retrans_cycle = IF fsn = s.Lfsn \/ after = 0 THEN 0 ELSE @]
           r == SendOld(x, junk)
<1>1. DOMAIN x = Fields
  BY DEF SlState
<1>2. /\ s.pos = i /\ s.Z = z /\ s.rtb = x.rtb /\ s.Nfsn = x.Nfsn
      /\ s.tb = x.tb /\ s.rb = x.rb /\ s.Ffsn = x.Ffsn /\ s.Lfsn = x.Lfsn
      /\ s.Tfsn = x.Tfsn /\ s.rFfsn = x.rFfsn /\ s.Xfsn = x.Xfsn /\ s.tXfsn = x.tXfsn
      /\ s.forced_retransmission = x.forced_retransmission
      /\ s.clear_rtb = x.clear_rtb /\ s.ib_mask = x.ib_mask /\ s.wqc = x.wqc
      /\ s.cong_status = x.cong_status
      /\ s.lsc = x.lsc /\ s.lssu_available = x.lssu_available /\ s.sio = x.sio
      /\ DOMAIN s = Fields
  BY <1>1, SMT DEF Fields
<1>3. IF p = NoPdu THEN r.st = s /\ r.su = NoSu ELSE r.st = n /\ r.su = sl_daedt_msu(n, p)
  <2> DEFINE p0 == IF s.pos = 0 THEN NoPdu ELSE IF s.pos = -1 THEN junk.pdu ELSE s.rtb[s.pos]
             after0 == IF s.pos = -1 THEN junk.pos ELSE IF s.pos = Len(s.rtb) THEN 0 ELSE s.pos + 1
             fsn0 == IF PCR THEN s.Z ELSE (s.Nfsn + 1) % Mod
             next0 == IF PCR THEN (s.Z + 1) % Mod ELSE s.Z
             n0 == [s EXCEPT !.pos = after0, !.Nfsn = fsn0, !.Z = next0,
                             !.retrans_cycle = IF fsn0 = s.Lfsn \/ after0 = 0 THEN 0 ELSE @]
  <2>1. IF p0 = NoPdu THEN r.st = s /\ r.su = NoSu ELSE r.st = n0 /\ r.su = sl_daedt_msu(n0, p0)
    BY DEF SendOld
  <2> HIDE DEF s, i, z, r
  <2>2. p0 = p /\ after0 = after /\ fsn0 = fsn /\ next0 = next
    BY <1>2
  <2> HIDE DEF p0, after0, fsn0, next0, p, after, fsn, next
  <2>3. n0 = n
    BY <2>2
  <2> QED
    BY <2>1, <2>2, <2>3
<1> HIDE DEF i, z, p, after, fsn, next, s
<1>4. /\ n.pos = after /\ n.Nfsn = fsn /\ n.Z = next /\ n.rtb = s.rtb
      /\ n.tb = s.tb /\ n.rb = s.rb /\ n.Ffsn = s.Ffsn /\ n.Lfsn = s.Lfsn
      /\ n.Tfsn = s.Tfsn /\ n.rFfsn = s.rFfsn /\ n.Xfsn = s.Xfsn /\ n.tXfsn = s.tXfsn
      /\ n.forced_retransmission = s.forced_retransmission
      /\ n.clear_rtb = s.clear_rtb /\ n.ib_mask = s.ib_mask /\ n.wqc = s.wqc
      /\ n.cong_status = s.cong_status
      /\ n.lsc = s.lsc /\ n.lssu_available = s.lssu_available /\ n.sio = s.sio
  BY <1>2, SMT DEF Fields
<1> HIDE DEF n, r
<1> QED
  BY <1>2, <1>3, <1>4 DEF p, i, z, after, fsn, next, r

------------------------------------------------------------------------------
(***************************************************************************)
(* What describes the buffers fits them.  z_ptr points into the            *)
(* retransmission buffer, is NULL or was freed, so what is sent again is a *)
(* PDU and every unit under way is well formed.  And the congestion status *)
(* is the level of what the buffers hold, if each onset lies above the one *)
(* before it and not below its abatement, as the defaults of sl_alloc_priv *)
(* do.                                                                     *)
(***************************************************************************)
Graded ==
  /\ 0 < TbOnset[1] /\ TbOnset[1] < TbOnset[2] /\ TbOnset[2] < TbOnset[3]
  /\ \A i \in 1..3 : TbAbate[i] <= TbOnset[i]

Graduated(x) == Graded => AtLevel(Occupancy(x), x.cong_status)
Buffered(x) == SlState(x) /\ x.pos \in -1 .. Len(x.rtb) /\ Graduated(x)

\* One message more, or any number less, and the level still fits.
LEMMA LevelFollows ==
  ASSUME Graded, NEW old \in Nat, NEW occ \in Nat, occ <= old + 1,
         NEW c \in 0..3, NEW d \in 0..3, AtLevel(old, c)
  PROVE  AtLevel(occ, CongestionLevels(occ, c, d)[1])
<1> DEFINE a1 == TbAbate[1]
           a2 == TbAbate[2]
           a3 == TbAbate[3]
           o1 == TbOnset[1]
           o2 == TbOnset[2]
           o3 == TbOnset[3]
<1>1. /\ a1 \in Nat /\ a2 \in Nat /\ a3 \in Nat /\ o1 \in Nat /\ o2 \in Nat /\ o3 \in Nat
      /\ a1 <= o1 /\ a2 <= o2 /\ a3 <= o3 /\ 0 < o1 /\ o1 < o2 /\ o2 < o3
  BY ThresholdAssumption DEF Graded
<1> DEFINE Fit(k, e) ==
      \/ e = 0 /\ k < o1
      \/ e = 1 /\ k >= a1 /\ (MPLEV => k < o2)
      \/ e = 2 /\ MPLEV /\ k >= a2 /\ k < o3
      \/ e = 3 /\ MPLEV /\ k >= a3
<1>2. ASSUME NEW k \in Nat, NEW e \in 0..3 PROVE AtLevel(k, e) <=> Fit(k, e)
  BY <1>1, SMT DEF AtLevel, TopLevel
<1>3. Fit(old, c)
  BY <1>2
<1> DEFINE f == Fallen(occ, c)
           r == Risen(occ, c, d)[1]
           e == CongestionLevels(occ, c, d)[1]
<1>4. c # 0 /\ f < c => Fit(occ, f)
  BY <1>1, <1>3 DEF Fallen
<1>5. c = 0 \/ f >= c => Fit(occ, r)
  <2>1. c = 0 => Fit(occ, r)
    BY <1>1, <1>3 DEF Risen
  <2>2. c = 1 /\ f >= c => Fit(occ, r)
    BY <1>1, <1>3 DEF Risen, Fallen
  <2>3. c = 2 /\ f >= c => Fit(occ, r)
    BY <1>1, <1>3 DEF Risen, Fallen
  <2>4. c = 3 /\ f >= c => Fit(occ, r)
    BY <1>1, <1>3 DEF Risen, Fallen
  <2> QED
    BY <2>1, <2>2, <2>3, <2>4
<1>6. f \in 0..3 /\ (c # 0 /\ f < c => e = f) /\ (c = 0 \/ f >= c => e = r)
  <2>1. f \in 0..3
    BY DEF Fallen
  <2>2. c \in {2, 3} => MPLEV
    BY <1>3
  <2> HIDE DEF f
  <2> QED
    BY <2>1, <2>2 DEF CongestionLevels, f
<1>7. e \in 0..3
  BY Levels
<1> HIDE DEF e, f, r
<1>8. Fit(occ, e)
  BY <1>4, <1>5, <1>6
<1> QED
  BY <1>2, <1>7, <1>8 DEF e

\* What the buffers hold is a number.
LEMMA OccupancyIs ==
  ASSUME NEW x, SlState(x)
  PROVE  /\ Occupancy(x) \in Nat
         /\ Len(x.tb) \in Nat /\ Len(x.rtb) \in Nat /\ x.wqc \in Nat
<1>1. x.tb \in Seq(Pdu) /\ x.rtb \in Seq(Pdu) /\ x.wqc \in Nat
  BY DEF SlState
<1> QED
  BY <1>1 DEF Occupancy

\* A call of sl_check_congestion after one message more or some less.
LEMMA CheckGraduates ==
  ASSUME NEW x, SlState(x), Graduated(x), NEW y, SlState(y), Occupancy(y) <= Occupancy(x) + 1,
         y.cong_status = CongestionLevels(Occupancy(y), x.cong_status, x.disc_status)[1]
  PROVE  Graduated(y)
<1>1. x.cong_status \in 0..3 /\ x.disc_status \in 0..3
  BY DEF SlState
<1> QED
  BY <1>1, OccupancyIs, LevelFollows DEF Graduated

\* No call, and the same number of messages.
LEMMA GraduatedSame ==
  ASSUME NEW x, Graduated(x), NEW y, Occupancy(y) = Occupancy(x), y.cong_status = x.cong_status
  PROVE  Graduated(y)
  BY DEF Graduated

\* A function that keeps the state well typed keeps it so.
LEMMA TypedBy == ASSUME NEW x, NEW y, Keeps(x, y, Timer), SlState(x) PROVE SlState(y)
  BY OnlyTyped DEF Keeps

\* A function that leaves the buffers and what describes them alone.
LEMMA LeavesBuffered == ASSUME NEW x, NEW y, Leaves(x, y), Buffered(x) PROVE Buffered(y)
  BY GraduatedSame DEF Buffered, Leaves, Same, Occupancy

\* One that touches other fields only, of which this is said more directly.
LEMMA KeepsBuffered ==
  ASSUME NEW x, NEW y, Buffered(x), SlState(y), y.pos = x.pos, y.rtb = x.rtb, y.tb = x.tb,
         y.wqc = x.wqc, y.cong_status = x.cong_status
  PROVE  Buffered(y)
  BY GraduatedSame DEF Buffered, Occupancy

\* An acknowledgement that frees the message at z_ptr leaves it dangling or rewinds it.
LEMMA AcknowledgedBuffered ==
  ASSUME NEW x, Buffered(x), NEW bsn \in Sn
  PROVE  Buffered(Acknowledged(x, bsn))
<1> DEFINE y == Acknowledged(x, bsn)
           k == (bsn + 1 - x.Ffsn) % Mod
           q == Dropped(x.rtb, k)
<1>1. SlState(y)
  BY TypedBy, AcknowledgedKeeps DEF Buffered
<1>2. k \in Nat /\ x.rtb \in Seq(Pdu) /\ x.pos \in -1 .. Len(x.rtb)
  <2>1. x.Ffsn \in Sn /\ x.rtb \in Seq(Pdu) /\ x.pos \in -1 .. Len(x.rtb)
    BY DEF Buffered, SlState
  <2> QED
    BY <2>1, NumberAssumption DEF Sn
<1>3. y.rtb = q /\ y.pos \in {IF q = <<>> THEN 0 ELSE 1, PosAfter(x.pos, k)}
  BY AcknowledgedFields DEF Buffered
<1> HIDE DEF k, y
<1>4. Len(q) = IF k <= Len(x.rtb) THEN Len(x.rtb) - k ELSE 0
  BY <1>2, SubSeqProperties DEF Dropped
<1>5. q \in Seq(Pdu)
  BY <1>2, DroppedSeq
<1> HIDE DEF q
<1>6. q # <<>> => Len(q) >= 1
  BY <1>5
<1>7. y.pos \in -1 .. Len(q)
  BY <1>2, <1>3, <1>4, <1>5, <1>6, SMT DEF PosAfter
<1>8. Graduated(y)
  <2>1. SlState(x) /\ Graduated(x)
    BY DEF Buffered
  <2>2. /\ y.tb = x.tb /\ y.wqc = x.wqc
        /\ y.cong_status = CongestionLevels(x.wqc + Len(x.tb) + Len(q),
                                           x.cong_status, x.disc_status)[1]
    BY <2>1, AcknowledgedFields DEF y, q, k
  <2>3. Occupancy(y) = x.wqc + Len(x.tb) + Len(q)
    BY <1>3, <2>2 DEF Occupancy
  <2>4. Occupancy(y) <= Occupancy(x) + 1
    <3>1. x.wqc \in Nat /\ Len(x.tb) \in Nat /\ Len(x.rtb) \in Nat
      BY <2>1, OccupancyIs
    <3>2. Len(q) \in Nat /\ Len(q) <= Len(x.rtb)
      BY <1>2, <1>4, <3>1
    <3> QED
      BY <2>3, <3>1, <3>2 DEF Occupancy
  <2> QED
    BY <1>1, <2>1, <2>2, <2>3, <2>4, CheckGraduates
<1> QED
  BY <1>1, <1>3, <1>7, <1>8 DEF Buffered, y

\* The acknowledgement of any unit.
LEMMA AckBuffered ==
  ASSUME NEW x, Buffered(x), NEW su \in Su
  PROVE  Buffered(AckReceived(x, su))
<1>0. su.bsn \in Sn /\ su.bib \in Flag
  BY SuFields
<1> DEFINE bsn == su.bsn
           bib == su.bib
<1> HIDE DEF bsn, bib
<1> DEFINE s0 == [x EXCEPT !.tRbsn = bsn]
<1>1. Buffered(s0) /\ s0.Ffsn = x.Ffsn
  <2>1. /\ SlState(s0) /\ s0.pos = x.pos /\ s0.rtb = x.rtb /\ s0.Ffsn = x.Ffsn
        /\ s0.tb = x.tb /\ s0.wqc = x.wqc /\ s0.cong_status = x.cong_status
    BY <1>0, SMT DEF Buffered, SlState, Fields, bsn
  <2> QED
    BY <2>1, KeepsBuffered
<1> DEFINE a == IF s0.Ffsn # (bsn + 1) % Mod THEN Acknowledged(s0, bsn) ELSE s0
           b == RtbClearedBy(s0, bsn, bib)
           c == Nacked(a, bib)
           r == sl_txc_bsnr_and_bibr(x, bsn, bib)
           n == (bsn + 1) % Mod
<1>2. r \in {a, b, c}
  BY DEF sl_txc_bsnr_and_bibr
<1> HIDE DEF s0
<1>3. Buffered(a)
  BY <1>0, <1>1, AcknowledgedBuffered DEF bsn
<1> HIDE DEF a
<1>4. Buffered(c)
  <2>1. SlState(c)
    BY <1>0, <1>3, NackedKeeps, TypedBy DEF Buffered, bib
  <2>2. /\ c.pos = (IF a.rtb = <<>> THEN 0 ELSE 1) /\ c.rtb = a.rtb
        /\ c.tb = a.tb /\ c.wqc = a.wqc /\ c.cong_status = a.cong_status
    <3>1. DOMAIN a = Fields
      BY <1>3 DEF Buffered, SlState
    <3> QED
      BY <3>1, SMT DEF Nacked, SibOver, Fields
  <2>3. a.rtb \in Seq(Pdu)
    BY <1>3 DEF Buffered, SlState
  <2>4. a.rtb # <<>> => Len(a.rtb) >= 1
    BY <2>3
  <2> HIDE DEF c
  <2>5. Graduated(c)
    BY <1>3, <2>2, GraduatedSame DEF Buffered, Occupancy
  <2> QED
    BY <2>1, <2>2, <2>3, <2>4, <2>5 DEF Buffered
<1>5. Buffered(b)
  <2>1. SlState(b)
    BY <1>0, <1>1, RtbClearedByKeeps, TypedBy DEF Buffered, bsn, bib
  <2> DEFINE level == CongestionLevels(s0.wqc + Len(s0.tb) + Len(<<>>),
                                       s0.cong_status, s0.disc_status)[1]
  <2>2. b.pos = 0 /\ b.rtb = <<>> /\ b.tb = s0.tb /\ b.wqc = s0.wqc /\ b.cong_status = level
    <3>1. DOMAIN s0 = Fields
      BY <1>1 DEF Buffered, SlState
    <3> DEFINE Empty(u) == /\ DOMAIN u = Fields /\ u.rtb = <<>> /\ u.tb = s0.tb
                           /\ u.wqc = s0.wqc /\ u.cong_status = level
               v == sl_check_congestion([s0 EXCEPT !.rtb = <<>>, !.Ct = 0])
               w == [v EXCEPT !.Ffsn = n, !.Lfsn = bsn, !.Nfsn = bsn, !.Nfib = bib, !.Z = n,
                              !.pos = 0]
               z == sl_lsc_rtb_cleared(w)
    <3>2. Empty(v)
      BY <3>1, SMT DEF sl_check_congestion, Fields
    <3> HIDE DEF v, level, n
    <3>3. Empty(w) /\ w.pos = 0
      BY <3>2, SMT DEF Fields
    <3> HIDE DEF w
    <3>4. Empty(z) /\ z.pos = 0
      BY <3>3, SMT DEF sl_lsc_rtb_cleared, sl_txc_send_msu, Fields
    <3> HIDE DEF z
    <3>5. b = [z EXCEPT !.clear_rtb = 0, !.rtb_full = 0]
      BY DEF RtbClearedBy, z, w, v, n
    <3> HIDE DEF b
    <3> QED
      BY <3>4, <3>5, SMT DEF Fields
  <2> HIDE DEF b
  <2>3. Graduated(b)
    <3>1. SlState(s0) /\ Graduated(s0) /\ Len(<<>>) = 0
      BY <1>1 DEF Buffered
    <3>2. Occupancy(b) = s0.wqc + Len(s0.tb) + Len(<<>>)
      BY <2>2 DEF Occupancy
    <3>3. Occupancy(b) <= Occupancy(s0) + 1
      BY <3>1, <3>2, OccupancyIs DEF Occupancy
    <3> QED
      BY <2>1, <2>2, <3>1, <3>2, <3>3, CheckGraduates
  <2>4. b.rtb \in Seq(Pdu)
    BY <2>1 DEF SlState
  <2> QED
    BY <2>1, <2>2, <2>3, <2>4 DEF Buffered
<1> HIDE DEF b, c
<1>6. Buffered(r)
  BY <1>2, <1>3, <1>4, <1>5
<1> HIDE DEF r
<1>7. n \in Sn
  BY <1>0, Neighbours DEF bsn
<1> HIDE DEF n
<1> DEFINE y == [r EXCEPT !.rFfsn = n]
<1>8. /\ SlState(y) /\ y.pos = r.pos /\ y.rtb = r.rtb
      /\ y.tb = r.tb /\ y.wqc = r.wqc /\ y.cong_status = r.cong_status
  BY <1>6, <1>7, SMT DEF Buffered, SlState, Fields
<1>9. AckReceived(x, su) = y
  BY DEF AckReceived, r, n, bsn, bib
<1> HIDE DEF y
<1> QED
  BY <1>6, <1>8, <1>9, KeepsBuffered

\* A unit that is accepted.
LEMMA AcceptedBuffered ==
  ASSUME NEW x, Buffered(x), NEW su \in Su, NEW next \in BOOLEAN, NEW own \in BOOLEAN
  PROVE  Buffered(SuAccepted(x, su, next, own))
<1> DEFINE a == AckReceived(sl_lsc_fisu_msu_received(x), su)
           c == sl_rb_congestion_function(a, next, own)
           b == [c EXCEPT !.rtr = IF PCR THEN @ ELSE 1]
           i == InSequence(c, su)
           o == OutOfSequence(c, su)
<1>1. Buffered(a)
  BY AckBuffered, OutageLeaves, LeavesBuffered
<1>2. \/ su.type = "MSU" /\ SuAccepted(x, su, next, own) = i
      \/ SuAccepted(x, su, next, own) \in {a, sl_cc_busy(b), c, o}
  BY DEF SuAccepted
<1> HIDE DEF a
<1>3. Buffered(c)
  BY <1>1, ReceptionLeaves, LeavesBuffered
<1> HIDE DEF c
<1>4. Buffered(sl_cc_busy(b))
  <2>1. Leaves(c, b)
    BY SMT DEF Leaves, Same, SlState, Fields, Flag
  <2> HIDE DEF b
  <2> QED
    BY <1>3, <2>1, SmallLeaves, LeavesBuffered
<1>5. su.type = "MSU" => Buffered(i)
  <2>1. /\ i.pos = c.pos /\ i.rtb = c.rtb
        /\ i.tb = c.tb /\ i.wqc = c.wqc /\ i.cong_status = c.cong_status
    BY <1>3, InSequenceFields DEF Buffered
  <2>2. su.type = "MSU" => SlState(i)
    BY <1>3, InSequenceKeeps, TypedBy DEF Buffered
  <2> HIDE DEF i
  <2> QED
    BY <1>3, <2>1, <2>2, KeepsBuffered
<1>6. Buffered(o)
  <2>1. /\ o.pos = c.pos /\ o.rtb = c.rtb
        /\ o.tb = c.tb /\ o.wqc = c.wqc /\ o.cong_status = c.cong_status
    <3>1. DOMAIN c = Fields
      BY <1>3 DEF Buffered, SlState
    <3> QED
      BY <3>1, SMT DEF OutOfSequence, sl_cc_busy, sl_timer_start, sl_txc_send_sib,
                       sl_txc_nack_to_be_sent, Fields
  <2>2. SlState(o)
    BY <1>3, OutOfSequenceKeeps, TypedBy DEF Buffered
  <2> HIDE DEF o
  <2> QED
    BY <1>3, <2>1, <2>2, KeepsBuffered
<1> QED
  BY <1>1, <1>2, <1>3, <1>4, <1>5, <1>6

\* Any unit that arrives.
LEMMA SignalUnitBuffered ==
  ASSUME NEW x, Buffered(x), NEW su \in Su, NEW next \in BOOLEAN, NEW own \in BOOLEAN
  PROVE  Buffered(sl_rc_signal_unit(x, su, next, own))
<1> DEFINE bsn == su.bsn
<1>0. bsn \in Sn
  BY SuFields
<1> HIDE DEF bsn
<1> DEFINE r == [x EXCEPT !.rRbsn = bsn]
           a == [r EXCEPT !.abnormal_bsnr = 0]
           u == [r EXCEPT !.unb = 1]
           g == [a EXCEPT !.abnormal_fibr = 0]
           v == [a EXCEPT !.unf = 1]
           w == [a EXCEPT !.abnormal_fibr = 1, !.unf = 0]
<1>1. \/ su.type = "LSSU" /\ sl_rc_signal_unit(x, su, next, own) = LssuReceived(r, su.sio)
      \/ sl_rc_signal_unit(x, su, next, own) \in
           {x, AbnormalBsnr(r), u, SuAccepted(a, su, next, own), SuAccepted(g, su, next, own),
            v, w, sl_lsc_link_failure(a), AckReceived(a, su)}
  BY DEF sl_rc_signal_unit, FibChecked, bsn
<1>2. Buffered(r)
  <2>1. Leaves(x, r)
    BY <1>0, SMT DEF Leaves, Same, SlState, Fields
  <2> QED
    BY <2>1, LeavesBuffered
<1> HIDE DEF r
<1>3. Buffered(a) /\ Buffered(u)
  <2>1. Leaves(r, a)
    BY SMT DEF Leaves, Same, SlState, Fields, Flag
  <2>2. Leaves(r, u)
    BY SMT DEF Leaves, Same, SlState, Fields, Flag
  <2> QED
    BY <1>2, <2>1, <2>2, LeavesBuffered
<1> HIDE DEF a, u
<1>4. Buffered(g) /\ Buffered(v) /\ Buffered(w)
  <2>1. Leaves(a, g)
    BY SMT DEF Leaves, Same, SlState, Fields, Flag
  <2>2. Leaves(a, v)
    BY SMT DEF Leaves, Same, SlState, Fields, Flag
  <2>3. Leaves(a, w)
    BY SMT DEF Leaves, Same, SlState, Fields, Flag
  <2> QED
    BY <1>3, <2>1, <2>2, <2>3, LeavesBuffered
<1> HIDE DEF g, v, w
<1>5. su.type = "LSSU" => Buffered(LssuReceived(r, su.sio))
  BY <1>2, SuFields, ReceptionLeaves, LeavesBuffered
<1>6. Buffered(AbnormalBsnr(r)) /\ Buffered(sl_lsc_link_failure(a)) /\ Buffered(AckReceived(a, su))
  BY <1>2, <1>3, ReceptionLeaves, OutLeaves, LeavesBuffered, AckBuffered
<1>7. Buffered(SuAccepted(a, su, next, own)) /\ Buffered(SuAccepted(g, su, next, own))
  BY <1>3, <1>4, AcceptedBuffered
<1> QED
  BY <1>1, <1>3, <1>4, <1>5, <1>6, <1>7

\* Reception: z_ptr still points where it may.
LEMMA ReceivedBuffered ==
  ASSUME NEW x, Buffered(x), NEW su \in Su, NEW next \in BOOLEAN, NEW own \in BOOLEAN
  PROVE  Buffered(sl_daedr_received_bits(x, su, next, own))
  BY SignalUnitBuffered, ReceptionLeaves, LeavesBuffered DEF sl_daedr_received_bits

\* Headers and PDUs of what is sent.
LEMMA UnitTyped ==
  ASSUME NEW x, SlState(x)
  PROVE  /\ sl_daedt_fisu(x) \in Su
         /\ sl_daedt_lssu(x) \in Su
         /\ \A p \in Pdu : sl_daedt_msu(x, p) \in Su
<1>1. x.Nfsn \in Sn /\ x.Nfib \in Flag /\ x.Nbib \in Flag /\ x.sio \in Sio /\ x.tXfsn \in Sn
  BY DEF SlState
<1>2. (x.tXfsn - 1) % Mod \in Sn
  BY <1>1, Neighbours
<1> QED
  BY <1>1, <1>2, SMT DEF sl_daedt_fisu, sl_daedt_lssu, sl_daedt_msu, Su, Fisu, Lssu, Msu

\* A message that is sent again is one of the retransmission buffer, or read
\* through a pointer to a freed message.
LEMMA SendOldBuffered ==
  ASSUME NEW x, Buffered(x), NEW junk \in Junk
  PROVE  LET r == SendOld(x, junk) IN Buffered(r.st) /\ (r.su = NoSu \/ r.su \in Su)
<1> DEFINE y == SendOld(x, junk).st
           over == PCR /\ x.pos = 0
           i == IF over THEN (IF x.rtb = <<>> THEN 0 ELSE 1) ELSE x.pos
           p == IF i = 0 THEN NoPdu ELSE IF i = -1 THEN junk.pdu ELSE x.rtb[i]
<1>0. junk.pdu \in Pdu \cup {NoPdu} /\ junk.pos \in {-1, 0}
  BY DEF Junk
<1>1. SlState(y)
  <2>1. Keeps(x, y, Timer) /\ SlState(x)
    BY <1>0, SendOldKeeps DEF Buffered
  <2> HIDE DEF y
  <2> QED
    BY <2>1, TypedBy
<1>2. x.rtb \in Seq(Pdu) /\ x.pos \in -1 .. Len(x.rtb)
  BY DEF Buffered, SlState
<1>3. x.rtb # <<>> => Len(x.rtb) >= 1
  BY <1>2
<1>4. i \in -1 .. Len(x.rtb)
  BY <1>2, <1>3
<1>5. /\ y.rtb = x.rtb /\ y.tb = x.tb /\ y.wqc = x.wqc /\ y.cong_status = x.cong_status
      /\ y.pos \in {i, junk.pos, 0, IF i = Len(x.rtb) THEN 0 ELSE i + 1}
      /\ i = -1 => y.pos \in {i, junk.pos}
      /\ IF p = NoPdu THEN SendOld(x, junk).su = NoSu
                      ELSE SendOld(x, junk).su = sl_daedt_msu(y, p)
  BY SendOldFields DEF Buffered
<1> HIDE DEF y, i
<1>6. p \in Pdu \cup {NoPdu} /\ y.pos \in -1 .. Len(y.rtb)
  BY <1>0, <1>2, <1>4, <1>5
<1>7. p # NoPdu => sl_daedt_msu(y, p) \in Su
  BY <1>1, <1>6, UnitTyped
<1>8. Graduated(y)
  BY <1>5, GraduatedSame DEF Buffered, Occupancy
<1> QED
  BY <1>1, <1>5, <1>6, <1>7, <1>8 DEF Buffered, y

\* The next signal unit.
LEMMA TransmittedBuffered ==
  ASSUME NEW x, Buffered(x), NEW junk \in Junk
  PROVE  LET r == sl_txc_transmission_request(x, junk)
         IN  Buffered(r.st) /\ (r.su = NoSu \/ r.su \in Su)
<1> DEFINE f == IF PCR THEN Forcing(x) ELSE x
           Fine(r) == Buffered(r.st) /\ (r.su = NoSu \/ r.su \in Su)
<1>1. Buffered(f)
  <2> DEFINE y == Forcing(x)
  <2>1. /\ SlState(y) /\ y.pos = x.pos /\ y.rtb = x.rtb
        /\ y.tb = x.tb /\ y.wqc = x.wqc /\ y.cong_status = x.cong_status
    BY SMT DEF Buffered, SlState, Fields, Flag, Forcing
  <2> HIDE DEF y
  <2>2. Buffered(y)
    BY <2>1, KeepsBuffered
  <2> QED
    BY <2>2 DEF y
<1>2. ASSUME NEW y, Buffered(y) PROVE Fine(SendFisu(y))
  <2> DEFINE n == [y EXCEPT !.Nfsn = y.Lfsn]
  <2>1. /\ SlState(n) /\ n.pos = y.pos /\ n.rtb = y.rtb
        /\ n.tb = y.tb /\ n.wqc = y.wqc /\ n.cong_status = y.cong_status
    BY <1>2, SMT DEF Buffered, SlState, Fields
  <2>2. SendFisu(y).st = n /\ SendFisu(y).su = sl_daedt_fisu(n)
    BY DEF SendFisu
  <2> HIDE DEF n
  <2> QED
    BY <1>2, <2>1, <2>2, UnitTyped, KeepsBuffered
<1>3. Fine(SendLssu(x))
  <2> DEFINE n == [x EXCEPT !.lssu_available = IF x.sio = "SIB" THEN 0 ELSE @, !.Nfsn = x.Lfsn]
  <2>1. /\ SlState(n) /\ n.pos = x.pos /\ n.rtb = x.rtb
        /\ n.tb = x.tb /\ n.wqc = x.wqc /\ n.cong_status = x.cong_status
    BY SMT DEF Buffered, SlState, Fields, Flag
  <2>2. SendLssu(x).st = n /\ SendLssu(x).su = sl_daedt_lssu(n)
    BY DEF SendLssu
  <2> HIDE DEF n
  <2> QED
    BY <2>1, <2>2, UnitTyped, KeepsBuffered
<1> HIDE DEF f
<1>4. f.tb # <<>> => Fine(SendNew(f))
  <2> SUFFICES ASSUME f.tb # <<>> PROVE Fine(SendNew(f))
    OBVIOUS
  <2> DEFINE y == SendNew(f).st
  <2>1. SlState(y)
    BY <1>1, SendNewKeeps, TypedBy DEF Buffered
  <2>2. SendNew(f).su = sl_daedt_msu(y, Head(f.tb))
    BY <1>1, SendNewFields DEF Buffered
  <2>3. /\ y.pos = f.pos /\ y.rtb = Append(f.rtb, Head(f.tb)) /\ y.tb = Tail(f.tb)
        /\ y.wqc = f.wqc /\ y.cong_status = f.cong_status
    BY <1>1, SendNewFields DEF Buffered
  <2>4. f.tb \in Seq(Pdu) /\ f.rtb \in Seq(Pdu)
    BY <1>1 DEF Buffered, SlState
  <2>5. Head(f.tb) \in Pdu /\ Len(y.rtb) = Len(f.rtb) + 1 /\ Len(y.tb) = Len(f.tb) - 1
    BY <2>3, <2>4
  <2> HIDE DEF y
  <2>6. y.pos \in -1 .. Len(y.rtb)
    BY <1>1, <2>3, <2>4, <2>5 DEF Buffered
  <2>7. Graduated(y)
    <3>1. SlState(f) /\ Graduated(f)
      BY <1>1 DEF Buffered
    <3>2. Len(f.tb) \in Nat /\ Len(f.rtb) \in Nat /\ f.wqc \in Nat
      BY <3>1, OccupancyIs
    <3>3. Occupancy(y) = f.wqc + (Len(f.tb) - 1) + (Len(f.rtb) + 1)
      BY <2>3, <2>5 DEF Occupancy
    <3>4. Occupancy(y) = Occupancy(f)
      <4>1. ASSUME NEW i \in Nat, NEW j \in Nat, NEW k \in Nat
            PROVE  i + (j - 1) + (k + 1) = i + j + k
        BY <4>1
      <4> QED
        BY <3>2, <3>3, <4>1, Zenon DEF Occupancy
    <3> QED
      BY <2>3, <3>1, <3>4, GraduatedSame
  <2> QED
    BY <2>1, <2>2, <2>5, <2>6, <2>7, UnitTyped DEF Buffered, y
<1>5. Fine(SendOld(f, junk))
  BY <1>1, SendOldBuffered
<1>6. Fine([st |-> x, su |-> NoSu])
  OBVIOUS
<1> QED
  BY <1>1, <1>2, <1>3, <1>4, <1>5, <1>6 DEF sl_txc_transmission_request, f

\* A terminal that comes into service is sound.
LEMMA InServiceSound == Whole(InService, Timer) /\ Buffered(InService)
<1>1. Buffered(Ready)
  <2>1. /\ SlState(Ready) /\ Ready.rtb = <<>> /\ Ready.pos = 0
        /\ Ready.tb = <<>> /\ Ready.wqc = 0 /\ Ready.cong_status = 0
    BY ReadySame, StartedFields DEF Same, Whole, Core
  <2>2. Graded => AtLevel(0, 0)
    BY DEF Graded, AtLevel, TopLevel
  <2>3. Occupancy(Ready) = 0
    BY <2>1 DEF Occupancy
  <2> QED
    BY <2>1, <2>2, <2>3 DEF Buffered, Graduated
<1> QED
  BY <1>1, ReadySame, AlignmentUnits, ReceivedBuffered, ReceivedBits, KeepsWhole, ComesIntoService
     DEF Got

------------------------------------------------------------------------------
(***************************************************************************)
(* The pair is well typed: any two terminals, whatever they receive, lose  *)
(* and time out.                                                           *)
(***************************************************************************)
TInv ==
  /\ DOMAIN st = Node /\ DOMAIN ch = Node
  /\ \A n \in Node : Whole(st[n], Timer) /\ Buffered(st[n])
  /\ \A n \in Node : ch[n] \in Seq(Su) /\ Len(ch[n]) <= MaxChan
  /\ sent \in 0..MaxMsg /\ up \in Seq(Pdu) /\ lost \in 0..MaxLoss

\* Two nodes, each the peer of the other.
LEMMA PeerIs == Peer("A") = "B" /\ Peer("B") = "A" /\ \A n \in Node : Peer(n) \in Node \ {n}
<1>1. ASSUME NEW n \in Node PROVE Peer(n) \in Node /\ Peer(n) # n
  <2>1. \E m \in Node : m # n
    BY DEF Node
  <2> QED
    BY <2>1 DEF Peer
<1>2. Peer("A") \in Node /\ Peer("A") # "A" /\ Peer("B") \in Node /\ Peer("B") # "B"
  BY <1>1 DEF Node
<1> QED
  BY <1>1, <1>2 DEF Node

\* A step of one terminal.
LEMMA NodeStep ==
  ASSUME TInv, NEW n \in Node, NEW y, Whole(y, Timer), Buffered(y), st' = [st EXCEPT ![n] = y]
  PROVE  DOMAIN st' = Node /\ \A m \in Node : Whole(st'[m], Timer) /\ Buffered(st'[m])
<1>1. DOMAIN st' = Node /\ \A m \in Node : st'[m] = IF m = n THEN y ELSE st[m]
  BY DEF TInv
<1> QED
  BY <1>1 DEF TInv

\* A unit more or a unit less on its way to one terminal.
LEMMA ChannelStep ==
  ASSUME TInv, NEW n \in Node, NEW c \in Seq(Su), Len(c) <= MaxChan, ch' = [ch EXCEPT ![n] = c]
  PROVE  DOMAIN ch' = Node /\ \A m \in Node : ch'[m] \in Seq(Su) /\ Len(ch'[m]) <= MaxChan
<1>1. DOMAIN ch' = Node /\ \A m \in Node : ch'[m] = IF m = n THEN c ELSE ch[m]
  BY DEF TInv
<1> QED
  BY <1>1 DEF TInv

\* What is under way after the first unit is well formed too.
LEMMA Rest ==
  ASSUME NEW c \in Seq(Su), c # <<>>, Len(c) <= MaxChan
  PROVE  Head(c) \in Su /\ Tail(c) \in Seq(Su) /\ Len(Tail(c)) <= MaxChan
<1>1. Head(c) \in Su /\ Tail(c) \in Seq(Su) /\ Len(Tail(c)) = Len(c) - 1 /\ Len(c) \in Nat
  OBVIOUS
<1>2. MaxChan \in Nat
  BY PairAssumption
<1> QED
  BY <1>1, <1>2

\* A timer that expired counts as pending.
LEMMA StoppedWhole ==
  ASSUME NEW x, NEW t \in Timer, Whole(x, Timer)
  PROVE  Whole(sl_timer_stop(x, t), Timer \cup {t}) /\ Same(x, sl_timer_stop(x, t))
<1>1. Timer \cup {t} = Timer
  OBVIOUS
<1>2. Whole(sl_timer_stop(x, t), Timer) /\ Same(x, sl_timer_stop(x, t))
  BY SMT DEF Whole, Core, Link, SlState, Fields, Timer, IacSupervised, CcSupervised,
             sl_timer_stop, Same
<1> QED
  BY <1>1, <1>2

\* An expiry, with the timer stopped.
LEMMA ExpirySound ==
  ASSUME NEW x, NEW t \in Timer, Whole(x, Timer)
  PROVE  LET y == sl_r_pcrse(sl_timer_stop(x, t), t)
         IN  Whole(y, Timer) /\ Same(x, y)
<1> DEFINE a == sl_timer_stop(x, t)
           y == sl_r_pcrse(a, t)
<1>1. Whole(a, Timer \cup {t}) /\ Same(x, a)
  BY StoppedWhole
<1> HIDE DEF a
<1>2. Whole(y, Timer) /\ Same(a, y)
  BY <1>1, Expiry, ExpirySame DEF Whole, Core
<1> HIDE DEF y
<1> QED
  BY <1>1, <1>2 DEF Same, a, y

\* What may go up is a part of the receive buffer.
LEMMA DeliverableTyped ==
  ASSUME NEW x, SlState(x), NEW k \in 1..Len(x.rb)
  PROVE  DeliverableRb(x, k) \in Seq(Pdu)
<1>1. x.rb \in Seq(Pdu)
  BY DEF SlState
<1>2. SubSeq(x.rb, 1, k) \in Seq(Pdu)
  BY <1>1, SubSeqProperties
<1> QED
  BY <1>2 DEF DeliverableRb

\* Level 3 sends.
LEMMA SendTyped == ASSUME TInv, Send PROVE TInv'
<1> DEFINE x == st["A"]
           y == sl_lsc_pdu(x, sent + 1)
<1>1. /\ sent + 1 \in Pdu /\ sent' \in 0..MaxMsg /\ st' = [st EXCEPT !["A"] = y]
      /\ UNCHANGED <<ch, up, lost>>
  BY PairAssumption DEF Send, TInv
<1>2. Whole(x, Timer) /\ Buffered(x)
  BY DEF TInv, Node
<1> HIDE DEF x
<1>3. Whole(y, Timer) /\ Buffered(y)
  <2> DEFINE q == Append(x.tb, sent + 1)
             cm == (x.Cm + 1) % CtrMod
  <2> HIDE DEF q, cm
  <2> DEFINE a == [x EXCEPT !.tb = q, !.Cm = cm]
             b == sl_check_congestion(a)
  <2>1. Keeps(x, y, Timer)
    BY <1>1, LscPdu
  <2>2. y \in {x, b}
    BY <1>2, SMT DEF sl_lsc_pdu, sl_txc_message_for_transmission, Buffered, SlState, q, cm
  <2>3. DOMAIN x = Fields
    BY <1>2 DEF Buffered, SlState
  <2> DEFINE level == CongestionLevels(x.wqc + Len(q) + Len(x.rtb),
                                       x.cong_status, x.disc_status)[1]
  <2>4. b.pos = x.pos /\ b.rtb = x.rtb /\ b.tb = q /\ b.wqc = x.wqc /\ b.cong_status = level
    BY <2>3, SMT DEF sl_check_congestion, Fields
  <2> HIDE DEF b, level
  <2>5. Whole(y, Timer) /\ SlState(x) /\ SlState(y) /\ Graduated(x)
    BY <1>2, <2>1, KeepsWhole, TypedBy DEF Buffered
  <2>6. y = b => Graduated(y)
    <3>1. Len(q) = Len(x.tb) + 1
      BY <1>1, <2>5 DEF SlState, q
    <3>2. Occupancy(b) = x.wqc + Len(q) + Len(x.rtb)
      BY <2>4 DEF Occupancy
    <3>3. Occupancy(b) <= Occupancy(x) + 1
      BY <2>5, <3>1, <3>2, OccupancyIs DEF Occupancy
    <3> QED
      BY <2>4, <2>5, <3>2, <3>3, CheckGraduates DEF level
  <2> HIDE DEF y
  <2> QED
    BY <1>2, <2>2, <2>4, <2>5, <2>6 DEF Buffered
<1> HIDE DEF y
<1>4. DOMAIN st' = Node /\ \A m \in Node : Whole(st'[m], Timer) /\ Buffered(st'[m])
  BY <1>1, <1>3, NodeStep DEF Node
<1> QED
  BY <1>1, <1>4 DEF TInv

\* One terminal sends a unit.
LEMMA TransmitTyped == ASSUME TInv, NEW n \in Node, Transmit(n) PROVE TInv'
<1>0. PICK junk \in (IF st[n].pos = -1 THEN Junk ELSE {NoJunk}) :
        LET r == sl_txc_transmission_request(st[n], junk)
        IN  /\ Len(ch[Peer(n)]) < MaxChan
            /\ r.su # NoSu
            /\ st' = [st EXCEPT ![n] = r.st]
            /\ ch' = [ch EXCEPT ![Peer(n)] = Append(@, r.su)]
            /\ UNCHANGED <<sent, up, lost>>
  BY DEF Transmit
<1>1. junk \in Junk
  BY DEF Junk, NoJunk
<1> DEFINE x == st[n]
           r == sl_txc_transmission_request(x, junk)
           p == Peer(n)
           c == Append(ch[p], r.su)
<1>2. Whole(x, Timer) /\ Buffered(x) /\ p \in Node /\ ch[p] \in Seq(Su) /\ DOMAIN ch = Node
  BY PeerIs DEF TInv
<1>3. /\ Len(ch[p]) < MaxChan /\ r.su # NoSu /\ st' = [st EXCEPT ![n] = r.st]
      /\ ch' = [ch EXCEPT ![p] = c] /\ UNCHANGED <<sent, up, lost>>
  BY <1>0, <1>2
<1> HIDE DEF x, p
<1>4. Whole(r.st, Timer) /\ Buffered(r.st) /\ r.su \in Su
  <2>1. junk.pos \in {-1, 0}
    BY <1>1 DEF Junk
  <2>2. Keeps(x, r.st, Timer)
    BY <2>1, TransmissionRequest
  <2>3. Whole(r.st, Timer)
    BY <1>2, <2>2, KeepsWhole
  <2> QED
    BY <1>1, <1>2, <1>3, <2>3, TransmittedBuffered
<1> HIDE DEF r
<1>5. c \in Seq(Su) /\ Len(c) <= MaxChan
  BY <1>2, <1>3, <1>4, PairAssumption
<1> HIDE DEF c
<1>6. DOMAIN st' = Node /\ \A m \in Node : Whole(st'[m], Timer) /\ Buffered(st'[m])
  BY <1>3, <1>4, NodeStep
<1>7. DOMAIN ch' = Node /\ \A m \in Node : ch'[m] \in Seq(Su) /\ Len(ch'[m]) <= MaxChan
  BY <1>2, <1>3, <1>5, ChannelStep
<1> QED
  BY <1>3, <1>6, <1>7 DEF TInv

\* One terminal receives a unit.
LEMMA ReceiveTyped == ASSUME TInv, NEW n \in Node, Receive(n) PROVE TInv'
<1> DEFINE x == st[n]
           su == Head(ch[n])
           c == Tail(ch[n])
<1>1. /\ Whole(x, Timer) /\ Buffered(x) /\ ch[n] \in Seq(Su) /\ ch[n] # <<>>
      /\ Len(ch[n]) <= MaxChan /\ DOMAIN st = Node /\ DOMAIN ch = Node
  BY DEF TInv, Receive
<1>2. su \in Su /\ c \in Seq(Su) /\ Len(c) <= MaxChan
  BY <1>1, Rest
<1>3. PICK flow \in FlowStates :
        st' = [st EXCEPT ![n] = IF @.rc # "IN_SERVICE" THEN @
                 ELSE sl_daedr_received_bits(@, su, flow[1], flow[2])]
  BY DEF Receive
<1> DEFINE y == IF x.rc # "IN_SERVICE" THEN x ELSE sl_daedr_received_bits(x, su, flow[1], flow[2])
<1>4. st' = [st EXCEPT ![n] = y] /\ ch' = [ch EXCEPT ![n] = c] /\ UNCHANGED <<sent, up, lost>>
  BY <1>1, <1>3 DEF Receive
<1>5. flow[1] \in BOOLEAN /\ flow[2] \in BOOLEAN
  BY PairAssumption
<1> HIDE DEF x, su, c
<1>6. Whole(y, Timer) /\ Buffered(y)
  <2> DEFINE z == sl_daedr_received_bits(x, su, flow[1], flow[2])
  <2>1. Keeps(x, z, Timer)
    BY <1>2, ReceivedBits
  <2>2. Buffered(z)
    BY <1>1, <1>2, <1>5, ReceivedBuffered
  <2> HIDE DEF z
  <2>3. Whole(z, Timer)
    BY <1>1, <2>1, KeepsWhole
  <2> QED
    BY <1>1, <2>2, <2>3 DEF z
<1> HIDE DEF y
<1>7. DOMAIN st' = Node /\ \A m \in Node : Whole(st'[m], Timer) /\ Buffered(st'[m])
  BY <1>4, <1>6, NodeStep
<1>8. DOMAIN ch' = Node /\ \A m \in Node : ch'[m] \in Seq(Su) /\ Len(ch'[m]) <= MaxChan
  BY <1>2, <1>4, ChannelStep
<1> QED
  BY <1>4, <1>7, <1>8 DEF TInv

\* The network loses a unit.
LEMMA LoseTyped == ASSUME TInv, NEW n \in Node, Lose(n) PROVE TInv'
<1> DEFINE c == Tail(ch[n])
<1>1. /\ ch[n] \in Seq(Su) /\ ch[n] # <<>> /\ Len(ch[n]) <= MaxChan /\ DOMAIN ch = Node
      /\ ch' = [ch EXCEPT ![n] = c] /\ UNCHANGED <<st, sent, up>> /\ lost' \in 0..MaxLoss
  BY PairAssumption DEF TInv, Lose
<1>2. c \in Seq(Su) /\ Len(c) <= MaxChan
  BY <1>1, Rest
<1> HIDE DEF c
<1>3. DOMAIN ch' = Node /\ \A m \in Node : ch'[m] \in Seq(Su) /\ Len(ch'[m]) <= MaxChan
  BY <1>1, <1>2, ChannelStep
<1> QED
  BY <1>1, <1>3 DEF TInv

\* A timer of one terminal expires.
LEMMA ExpireTyped == ASSUME TInv, NEW n \in Node, NEW t \in Timer, Expire(n, t) PROVE TInv'
<1> DEFINE x == st[n]
           y == sl_r_pcrse(sl_timer_stop(x, t), t)
<1>1. /\ Whole(x, Timer) /\ Buffered(x) /\ st' = [st EXCEPT ![n] = y]
      /\ UNCHANGED <<ch, sent, up, lost>>
  BY DEF TInv, Expire
<1> HIDE DEF x
<1>2. Whole(y, Timer) /\ Buffered(y)
  <2>1. Whole(y, Timer) /\ Same(x, y)
    BY <1>1, ExpirySound
  <2> HIDE DEF y
  <2> QED
    BY <1>1, <2>1, KeepsBuffered DEF Same, Whole, Core
<1> HIDE DEF y
<1>3. DOMAIN st' = Node /\ \A m \in Node : Whole(st'[m], Timer) /\ Buffered(st'[m])
  BY <1>1, <1>2, NodeStep
<1> QED
  BY <1>1, <1>3 DEF TInv

\* Level 3 of B takes what was received.
LEMMA DeliverTyped == ASSUME TInv, Deliver PROVE TInv'
<1> DEFINE x == st["B"]
<1>1. Whole(x, Timer) /\ Buffered(x) /\ SlState(x) /\ DOMAIN st = Node /\ up \in Seq(Pdu)
  BY DEF TInv, Node, Buffered
<1>2. PICK k \in 1..Len(x.rb) :
        /\ st' = [st EXCEPT !["B"] = sl_rx_wakeup(@, k)]
        /\ up' = up \o DeliverableRb(x, k)
        /\ UNCHANGED <<ch, sent, lost>>
  BY DEF Deliver
<1> DEFINE y == sl_rx_wakeup(x, k)
           n == Len(DeliverableRb(x, k))
           q == Dropped(x.rb, n)
           c == (x.Cr - n) % CtrMod
<1>3. st' = [st EXCEPT !["B"] = y]
  BY <1>1, <1>2 DEF Node
<1> HIDE DEF x
<1>4. Whole(y, Timer)
  BY <1>1, RxWakeupKeeps, KeepsWhole
<1>5. /\ y.pos = x.pos /\ y.rtb = x.rtb
      /\ y.tb = x.tb /\ y.wqc = x.wqc /\ y.cong_status = x.cong_status
  <2>1. DOMAIN x = Fields
    BY <1>1 DEF SlState
  <2> DEFINE v == [x EXCEPT !.rb = <<>>]
             w == [x EXCEPT !.rb = q, !.Cr = c]
  <2>2. y \in {v, w}
    BY DEF sl_rx_wakeup
  <2> HIDE DEF q, c
  <2>3. /\ v.pos = x.pos /\ v.rtb = x.rtb /\ w.pos = x.pos /\ w.rtb = x.rtb
        /\ v.tb = x.tb /\ v.wqc = x.wqc /\ v.cong_status = x.cong_status
        /\ w.tb = x.tb /\ w.wqc = x.wqc /\ w.cong_status = x.cong_status
    BY <2>1, SMT DEF Fields
  <2> HIDE DEF v, w, y
  <2> QED
    BY <2>2, <2>3
<1> HIDE DEF y
<1>6. Buffered(y)
  BY <1>1, <1>4, <1>5, KeepsBuffered DEF Whole, Core
<1>7. DOMAIN st' = Node /\ \A m \in Node : Whole(st'[m], Timer) /\ Buffered(st'[m])
  BY <1>3, <1>4, <1>6, NodeStep DEF Node
<1>8. up' \in Seq(Pdu)
  <2> DEFINE d == DeliverableRb(x, k)
  <2>1. d \in Seq(Pdu)
    BY <1>1, DeliverableTyped
  <2>2. up' = up \o d
    BY <1>2 DEF x
  <2> HIDE DEF d
  <2> QED
    BY <1>1, <2>1, <2>2, ConcatProperties
<1> QED
  BY <1>2, <1>7, <1>8 DEF TInv

\* Two terminals that came into service, and nothing under way.
LEMMA InitTyped == Init => TInv
<1> SUFFICES ASSUME Init PROVE TInv
  OBVIOUS
<1>1. \A n \in Node : st[n] = InService /\ ch[n] = <<>>
  BY DEF Init
<1>2. <<>> \in Seq(Su) /\ Len(<<>>) = 0 /\ <<>> \in Seq(Pdu)
  OBVIOUS
<1>3. sent \in 0..MaxMsg /\ lost \in 0..MaxLoss /\ 0 <= MaxChan
  BY PairAssumption DEF Init
<1>4. DOMAIN st = Node /\ DOMAIN ch = Node /\ up = <<>>
  BY DEF Init
<1> QED
  BY <1>1, <1>2, <1>3, <1>4, InServiceSound DEF TInv

\* Every step keeps the pair well typed.
LEMMA StepTyped == TInv /\ [Next]_vars => TInv'
<1> SUFFICES ASSUME TInv, [Next]_vars PROVE TInv'
  OBVIOUS
<1>1. CASE UNCHANGED vars
  BY <1>1 DEF TInv, vars
<1>2. CASE Send
  BY <1>2, SendTyped
<1>3. CASE \E n \in Node : Transmit(n) \/ Receive(n) \/ Lose(n)
  BY <1>3, TransmitTyped, ReceiveTyped, LoseTyped
<1>4. CASE \E n \in Node, t \in Timer : Expire(n, t)
  BY <1>4, ExpireTyped
<1>5. CASE Deliver
  BY <1>5, DeliverTyped
<1> QED
  BY <1>1, <1>2, <1>3, <1>4, <1>5 DEF Next

\* The inductive invariant of the types.
THEOREM PairTyped == Spec => []TInv
  BY InitTyped, StepTyped, PTL DEF Spec

(***************************************************************************)
(* Both private structures of a link stay well typed and no more units are *)
(* under way than there is room for, for any two terminals of sl_tpi.c.    *)
(***************************************************************************)
THEOREM PairTypeCorrect == Spec => []TypeOK
<1>1. TInv => TypeOK
  BY DEF TInv, TypeOK, Buffered
<1> QED
  BY <1>1, PairTyped, PTL

(***************************************************************************)
(* Transmit congestion, with either method and whatever is lost or         *)
(* expires: the congestion status of each terminal is the level of what    *)
(* its buffers hold, so level 3 is told of each onset and of each          *)
(* abatement (sl_check_congestion), if the thresholds are graded.          *)
(***************************************************************************)
THEOREM CongestionIsTold == Graded => (Spec => []CongestionTold)
<1> SUFFICES ASSUME Graded PROVE Spec => []CongestionTold
  OBVIOUS
<1>1. TInv => CongestionTold
  BY DEF TInv, Buffered, Graduated, CongestionTold
<1> QED
  BY <1>1, PairTyped, PTL

------------------------------------------------------------------------------
(***************************************************************************)
(* Arithmetic modulo the sequence number mask.                             *)
(***************************************************************************)

\* Quotient and remainder.
LEMMA Divided ==
  ASSUME NEW a \in Int
  PROVE  \E q \in Int : a = Mod * q + (a % Mod)
<1>1. a \div Mod \in Int /\ a = Mod * (a \div Mod) + (a % Mod)
  BY NumberAssumption
<1> QED
  BY <1>1

\* The remainder is the only number in range that differs by a multiple.
LEMMA Remainder ==
  ASSUME NEW q \in Int, NEW r \in 0 .. Mod - 1
  PROVE  (Mod * q + r) % Mod = r
<1> DEFINE a == Mod * q + r
<1>1. a \in Int /\ Mod \in Nat /\ Mod > 1
  BY NumberAssumption
<1>2. PICK p \in Int : a = Mod * p + (a % Mod)
  BY <1>1, Divided
<1>3. a % Mod \in 0 .. Mod - 1
  BY <1>1
<1>4. Mod * (p - q) = r - (a % Mod)
  BY <1>1, <1>2, <1>3
<1>5. p - q >= 1 => Mod * (p - q) >= Mod
  BY <1>1
<1>6. p - q <= -1 => Mod * (p - q) <= -Mod
  BY <1>1
<1> QED
  BY <1>1, <1>3, <1>4, <1>5, <1>6

\* The number d later, which may have passed zero.
LEMMA Later ==
  ASSUME NEW a \in Int, NEW d \in 0 .. Mod - 1
  PROVE  (a + d) % Mod = IF (a % Mod) + d < Mod THEN (a % Mod) + d ELSE (a % Mod) + d - Mod
<1>1. Mod \in Nat /\ Mod > 1 /\ a % Mod \in 0 .. Mod - 1
  BY NumberAssumption
<1>2. PICK q \in Int : a = Mod * q + (a % Mod)
  BY Divided
<1> DEFINE r == a % Mod
<1> HIDE DEF r
<1>3. a + d = Mod * q + (r + d) /\ a + d = Mod * (q + 1) + (r + d - Mod)
  BY <1>1, <1>2 DEF r
<1>4. CASE r + d < Mod
  <2>1. r + d \in 0 .. Mod - 1
    BY <1>1, <1>4 DEF r
  <2> QED
    BY <1>3, <1>4, <2>1, Remainder DEF r
<1>5. CASE ~(r + d < Mod)
  <2>1. r + d - Mod \in 0 .. Mod - 1 /\ q + 1 \in Int
    BY <1>1, <1>5 DEF r
  <2> QED
    BY <1>3, <1>5, <2>1, Remainder DEF r
<1> QED
  BY <1>4, <1>5

\* Two numbers less than a cycle apart that are sent as the same one are the same.
LEMMA SameNumber ==
  ASSUME NEW a \in Int, NEW b \in Int, a % Mod = b % Mod, a - b < Mod, b - a < Mod
  PROVE  a = b
<1>1. Mod \in Nat /\ Mod > 1 /\ a % Mod \in 0 .. Mod - 1
  BY NumberAssumption
<1>2. CASE a <= b
  <2> DEFINE d == b - a
  <2>1. d \in 0 .. Mod - 1 /\ a + d = b
    BY <1>1, <1>2
  <2>2. (a + d) % Mod = IF (a % Mod) + d < Mod THEN (a % Mod) + d ELSE (a % Mod) + d - Mod
    BY <2>1, Later
  <2> HIDE DEF d
  <2> QED
    BY <1>1, <2>1, <2>2
<1>3. CASE b <= a
  <2> DEFINE d == a - b
  <2>1. d \in 0 .. Mod - 1 /\ b + d = a
    BY <1>1, <1>3
  <2>2. (b + d) % Mod = IF (b % Mod) + d < Mod THEN (b % Mod) + d ELSE (b % Mod) + d - Mod
    BY <2>1, Later
  <2> HIDE DEF d
  <2> QED
    BY <1>1, <2>1, <2>2
<1> QED
  BY <1>2, <1>3

\* Where the code adds to or subtracts from a number that it keeps modulo the mask.
LEMMA Shifted ==
  ASSUME NEW a \in Int, NEW i \in Int
  PROVE  ((a % Mod) + i) % Mod = (a + i) % Mod
<1>1. Mod \in Nat /\ Mod > 1
  BY NumberAssumption
<1>2. PICK q \in Int : a = Mod * q + (a % Mod)
  BY Divided
<1> DEFINE r == a % Mod
           s == (r + i) % Mod
<1>3. r \in Int /\ r + i \in Int /\ s \in 0 .. Mod - 1
  BY <1>1
<1>4. PICK p \in Int : r + i = Mod * p + s
  BY <1>3, Divided
<1> HIDE DEF r, s
<1>5. a + i = Mod * (q + p) + s /\ q + p \in Int
  BY <1>1, <1>2, <1>3, <1>4 DEF r
<1> QED
  BY <1>3, <1>5, Remainder DEF r, s

\* The number before and the number after.
LEMMA NextNumber ==
  ASSUME NEW a \in Int
  PROVE  ((a % Mod) + 1) % Mod = (a + 1) % Mod /\ ((a % Mod) - 1) % Mod = (a - 1) % Mod
<1>1. a % Mod \in Int
  BY NumberAssumption
<1>2. ((a % Mod) + -1) % Mod = (a + -1) % Mod /\ ((a % Mod) + 1) % Mod = (a + 1) % Mod
  BY Shifted
<1>3. (a % Mod) + -1 = (a % Mod) - 1 /\ a + -1 = a - 1
  BY <1>1
<1> QED
  BY <1>2, <1>3

\* How many messages an acknowledgement frees.
LEMMA Distance ==
  ASSUME NEW a \in Int, NEW b \in Int, b - a \in 0 .. Mod - 1
  PROVE  (((b - 1) % Mod) + 1 - (a % Mod)) % Mod = b - a
<1>1. Mod \in Nat /\ Mod > 1 /\ b - 1 \in Int
  BY NumberAssumption
<1>2. PICK q \in Int : a = Mod * q + (a % Mod)
  BY Divided
<1>3. PICK p \in Int : b - 1 = Mod * p + ((b - 1) % Mod)
  BY <1>1, Divided
<1> DEFINE r == a % Mod
           s == (b - 1) % Mod
<1>4. r \in Int /\ s \in Int
  BY <1>1
<1> HIDE DEF r, s
<1>5. s + 1 - r = Mod * (q - p) + (b - a) /\ q - p \in Int
  <2>1. a = Mod * q + r /\ b - 1 = Mod * p + s
    BY <1>2, <1>3 DEF r, s
  <2>2. Mod * (q - p) = Mod * q - Mod * p
    BY <1>1
  <2>3. Mod * q \in Int /\ Mod * p \in Int
    BY <1>1
  <2> QED
    BY <1>4, <2>1, <2>2, <2>3
<1> QED
  BY <1>5, Remainder DEF r, s

\* SN_OUTSIDE on numbers that lie in one window.
LEMMA Window ==
  ASSUME NEW lo \in Int, NEW m \in Int, NEW hi \in Int, lo <= hi
  PROVE  /\ lo <= m /\ m <= hi /\ hi - lo < Mod => ~SN_OUTSIDE(lo % Mod, m % Mod, hi % Mod)
         /\ m < lo /\ hi - m < Mod => SN_OUTSIDE(lo % Mod, m % Mod, hi % Mod)
<1>1. Mod \in Nat /\ Mod > 1
  BY NumberAssumption
<1>2. ASSUME NEW a \in Int, NEW b \in Int, a <= b, b - a < Mod
      PROVE  b % Mod = IF (a % Mod) + (b - a) < Mod THEN (a % Mod) + (b - a)
                       ELSE (a % Mod) + (b - a) - Mod
  <2> DEFINE d == b - a
  <2>1. d \in 0 .. Mod - 1 /\ a + d = b
    BY <1>1, <1>2
  <2> HIDE DEF d
  <2> QED
    BY <2>1, Later DEF d
<1>3. lo % Mod \in 0 .. Mod - 1 /\ m % Mod \in 0 .. Mod - 1 /\ hi % Mod \in 0 .. Mod - 1
  BY <1>1
<1> DEFINE x == lo % Mod
           y == m % Mod
           z == hi % Mod
<1>4. ASSUME lo <= m, m <= hi, hi - lo < Mod PROVE ~SN_OUTSIDE(x, y, z)
  <2>0. m - lo < Mod
    BY <1>1, <1>4
  <2>1. y = IF x + (m - lo) < Mod THEN x + (m - lo) ELSE x + (m - lo) - Mod
    BY <1>2, <1>4, <2>0
  <2>2. z = IF x + (hi - lo) < Mod THEN x + (hi - lo) ELSE x + (hi - lo) - Mod
    BY <1>2, <1>4
  <2>3. x \in 0 .. Mod - 1 /\ y \in 0 .. Mod - 1 /\ z \in 0 .. Mod - 1
    BY <1>3
  <2> HIDE DEF x, y, z
  <2> QED
    BY <1>1, <1>4, <2>1, <2>2, <2>3 DEF SN_OUTSIDE
<1>5. ASSUME m < lo, hi - m < Mod PROVE SN_OUTSIDE(x, y, z)
  <2>0. m <= lo /\ m <= hi /\ lo - m < Mod
    BY <1>1, <1>5
  <2>1. x = IF y + (lo - m) < Mod THEN y + (lo - m) ELSE y + (lo - m) - Mod
    BY <1>2, <2>0
  <2>2. z = IF y + (hi - m) < Mod THEN y + (hi - m) ELSE y + (hi - m) - Mod
    BY <1>2, <1>5, <2>0
  <2>3. x \in 0 .. Mod - 1 /\ y \in 0 .. Mod - 1 /\ z \in 0 .. Mod - 1
    BY <1>3
  <2> HIDE DEF x, y, z
  <2> QED
    BY <1>1, <1>5, <2>1, <2>2, <2>3 DEF SN_OUTSIDE
<1> QED
  BY <1>4, <1>5

------------------------------------------------------------------------------
(***************************************************************************)
(* Sequences of successive PDUs.                                           *)
(***************************************************************************)
Pdus(a, k) == [i \in 1..k |-> a + i]

\* They are sequences of that length.
LEMMA PdusSeq ==
  ASSUME NEW a \in Nat, NEW k \in Nat
  PROVE  /\ Pdus(a, k) \in Seq(Nat) /\ Len(Pdus(a, k)) = k
         /\ \A i \in 1..k : Pdus(a, k)[i] = a + i
         /\ k = 0 <=> Pdus(a, k) = <<>>
<1>1. /\ Pdus(a, k) \in Seq(Nat) /\ Len(Pdus(a, k)) = k
      /\ \A i \in 1..k : Pdus(a, k)[i] = a + i
  BY DEF Pdus
<1> HIDE DEF Pdus
<1>2. k = 0 <=> Pdus(a, k) = <<>>
  BY <1>1, EmptySeq
<1> QED
  BY <1>1, <1>2

\* A sequence with the right length and elements is one of them.
LEMMA PdusIs ==
  ASSUME NEW a \in Nat, NEW k \in Nat, NEW S, NEW q \in Seq(S), Len(q) = k,
         \A i \in 1..k : q[i] = a + i
  PROVE  q = Pdus(a, k)
<1>1. DOMAIN q = 1..k /\ q = [i \in 1..k |-> q[i]]
  OBVIOUS
<1> QED
  BY <1>1 DEF Pdus

\* The next PDU.
LEMMA PdusAppend ==
  ASSUME NEW a \in Nat, NEW k \in Nat PROVE Append(Pdus(a, k), a + k + 1) = Pdus(a, k + 1)
<1> DEFINE p == Pdus(a, k)
           q == Append(p, a + k + 1)
<1>1. p \in Seq(Nat) /\ Len(p) = k /\ \A i \in 1..k : p[i] = a + i
  BY PdusSeq
<1>2. a + k + 1 \in Nat /\ k + 1 \in Nat
  OBVIOUS
<1> HIDE DEF p
<1>3. /\ q \in Seq(Nat) /\ Len(q) = k + 1 /\ \A i \in 1..k : q[i] = p[i]
      /\ q[k + 1] = a + k + 1
  BY <1>1, <1>2, AppendProperties
<1>4. \A i \in 1 .. k + 1 : q[i] = a + i
  BY <1>1, <1>3
<1> HIDE DEF q
<1>5. q = Pdus(a, k + 1)
  BY <1>2, <1>3, <1>4, PdusIs
<1> QED
  BY <1>5 DEF p, q

\* The first PDU and the others.
LEMMA PdusHeadTail ==
  ASSUME NEW a \in Nat, NEW k \in Nat, k > 0
  PROVE  Head(Pdus(a, k)) = a + 1 /\ Tail(Pdus(a, k)) = Pdus(a + 1, k - 1)
<1> DEFINE p == Pdus(a, k)
           q == Tail(p)
<1>1. p \in Seq(Nat) /\ Len(p) = k /\ p # <<>> /\ \A i \in 1..k : p[i] = a + i
  BY PdusSeq
<1> HIDE DEF p
<1>2. Head(p) = a + 1
  BY <1>1
<1>3. q \in Seq(Nat) /\ Len(q) = k - 1 /\ \A i \in 1 .. k - 1 : q[i] = p[i + 1]
  BY <1>1, HeadTailProperties
<1>4. \A i \in 1 .. k - 1 : q[i] = (a + 1) + i
  BY <1>1, <1>3
<1> HIDE DEF q
<1>5. q = Pdus(a + 1, k - 1)
  BY <1>3, <1>4, PdusIs
<1> QED
  BY <1>2, <1>5 DEF p, q

\* What is left after the first j.
LEMMA PdusDropped ==
  ASSUME NEW a \in Nat, NEW k \in Nat, NEW j \in 0..k
  PROVE  Dropped(Pdus(a, k), j) = Pdus(a + j, k - j)
<1> DEFINE p == Pdus(a, k)
           q == Dropped(p, j)
<1>1. p \in Seq(Nat) /\ Len(p) = k /\ \A i \in 1..k : p[i] = a + i
  BY PdusSeq
<1> HIDE DEF p
<1>2. q \in Seq(Nat) /\ Len(q) = k - j /\ \A i \in 1 .. k - j : q[i] = p[j + i]
  BY <1>1, SubSeqProperties DEF Dropped
<1>3. \A i \in 1 .. k - j : q[i] = (a + j) + i
  BY <1>1, <1>2
<1> HIDE DEF q
<1> QED
  BY <1>2, <1>3, PdusIs DEF p, q

\* Two runs of which one continues the other.
LEMMA PdusConcat ==
  ASSUME NEW a \in Nat, NEW k \in Nat, NEW j \in Nat
  PROVE  Pdus(a, k) \o Pdus(a + k, j) = Pdus(a, k + j)
<1> DEFINE p == Pdus(a, k)
           r == Pdus(a + k, j)
           q == p \o r
<1>1. p \in Seq(Nat) /\ Len(p) = k /\ \A i \in 1..k : p[i] = a + i
  BY PdusSeq
<1>0. a + k \in Nat /\ k + j \in Nat
  OBVIOUS
<1>2. r \in Seq(Nat) /\ Len(r) = j /\ \A i \in 1..j : r[i] = (a + k) + i
  BY <1>0, PdusSeq
<1> HIDE DEF p, r
<1>3. /\ q \in Seq(Nat) /\ Len(q) = k + j
      /\ \A i \in 1 .. k + j : q[i] = IF i <= k THEN p[i] ELSE r[i - k]
  <2>1. /\ q \in Seq(Nat) /\ Len(q) = Len(p) + Len(r)
        /\ \A i \in 1 .. Len(p) + Len(r) : q[i] = IF i <= Len(p) THEN p[i] ELSE r[i - Len(p)]
    BY <1>1, <1>2, ConcatProperties
  <2> HIDE DEF q
  <2> QED
    BY <1>1, <1>2, <2>1
<1>4. \A i \in 1 .. k + j : q[i] = a + i
  BY <1>1, <1>2, <1>3
<1> HIDE DEF q
<1>5. q = Pdus(a, k + j)
  BY <1>0, <1>3, <1>4, PdusIs
<1> QED
  BY <1>5 DEF p, q, r

------------------------------------------------------------------------------
(***************************************************************************)
(* Preventive cyclic retransmission, with a retransmission buffer that is  *)
(* smaller than the cycle of sequence numbers (N1 is 127 and the cycle 128 *)
(* by default).  The basic procedure loses messages (RetrievalRecoversAll).*)
(***************************************************************************)
PcrLink == PCR /\ N1 \in 1 .. Mod - 1

(***************************************************************************)
(* Transmission: of m messages given by level 3 l were sent and f are      *)
(* known to have arrived.  The buffers hold the others, in order, and the  *)
(* sequence numbers and z_ptr agree with them.                             *)
(***************************************************************************)
Tx(x, f, l, m) ==
  /\ f <= l /\ l <= m /\ l - f <= N1
  /\ x.rtb = Pdus(f, l - f) /\ x.tb = Pdus(l, m - l)
  /\ x.Ffsn = f % Mod /\ x.rFfsn = f % Mod
  /\ x.Lfsn = (l - 1) % Mod /\ x.Tfsn = (l - 1) % Mod
  /\ l - f = N1 => x.forced_retransmission = 1
  /\ x.pos \in 0 .. l - f
  /\ x.pos > 0 => x.Z = (f + x.pos - 1) % Mod
  /\ x.clear_rtb = 0 /\ x.ib_mask = 1

\* Reception: n messages have arrived in sequence, and t are acknowledged.
Rx(x, t, n) == t <= n /\ x.tXfsn = t % Mod /\ x.Xfsn = n % Mod

\* Functions that leave the buffers alone.
LEMMA SameTxRx ==
  ASSUME NEW x, NEW y, Same(x, y), NEW f, NEW l, NEW m, NEW t \in Nat, NEW n \in Nat
  PROVE  /\ Tx(x, f, l, m) => Tx(y, f, l, m)
         /\ Rx(x, t, n) => \E u \in {t, n} : Rx(y, u, n)
<1>1. Tx(x, f, l, m) => Tx(y, f, l, m)
  BY DEF Same, Tx
<1>2. ASSUME Rx(x, t, n) PROVE \E u \in {t, n} : Rx(y, u, n)
  <2>1. y.tXfsn \in {t % Mod, n % Mod} /\ y.Xfsn = n % Mod /\ t <= n /\ n <= n
    BY <1>2 DEF Same, Rx
  <2> QED
    BY <2>1 DEF Rx
<1> QED
  BY <1>1, <1>2

\* An acknowledgement of what is in the buffer frees just that.
LEMMA AckTx ==
  ASSUME PcrLink, NEW x, SlState(x), NEW su \in Su,
         NEW f \in Nat, NEW l \in Nat, NEW m \in Nat, Tx(x, f, l, m),
         NEW b \in f..l, su.bsn = (b - 1) % Mod
  PROVE  LET y == AckReceived(x, su)
         IN  /\ Tx(y, b, l, m)
             /\ y.rb = x.rb /\ y.Xfsn = x.Xfsn /\ y.tXfsn = x.tXfsn
<1>0. Mod \in Nat /\ Mod > 1 /\ N1 \in Nat /\ N1 < Mod /\ N1 > 0 /\ PCR
  BY NumberAssumption DEF PcrLink
<1> DEFINE bsn == su.bsn
           bib == su.bib
<1>1. bsn \in Sn /\ bsn = (b - 1) % Mod
  BY SuFields
<1> HIDE DEF bsn, bib
<1> DEFINE next == (bsn + 1) % Mod
           k == (bsn + 1 - x.Ffsn) % Mod
<1>2. next = b % Mod /\ k = b - f /\ b \in Nat /\ b - f \in 0 .. Mod - 1
  <2>1. b - f \in 0 .. Mod - 1 /\ b - 1 \in Int /\ b - 1 + 1 = b /\ b \in Nat
    BY <1>0 DEF Tx
  <2>2. x.Ffsn = f % Mod
    BY DEF Tx
  <2>3. k = b - f
    BY <1>1, <2>1, <2>2, Distance
  <2>4. next = b % Mod
    BY <1>1, <2>1, NextNumber
  <2> QED
    BY <2>1, <2>3, <2>4
<1> HIDE DEF next, k
<1> DEFINE s0 == [x EXCEPT !.tRbsn = bsn]
           a == Acknowledged(s0, bsn)
           r == sl_txc_bsnr_and_bibr(x, bsn, bib)
           y == [r EXCEPT !.rFfsn = next]
<1>3. Leaves(x, s0) /\ s0.tXfsn = x.tXfsn
  BY <1>1, SMT DEF Leaves, Same, SlState, Fields
<1>4. SlState(s0) /\ Same(x, s0)
  BY <1>3 DEF Leaves
<1>5. Tx(s0, f, l, m) /\ s0.rb = x.rb /\ s0.Xfsn = x.Xfsn /\ s0.tXfsn = x.tXfsn
  BY <1>3, <1>4 DEF Same, Tx
<1>6. r = IF s0.Ffsn # next THEN a ELSE s0
  <2>1. s0.clear_rtb # 1
    BY <1>5 DEF Tx
  <2> HIDE DEF a
  <2> QED
    BY <1>0, <2>1 DEF sl_txc_bsnr_and_bibr, a, next
<1> HIDE DEF s0
<1>7. /\ SlState(r)
      /\ r.rtb = Pdus(b, l - b) /\ r.tb = Pdus(l, m - l) /\ r.Ffsn = b % Mod
      /\ r.Lfsn = (l - 1) % Mod /\ r.Tfsn = (l - 1) % Mod
      /\ l - b = N1 => r.forced_retransmission = 1
      /\ r.pos \in 0 .. l - b
      /\ r.pos > 0 => r.Z = (b + r.pos - 1) % Mod
      /\ r.clear_rtb = 0 /\ r.ib_mask = 1
      /\ r.rb = x.rb /\ r.Xfsn = x.Xfsn /\ r.tXfsn = x.tXfsn
  <2>1. CASE s0.Ffsn = next
    <3>1. f = b
      <4>1. f % Mod = b % Mod
        BY <1>2, <1>5, <2>1 DEF Tx
      <4>2. f - b < Mod /\ b - f < Mod
        BY <1>0, <1>2
      <4> QED
        BY <1>2, <4>1, <4>2, SameNumber
    <3>2. r = s0
      BY <1>6, <2>1
    <3> QED
      BY <1>4, <1>5, <3>1, <3>2 DEF Tx
  <2>2. CASE s0.Ffsn # next
    <3> DEFINE q == Dropped(s0.rtb, k)
               rewind == SN_OUTSIDE(next, s0.Z, s0.Lfsn) \/ q = <<>>
    <3>1. r = a
      BY <1>6, <2>2
    <3>2. s0.Ffsn = x.Ffsn
      BY <1>4 DEF Same
    <3>3. /\ a.tb = s0.tb /\ a.rb = s0.rb /\ a.Lfsn = s0.Lfsn /\ a.Tfsn = s0.Tfsn
          /\ a.Xfsn = s0.Xfsn /\ a.tXfsn = s0.tXfsn /\ a.ib_mask = s0.ib_mask
          /\ a.clear_rtb = s0.clear_rtb /\ a.Ffsn = next /\ a.rtb = q
          /\ a.forced_retransmission = s0.forced_retransmission
          /\ a.Z = IF rewind THEN next ELSE s0.Z
          /\ a.pos = IF rewind THEN (IF q = <<>> THEN 0 ELSE 1) ELSE PosAfter(s0.pos, k)
      BY <1>1, <1>4, <3>2, AcknowledgedFields DEF next, k
    <3>4. SlState(a)
      BY <1>1, <1>4, AcknowledgedKeeps, TypedBy
    <3> HIDE DEF a, r
    <3>5. s0.rtb = Pdus(f, l - f) /\ l - f \in Nat /\ b - f \in 0 .. l - f /\ l - b \in Nat
      BY <1>2, <1>5 DEF Tx
    <3>6. q = Pdus(b, l - b)
      <4>1. f + (b - f) = b /\ (l - f) - (b - f) = l - b
        BY <1>2
      <4> QED
        BY <1>2, <3>5, <4>1, PdusDropped
    <3>7. q = <<>> <=> l = b
      <4>1. l - b = 0 <=> Pdus(b, l - b) = <<>>
        BY <1>2, <3>5, PdusSeq
      <4>2. l - b = 0 <=> l = b
        BY <1>2
      <4> QED
        BY <3>6, <4>1, <4>2
    <3> HIDE DEF q
    <3>8. l - b = N1 => a.forced_retransmission = 1
      <4>1. l - f = N1 => s0.forced_retransmission = 1
        BY <1>5 DEF Tx
      <4>2. l - b = N1 => l - f = N1
        BY <1>0, <1>2, <1>5 DEF Tx
      <4> QED
        BY <3>3, <4>1, <4>2
    <3>9. a.pos \in 0 .. l - b /\ (a.pos > 0 => a.Z = (b + a.pos - 1) % Mod)
      <4>0. s0.pos \in 0 .. l - f /\ (s0.pos > 0 => s0.Z = (f + s0.pos - 1) % Mod)
        BY <1>5 DEF Tx
      <4>1. CASE q = <<>>
        BY <3>3, <3>5, <4>1
      <4>2. CASE q # <<>> /\ SN_OUTSIDE(next, s0.Z, s0.Lfsn)
        <5>1. a.pos = 1 /\ a.Z = b % Mod /\ l > b /\ b + a.pos - 1 = b
          BY <1>2, <3>3, <3>7, <4>2
        <5> QED
          BY <1>2, <5>1
      <4>3. CASE q # <<>> /\ ~SN_OUTSIDE(next, s0.Z, s0.Lfsn)
        <5>1. a.pos = PosAfter(s0.pos, b - f) /\ a.Z = s0.Z /\ b < l
          BY <1>2, <3>3, <3>7, <4>3
        <5>2. CASE s0.pos = 0
          BY <1>2, <5>1, <5>2 DEF PosAfter
        <5>3. CASE s0.pos > 0
          <6> DEFINE z == f + s0.pos - 1
          <6>1. z \in Int /\ s0.Z = z % Mod /\ l - 1 \in Int /\ b <= l - 1
            BY <4>0, <5>1, <5>3, <1>2
          <6>2. ~SN_OUTSIDE(b % Mod, z % Mod, (l - 1) % Mod)
            BY <1>2, <1>5, <4>3, <6>1 DEF Tx
          <6>3. (l - 1) - z < Mod
            <7>1. l - f <= N1
              BY <1>5 DEF Tx
            <7>2. s0.pos \in Int
              BY <4>0
            <7> HIDE DEF s0
            <7> QED
              BY <1>0, <5>3, <7>1, <7>2
          <6> HIDE DEF z
          <6>4. z >= b
            BY <1>2, <6>1, <6>2, <6>3, Window
          <6>5. s0.pos > b - f /\ a.pos = s0.pos - (b - f)
            BY <1>2, <4>0, <5>1, <5>3, <6>4 DEF z, PosAfter
          <6>6. b + a.pos - 1 = z
            BY <1>2, <4>0, <6>5 DEF z
          <6> QED
            BY <1>2, <3>5, <4>0, <5>1, <6>1, <6>5, <6>6
        <5> QED
          BY <4>0, <5>2, <5>3
      <4> QED
        BY <4>1, <4>2, <4>3
    <3> QED
      BY <1>2, <1>5, <3>1, <3>3, <3>4, <3>6, <3>8, <3>9 DEF Tx
  <2> QED
    BY <2>1, <2>2
<1> HIDE DEF r
<1>8. /\ y.rFfsn = next
      /\ y.tb = r.tb /\ y.rtb = r.rtb /\ y.rb = r.rb /\ y.pos = r.pos /\ y.Z = r.Z
      /\ y.Ffsn = r.Ffsn /\ y.Lfsn = r.Lfsn /\ y.Tfsn = r.Tfsn
      /\ y.Xfsn = r.Xfsn /\ y.tXfsn = r.tXfsn
      /\ y.forced_retransmission = r.forced_retransmission
      /\ y.clear_rtb = r.clear_rtb /\ y.ib_mask = r.ib_mask
  <2>1. DOMAIN r = Fields
    BY <1>7 DEF SlState
  <2> QED
    BY <2>1, SMT DEF Fields
<1>9. AckReceived(x, su) = y
  BY DEF AckReceived, r, next, bsn, bib
<1> HIDE DEF y
<1>10. b <= l /\ l <= m /\ l - b <= N1
  BY <1>0, <1>2 DEF Tx
<1> QED
  BY <1>2, <1>7, <1>8, <1>9, <1>10 DEF Tx

\* The number of an MSU tells which one it is, as seen by a receiver that has n.
Numbered(su, n) ==
  su.type = "MSU" => /\ su.pdu \in Nat /\ su.fsn = (su.pdu - 1) % Mod
                     /\ n + 1 - su.pdu < Mod /\ su.pdu - 1 - n < Mod

\* What the reception of a unit may do: free what it acknowledges, and take
\* the next message when the unit carries it.
Took(x, y, su, f, b, l, m, t, n) ==
  /\ SlState(y)
  /\ \E g \in {f, b} : Tx(y, g, l, m)
  /\ \/ y.rb = x.rb /\ \E u \in t..n : Rx(y, u, n)
     \/ /\ su.type = "MSU" /\ su.pdu = n + 1 /\ y.rb = Append(x.rb, su.pdu)
        /\ \E u \in t .. n + 1 : Rx(y, u, n + 1)

\* A function that leaves the buffers alone, before the unit is taken...
LEMMA TookAfter ==
  ASSUME NEW x, SlState(x), NEW z, Leaves(x, z), NEW f, NEW l, NEW m, NEW t \in Nat, NEW n \in Nat,
         Tx(x, f, l, m), Rx(x, t, n)
  PROVE  SlState(z) /\ Tx(z, f, l, m) /\ z.rb = x.rb /\ \E u \in t..n : Rx(z, u, n)
<1>1. SlState(z) /\ Same(x, z)
  BY DEF Leaves
<1>2. Tx(z, f, l, m) /\ \E u \in {t, n} : Rx(z, u, n)
  BY <1>1, SameTxRx
<1>3. t <= n
  BY DEF Rx
<1> QED
  BY <1>1, <1>2, <1>3 DEF Same

\* ... and after it.
LEMMA TookThen ==
  ASSUME NEW x, NEW y, NEW z, NEW su, NEW f \in Nat, NEW b \in Nat, NEW l, NEW m,
         NEW t \in Nat, NEW n \in Nat, Took(x, y, su, f, b, l, m, t, n), Leaves(y, z)
  PROVE  Took(x, z, su, f, b, l, m, t, n)
<1>1. SlState(y) /\ SlState(z) /\ Same(y, z)
  BY DEF Took, Leaves
<1>2. \E g \in {f, b} : Tx(z, g, l, m)
  BY <1>1 DEF Took, Same, Tx
<1>3. ASSUME NEW k \in Nat, \E u \in t..k : Rx(y, u, k) PROVE \E u \in t..k : Rx(z, u, k)
  <2>1. PICK u \in t..k : Rx(y, u, k)
    BY <1>3
  <2>2. u \in Nat
    OBVIOUS
  <2>3. \E v \in {u, k} : Rx(z, v, k)
    BY <1>1, <1>3, <2>1, <2>2, SameTxRx
  <2>4. {u, k} \subseteq t..k
    BY <1>3
  <2> QED
    BY <2>3, <2>4
<1>4. n + 1 \in Nat /\ z.rb = y.rb
  BY <1>1 DEF Same
<1> QED
  BY <1>1, <1>2, <1>3, <1>4 DEF Took

\* The next MSU.
LEMMA InSequenceTook ==
  ASSUME PcrLink, NEW x, SlState(x), NEW su \in Su, su.type = "MSU", su.fsn = x.Xfsn,
         NEW f \in Nat, NEW l \in Nat, NEW m \in Nat, Tx(x, f, l, m),
         NEW t \in Nat, NEW n \in Nat, Rx(x, t, n), Numbered(su, n)
  PROVE  Took(x, InSequence(x, su), su, f, f, l, m, t, n)
<1> DEFINE y == InSequence(x, su)
<1>1. SlState(y)
  BY InSequenceKeeps, TypedBy
<1>2. /\ y.tb = x.tb /\ y.rtb = x.rtb /\ y.pos = x.pos /\ y.Z = x.Z
      /\ y.Ffsn = x.Ffsn /\ y.Lfsn = x.Lfsn /\ y.Tfsn = x.Tfsn /\ y.rFfsn = x.rFfsn
      /\ y.forced_retransmission = x.forced_retransmission
      /\ y.clear_rtb = x.clear_rtb /\ y.ib_mask = x.ib_mask
      /\ y.Xfsn = (x.Xfsn + 1) % Mod /\ y.tXfsn \in {x.tXfsn, (x.Xfsn + 1) % Mod}
      /\ y.rb = Append(x.rb, su.pdu)
  BY InSequenceFields
<1> HIDE DEF y
<1>3. Tx(y, f, l, m)
  BY <1>2 DEF Tx
<1>4. su.pdu = n + 1
  <2> DEFINE p == su.pdu
  <2>1. p \in Nat /\ su.fsn = (p - 1) % Mod /\ n + 1 - p < Mod /\ p - 1 - n < Mod
    BY DEF Numbered
  <2>2. (p - 1) % Mod = n % Mod
    BY <2>1 DEF Rx
  <2> HIDE DEF p
  <2>3. p - 1 \in Int /\ n - (p - 1) < Mod /\ (p - 1) - n < Mod
    BY <2>1, NumberAssumption
  <2>4. p - 1 = n
    BY <2>2, <2>3, SameNumber
  <2>5. p = n + 1
    BY <2>1, <2>4
  <2> QED
    BY <2>5 DEF p
<1>5. (x.Xfsn + 1) % Mod = (n + 1) % Mod /\ x.tXfsn = t % Mod /\ t <= n
  BY NextNumber DEF Rx
<1>6. y.Xfsn = (n + 1) % Mod /\ y.tXfsn \in {t % Mod, (n + 1) % Mod} /\ t <= n + 1 /\ n + 1 <= n + 1
  BY <1>2, <1>5
<1>7. \E u \in {t, n + 1} : Rx(y, u, n + 1)
  BY <1>6 DEF Rx
<1>8. {t, n + 1} \subseteq t .. n + 1
  BY <1>5
<1> QED
  BY <1>1, <1>2, <1>3, <1>4, <1>7, <1>8 DEF Took, y

\* Assignments of reception to fields that hold no message and no number.
LEMMA RtrLeaves ==
  ASSUME NEW c
  PROVE  Leaves(c, [c EXCEPT !.rtr = IF PCR THEN @ ELSE 1])
BY SMT DEF Leaves, Same, SlState, Fields, Flag

LEMMA AbnormalLeaves ==
  ASSUME NEW r, SlState(r)
  PROVE  Leaves(r, [r EXCEPT !.abnormal_bsnr = 0]) /\ [r EXCEPT !.abnormal_bsnr = 0].tXfsn = r.tXfsn
<1>1. Leaves(r, [r EXCEPT !.abnormal_bsnr = 0])
  BY SMT DEF Leaves, Same, SlState, Fields, Flag
<1>2. DOMAIN r = Fields
  BY DEF SlState
<1> QED
  BY <1>1, <1>2, SMT DEF Fields

\* A FISU or an MSU that is accepted.
LEMMA AcceptedTook ==
  ASSUME PcrLink, NEW x, SlState(x), NEW su \in Su, NEW next \in BOOLEAN, NEW own \in BOOLEAN,
         NEW f \in Nat, NEW l \in Nat, NEW m \in Nat, Tx(x, f, l, m),
         NEW t \in Nat, NEW n \in Nat, Rx(x, t, n), Numbered(su, n),
         NEW b \in f..l, su.bsn = (b - 1) % Mod
  PROVE  Took(x, SuAccepted(x, su, next, own), su, f, b, l, m, t, n)
<1> DEFINE e == sl_lsc_fisu_msu_received(x)
           a == AckReceived(e, su)
           c == sl_rb_congestion_function(a, next, own)
           d == [c EXCEPT !.rtr = IF PCR THEN @ ELSE 1]
           i == InSequence(c, su)
           y == SuAccepted(x, su, next, own)
<1>1. PCR /\ b \in Nat
  BY DEF PcrLink
<1>2. \/ su.type = "MSU" /\ su.fsn = c.Xfsn /\ y = i
      \/ y \in {a, c, sl_cc_busy(d)}
  BY <1>1 DEF SuAccepted
<1> HIDE DEF y
<1>3. SlState(e) /\ Tx(e, f, l, m) /\ e.rb = x.rb /\ \E u \in t..n : Rx(e, u, n)
  BY OutageLeaves, TookAfter
<1> HIDE DEF e
<1>4. PICK u \in t..n : Rx(e, u, n)
  BY <1>3
<1>5. SlState(a) /\ Tx(a, b, l, m) /\ a.rb = x.rb /\ Rx(a, u, n) /\ u \in Nat
  <2>1. Tx(a, b, l, m) /\ a.rb = e.rb /\ a.Xfsn = e.Xfsn /\ a.tXfsn = e.tXfsn
    BY <1>3, AckTx
  <2>2. SlState(a)
    BY <1>3, AckReceivedKeeps, TypedBy
  <2> QED
    BY <1>3, <1>4, <2>1, <2>2 DEF Rx
<1> HIDE DEF a
<1>6. Took(x, a, su, f, b, l, m, t, n)
  BY <1>5 DEF Took
<1>7. Leaves(a, c)
  BY ReceptionLeaves
<1> HIDE DEF c
<1>8. Took(x, c, su, f, b, l, m, t, n)
  BY <1>1, <1>6, <1>7, TookThen
<1>9. Leaves(c, d)
  BY RtrLeaves
<1> HIDE DEF d
<1>10. Took(x, sl_cc_busy(d), su, f, b, l, m, t, n)
  <2>1. Leaves(d, sl_cc_busy(d))
    BY SmallLeaves
  <2> QED
    BY <1>1, <1>8, <1>9, <2>1, TookThen
<1>11. ASSUME su.type = "MSU", su.fsn = c.Xfsn PROVE Took(x, i, su, f, b, l, m, t, n)
  <2>1. SlState(c) /\ Tx(c, b, l, m) /\ c.rb = a.rb /\ \E v \in u..n : Rx(c, v, n)
    BY <1>5, <1>7, TookAfter
  <2>2. PICK v \in u..n : Rx(c, v, n)
    BY <2>1
  <2>3. v \in Nat /\ v \in t..n
    BY <1>5
  <2>4. Took(c, i, su, b, b, l, m, v, n)
    BY <1>1, <1>11, <2>1, <2>2, <2>3, InSequenceTook
  <2> HIDE DEF i
  <2>5. c.rb = x.rb /\ v..n \subseteq t..n /\ v .. n + 1 \subseteq t .. n + 1
    BY <1>5, <2>1, <2>3
  <2> QED
    BY <2>4, <2>5 DEF Took
<1> QED
  BY <1>2, <1>6, <1>8, <1>10, <1>11 DEF y

\* Any unit that arrives.
LEMMA ReceivedTook ==
  ASSUME PcrLink, NEW x, SlState(x), NEW su \in Su, NEW next \in BOOLEAN, NEW own \in BOOLEAN,
         NEW f \in Nat, NEW l \in Nat, NEW m \in Nat, Tx(x, f, l, m),
         NEW t \in Nat, NEW n \in Nat, Rx(x, t, n), Numbered(su, n),
         NEW b \in f..l, su.bsn = (b - 1) % Mod
  PROVE  Took(x, sl_daedr_received_bits(x, su, next, own), su, f, b, l, m, t, n)
<1> DEFINE bsn == su.bsn
<1>0. bsn \in Sn /\ PCR /\ b \in Nat
  BY SuFields DEF PcrLink
<1> HIDE DEF bsn
<1> DEFINE r == [x EXCEPT !.rRbsn = bsn]
           a == [r EXCEPT !.abnormal_bsnr = 0]
           u == [r EXCEPT !.unb = 1]
           z == sl_rc_signal_unit(x, su, next, own)
<1>1. \/ su.type = "LSSU" /\ z = LssuReceived(r, su.sio)
      \/ z \in {x, AbnormalBsnr(r), u, SuAccepted(a, su, next, own)}
  BY <1>0 DEF sl_rc_signal_unit, bsn
<1> HIDE DEF z
<1>2. Took(x, x, su, f, b, l, m, t, n)
  <2>1. t \in t..n
    BY DEF Rx
  <2> QED
    BY <2>1 DEF Took
<1>3. Leaves(x, r) /\ r.tXfsn = x.tXfsn
  BY <1>0, SMT DEF Leaves, Same, SlState, Fields
<1>4. SlState(r) /\ Same(x, r)
  BY <1>3 DEF Leaves
<1> HIDE DEF r
<1>5. Leaves(r, a) /\ a.tXfsn = r.tXfsn
  BY <1>4, AbnormalLeaves
<1>6. Leaves(r, u)
  BY SMT DEF Leaves, Same, SlState, Fields, Flag
<1> HIDE DEF a, u
<1>7. SlState(a) /\ Tx(a, f, l, m) /\ Rx(a, t, n) /\ a.rb = x.rb
  BY <1>3, <1>4, <1>5 DEF Leaves, Same, Tx, Rx
<1>8. Took(x, SuAccepted(a, su, next, own), su, f, b, l, m, t, n)
  <2>1. Took(a, SuAccepted(a, su, next, own), su, f, b, l, m, t, n)
    BY <1>7, AcceptedTook
  <2> QED
    BY <1>7, <2>1 DEF Took
<1>9. Took(x, r, su, f, b, l, m, t, n)
  BY <1>0, <1>2, <1>3, TookThen
<1>10. Took(x, u, su, f, b, l, m, t, n) /\ Took(x, AbnormalBsnr(r), su, f, b, l, m, t, n)
  BY <1>0, <1>6, <1>9, ReceptionLeaves, TookThen
<1>11. su.type = "LSSU" => Took(x, LssuReceived(r, su.sio), su, f, b, l, m, t, n)
  BY <1>0, <1>9, SuFields, ReceptionLeaves, TookThen
<1>12. Took(x, z, su, f, b, l, m, t, n)
  BY <1>1, <1>2, <1>8, <1>10, <1>11
<1>13. Took(x, sl_daedr_correct_su(z), su, f, b, l, m, t, n)
  BY <1>0, <1>12, ReceptionLeaves, TookThen
<1>14. sl_daedr_received_bits(x, su, next, own) \in {x, sl_daedr_correct_su(z)}
  BY DEF sl_daedr_received_bits, z
<1> QED
  BY <1>2, <1>13, <1>14

------------------------------------------------------------------------------
(***************************************************************************)
(* Transmission: whatever goes out acknowledges what was accepted, and an  *)
(* MSU carries a message of the retransmission buffer under its number.    *)
(***************************************************************************)
WentOut(x, r, f, l, m) ==
  \/ r.su = NoSu
  \/ /\ r.su.bsn = (x.tXfsn - 1) % Mod
     /\ r.st.Xfsn = x.Xfsn /\ r.st.tXfsn = x.tXfsn /\ r.st.rb = x.rb
     /\ \E k \in {l, l + 1} :
          /\ Tx(r.st, f, k, m)
          /\ r.su.type = "MSU" => /\ r.su.pdu \in f + 1 .. k
                                  /\ r.su.fsn = (r.su.pdu - 1) % Mod

\* Neither a new nor an old message: a unit without one.
LEMMA EmptyWentOut ==
  ASSUME NEW x, SlState(x), NEW f \in Nat, NEW l \in Nat, NEW m \in Nat, Tx(x, f, l, m)
  PROVE  WentOut(x, SendFisu(x), f, l, m) /\ WentOut(x, SendLssu(x), f, l, m)
<1> DEFINE a == [x EXCEPT !.Nfsn = x.Lfsn]
           b == [x EXCEPT !.lssu_available = IF x.sio = "SIB" THEN 0 ELSE @, !.Nfsn = x.Lfsn]
<1>1. DOMAIN x = Fields
  BY DEF SlState
<1>2. Same(x, a) /\ a.tXfsn = x.tXfsn
  BY <1>1, SMT DEF Same, Fields
<1>3. Same(x, b) /\ b.tXfsn = x.tXfsn
  BY <1>1, SMT DEF Same, Fields
<1>4. /\ SendFisu(x).st = a /\ SendFisu(x).su = sl_daedt_fisu(a)
      /\ SendLssu(x).st = b /\ SendLssu(x).su = sl_daedt_lssu(b)
  BY DEF SendFisu, SendLssu
<1> HIDE DEF a, b
<1>5. /\ sl_daedt_fisu(a).type = "FISU" /\ sl_daedt_fisu(a).bsn = (a.tXfsn - 1) % Mod
      /\ sl_daedt_lssu(b).type = "LSSU" /\ sl_daedt_lssu(b).bsn = (b.tXfsn - 1) % Mod
  BY DEF sl_daedt_fisu, sl_daedt_lssu
<1>6. Tx(a, f, l, m) /\ Tx(b, f, l, m)
  BY <1>2, <1>3 DEF Same, Tx
<1> QED
  BY <1>2, <1>3, <1>4, <1>5, <1>6 DEF WentOut, Same

\* A full buffer stays in forced retransmission.
LEMMA ForcingTx ==
  ASSUME PcrLink, NEW x, SlState(x), NEW f \in Nat, NEW l \in Nat, NEW m \in Nat, Tx(x, f, l, m)
  PROVE  LET y == Forcing(x)
         IN  /\ SlState(y) /\ Tx(y, f, l, m)
             /\ y.Xfsn = x.Xfsn /\ y.tXfsn = x.tXfsn /\ y.rb = x.rb
<1> DEFINE y == Forcing(x)
           room == Len(x.rtb) < N1
<1>1. SlState(y)
  BY SMT DEF SlState, Fields, Flag, Forcing
<1>2. DOMAIN x = Fields
  BY DEF SlState
<1>3. /\ y.tb = x.tb /\ y.rtb = x.rtb /\ y.rb = x.rb /\ y.pos = x.pos /\ y.Z = x.Z
      /\ y.Ffsn = x.Ffsn /\ y.Lfsn = x.Lfsn /\ y.Tfsn = x.Tfsn /\ y.rFfsn = x.rFfsn
      /\ y.Xfsn = x.Xfsn /\ y.tXfsn = x.tXfsn
      /\ y.clear_rtb = x.clear_rtb /\ y.ib_mask = x.ib_mask
  BY <1>2, SMT DEF Forcing, Fields
<1>4. y.forced_retransmission \in {1, IF room THEN 0 ELSE x.forced_retransmission}
  BY <1>2, SMT DEF Forcing, Fields
<1>5. Len(x.rtb) = l - f
  <2>1. l - f \in Nat /\ x.rtb = Pdus(f, l - f)
    BY DEF Tx
  <2> QED
    BY <2>1, PdusSeq
<1> HIDE DEF y
<1>6. l - f = N1 => y.forced_retransmission = 1
  <2>1. l - f = N1 => x.forced_retransmission = 1
    BY DEF Tx
  <2>2. N1 \in Nat
    BY DEF PcrLink
  <2> QED
    BY <1>4, <1>5, <2>1, <2>2
<1>7. Tx(y, f, l, m)
  BY <1>3, <1>6 DEF Tx
<1> QED
  BY <1>1, <1>3, <1>7 DEF y

\* A message of the retransmission buffer once more.
LEMMA OldWentOut ==
  ASSUME PcrLink, NEW x, SlState(x), NEW f \in Nat, NEW l \in Nat, NEW m \in Nat, Tx(x, f, l, m),
         NEW junk
  PROVE  WentOut(x, SendOld(x, junk), f, l, m)
<1> DEFINE r == SendOld(x, junk)
           y == r.st
           over == PCR /\ x.pos = 0
           i == IF over THEN (IF x.rtb = <<>> THEN 0 ELSE 1) ELSE x.pos
           z == IF over THEN x.Ffsn ELSE x.Z
           p == IF i = 0 THEN NoPdu ELSE IF i = -1 THEN junk.pdu ELSE x.rtb[i]
<1>1. /\ IF p = NoPdu
         THEN r.su = NoSu /\ y.pos = i /\ y.Z = z
         ELSE /\ r.su = sl_daedt_msu(y, p)
              /\ y.pos = IF i = -1 THEN junk.pos ELSE IF i = Len(x.rtb) THEN 0 ELSE i + 1
              /\ y.Z = IF PCR THEN (z + 1) % Mod ELSE z
              /\ y.Nfsn = IF PCR THEN z ELSE (x.Nfsn + 1) % Mod
      /\ y.tb = x.tb /\ y.rtb = x.rtb /\ y.rb = x.rb
      /\ y.Lfsn = x.Lfsn /\ y.Tfsn = x.Tfsn /\ y.Ffsn = x.Ffsn /\ y.rFfsn = x.rFfsn
      /\ y.Xfsn = x.Xfsn /\ y.tXfsn = x.tXfsn
      /\ y.forced_retransmission = x.forced_retransmission
      /\ y.clear_rtb = x.clear_rtb /\ y.ib_mask = x.ib_mask
  BY SendOldFields
<1> HIDE DEF r
<1>2. PCR
  BY DEF PcrLink
<1>3. /\ l - f \in Nat /\ x.rtb = Pdus(f, l - f) /\ x.pos \in 0 .. l - f /\ x.Ffsn = f % Mod
      /\ x.pos > 0 => x.Z = (f + x.pos - 1) % Mod
  BY DEF Tx
<1>4. /\ Len(x.rtb) = l - f /\ (l - f = 0 <=> x.rtb = <<>>)
      /\ \A j \in 1 .. l - f : x.rtb[j] = f + j
  <2> DEFINE k == l - f
  <2>1. k \in Nat
    BY <1>3
  <2> HIDE DEF k
  <2>2. /\ Len(Pdus(f, k)) = k /\ (k = 0 <=> Pdus(f, k) = <<>>)
        /\ \A j \in 1..k : Pdus(f, k)[j] = f + j
    BY <2>1, PdusSeq
  <2> QED
    BY <1>3, <2>2 DEF k
<1>5. i \in 0 .. l - f /\ (i > 0 => z = (f + i - 1) % Mod)
  <2>1. CASE x.pos = 0
    <3>1. i \in {0, 1} /\ (i = 1 => l - f # 0) /\ z = f % Mod /\ f + 1 - 1 = f
      BY <1>2, <1>3, <1>4, <2>1
    <3> QED
      BY <1>3, <3>1
  <2>2. CASE x.pos > 0
    BY <1>2, <1>3, <2>2
  <2> QED
    BY <1>3, <2>1, <2>2
<1> HIDE DEF i, z
<1>6. CASE r.su = NoSu
  BY <1>6 DEF WentOut, r
<1>7. CASE r.su # NoSu
  <2>1. p # NoPdu /\ i # 0
    BY <1>1, <1>7
  <2>2. i \in 1 .. l - f /\ i # -1 /\ p = f + i
    BY <1>4, <1>5, <2>1
  <2>3. /\ r.su = sl_daedt_msu(y, p) /\ y.Nfsn = (f + i - 1) % Mod
        /\ y.Z = (((f + i - 1) % Mod) + 1) % Mod
        /\ y.pos = IF i = l - f THEN 0 ELSE i + 1
    BY <1>1, <1>2, <1>4, <1>5, <2>1, <2>2
  <2>4. /\ r.su.bsn = (y.tXfsn - 1) % Mod /\ r.su.fsn = y.Nfsn /\ r.su.pdu = p
    BY <2>3 DEF sl_daedt_msu
  <2>5. f + i \in f + 1 .. l /\ f + i - 1 \in Int
    BY <2>2
  <2>6. y.Z = (f + i) % Mod
    <3>1. (((f + i - 1) % Mod) + 1) % Mod = (f + i - 1 + 1) % Mod
      BY <2>5, NextNumber
    <3>2. f + i - 1 + 1 = f + i
      BY <2>2
    <3> QED
      BY <2>3, <3>1, <3>2
  <2>7. y.pos \in 0 .. l - f /\ (y.pos > 0 => y.Z = (f + y.pos - 1) % Mod)
    <3>1. CASE i = l - f
      BY <1>3, <2>3, <3>1
    <3>2. CASE i # l - f
      <4>1. y.pos = i + 1 /\ f + y.pos - 1 = f + i
        BY <2>2, <2>3, <3>2
      <4> QED
        BY <1>3, <2>2, <2>6, <3>2, <4>1
    <3> QED
      BY <3>1, <3>2
  <2>8. Tx(y, f, l, m)
    BY <1>1, <2>7 DEF Tx
  <2>9. r.su.pdu \in f + 1 .. l /\ r.su.fsn = (r.su.pdu - 1) % Mod
    BY <2>2, <2>3, <2>4, <2>5
  <2>10. r.su.bsn = (x.tXfsn - 1) % Mod
    BY <1>1, <2>4
  <2> QED
    BY <1>1, <2>8, <2>9, <2>10 DEF WentOut, r
<1> QED
  BY <1>6, <1>7

\* A new message.
LEMMA NewWentOut ==
  ASSUME PcrLink, NEW x, SlState(x), NEW f \in Nat, NEW l \in Nat, NEW m \in Nat, Tx(x, f, l, m),
         x.forced_retransmission # 1, x.tb # <<>>
  PROVE  WentOut(x, SendNew(x), f, l, m)
<1> DEFINE y == SendNew(x).st
           fsn == (x.Lfsn + 1) % Mod
           q == Append(x.rtb, Head(x.tb))
<1>1. /\ SendNew(x).su = sl_daedt_msu(y, Head(x.tb))
      /\ y.tb = Tail(x.tb) /\ y.rtb = q
      /\ y.Lfsn = fsn /\ y.Tfsn = fsn /\ y.Nfsn = fsn
      /\ y.forced_retransmission = IF PCR /\ Len(q) >= N1 THEN 1 ELSE x.forced_retransmission
      /\ y.pos = x.pos /\ y.Z = x.Z /\ y.Ffsn = x.Ffsn /\ y.rFfsn = x.rFfsn
      /\ y.Xfsn = x.Xfsn /\ y.tXfsn = x.tXfsn /\ y.rb = x.rb
      /\ y.clear_rtb = x.clear_rtb /\ y.ib_mask = x.ib_mask
  BY SendNewFields
<1> DEFINE su == SendNew(x).su
<1> HIDE DEF y
<1>2. su.bsn = (x.tXfsn - 1) % Mod /\ su.fsn = fsn /\ su.pdu = Head(x.tb)
  BY <1>1 DEF sl_daedt_msu
<1> HIDE DEF su, fsn, q
<1>3. PCR /\ N1 \in Nat
  BY DEF PcrLink
<1>4. /\ f <= l /\ l <= m /\ l - f <= N1 /\ l - f # N1
      /\ x.rtb = Pdus(f, l - f) /\ x.tb = Pdus(l, m - l) /\ x.Lfsn = (l - 1) % Mod
      /\ x.pos \in 0 .. l - f /\ (x.pos > 0 => x.Z = (f + x.pos - 1) % Mod)
  BY DEF Tx
<1>5. l - f \in Nat /\ m - l \in Nat /\ m - l # 0
  <2>1. l - f \in Nat /\ m - l \in Nat
    BY <1>4
  <2> QED
    BY <1>4, <2>1, PdusSeq
<1>6. l + 1 <= m /\ f <= l + 1 /\ l + 1 - f <= N1 /\ l + 1 \in Nat
  BY <1>3, <1>4, <1>5
<1>7. Head(x.tb) = l + 1 /\ Tail(x.tb) = Pdus(l + 1, m - (l + 1))
  <2>1. m - l - 1 = m - (l + 1) /\ m - l > 0
    BY <1>5
  <2> QED
    BY <1>4, <1>5, <2>1, PdusHeadTail
<1>8. q = Pdus(f, l + 1 - f) /\ Len(q) = l + 1 - f
  <2>1. f + (l - f) + 1 = l + 1 /\ (l - f) + 1 = l + 1 - f /\ l + 1 - f \in Nat
    BY <1>5
  <2>2. Append(Pdus(f, l - f), f + (l - f) + 1) = Pdus(f, (l - f) + 1)
    <3> DEFINE k == l - f
    <3>1. k \in Nat
      BY <1>5
    <3> HIDE DEF k
    <3>2. Append(Pdus(f, k), f + k + 1) = Pdus(f, k + 1)
      BY <3>1, PdusAppend
    <3> QED
      BY <3>2 DEF k
  <2>3. q = Pdus(f, l + 1 - f)
    BY <1>4, <1>7, <2>1, <2>2 DEF q
  <2> HIDE DEF q
  <2> QED
    BY <2>1, <2>3, PdusSeq
<1>9. fsn = (l + 1 - 1) % Mod /\ l + 1 - 1 = l
  <2>1. (((l - 1) % Mod) + 1) % Mod = (l - 1 + 1) % Mod /\ l - 1 + 1 = l + 1 - 1 /\ l + 1 - 1 = l
    BY NextNumber
  <2> QED
    BY <1>4, <2>1 DEF fsn
<1>10. l + 1 - f = N1 => y.forced_retransmission = 1
  BY <1>1, <1>3, <1>5, <1>8
<1>11. y.pos \in 0 .. l + 1 - f /\ (y.pos > 0 => y.Z = (f + y.pos - 1) % Mod)
  BY <1>1, <1>4, <1>5
<1>12. Tx(y, f, l + 1, m)
  BY <1>1, <1>6, <1>7, <1>8, <1>9, <1>10, <1>11 DEF Tx
<1>13. su.pdu \in f + 1 .. l + 1 /\ su.fsn = (su.pdu - 1) % Mod
  BY <1>2, <1>4, <1>7, <1>9
<1> QED
  BY <1>1, <1>2, <1>12, <1>13 DEF WentOut, y, su

\* Any transmission.
LEMMA TransmittedWentOut ==
  ASSUME PcrLink, NEW x, SlState(x), NEW f \in Nat, NEW l \in Nat, NEW m \in Nat, Tx(x, f, l, m),
         NEW junk
  PROVE  WentOut(x, sl_txc_transmission_request(x, junk), f, l, m)
<1> DEFINE y == Forcing(x)
           r == sl_txc_transmission_request(x, junk)
<1>1. PCR
  BY DEF PcrLink
<1>2. /\ SlState(y) /\ Tx(y, f, l, m)
      /\ y.Xfsn = x.Xfsn /\ y.tXfsn = x.tXfsn /\ y.rb = x.rb
  BY ForcingTx
<1>3. \/ r = [st |-> x, su |-> NoSu]
      \/ r \in {SendLssu(x), SendFisu(x), SendOld(y, junk), SendFisu(y)}
      \/ y.forced_retransmission # 1 /\ y.tb # <<>> /\ r = SendNew(y)
  BY <1>1 DEF sl_txc_transmission_request, Retransmitting
<1> HIDE DEF r
<1>4. ASSUME NEW w, WentOut(y, w, f, l, m) PROVE WentOut(x, w, f, l, m)
  BY <1>2, <1>4 DEF WentOut
<1>5. WentOut(y, SendOld(y, junk), f, l, m) /\ WentOut(y, SendFisu(y), f, l, m)
  BY <1>2, OldWentOut, EmptyWentOut
<1>6. y.forced_retransmission # 1 /\ y.tb # <<>> => WentOut(y, SendNew(y), f, l, m)
  BY <1>2, NewWentOut
<1>7. WentOut(x, SendFisu(x), f, l, m) /\ WentOut(x, SendLssu(x), f, l, m)
  BY EmptyWentOut
<1>8. WentOut(x, [st |-> x, su |-> NoSu], f, l, m)
  BY DEF WentOut
<1> HIDE DEF y
<1>9. WentOut(x, r, f, l, m)
  BY <1>3, <1>4, <1>5, <1>6, <1>7, <1>8
<1> QED
  BY <1>9 DEF r

------------------------------------------------------------------------------
(***************************************************************************)
(* What is under way.  On its way to B: every unit acknowledges nothing,   *)
(* for B sends nothing, and an MSU is one of the l sent, so recent that    *)
(* neither B, which has n, nor an MSU ahead of it is N1 or more ahead.     *)
(***************************************************************************)
Forward(q, l, n) ==
  \A j \in 1..Len(q) :
    /\ q[j].bsn = (0 - 1) % Mod
    /\ q[j].type = "MSU" =>
         /\ q[j].pdu \in Nat /\ q[j].pdu <= l /\ n < q[j].pdu + N1
         /\ q[j].fsn = (q[j].pdu - 1) % Mod
         /\ \A i \in 1 .. j - 1 : q[i].type = "MSU" => q[i].pdu < q[j].pdu + N1

\* On its way to A: unit j acknowledges b[j] messages, ever more, none of them
\* fewer than A knows of and none more than B has acknowledged.
Back(q, f, t, b) ==
  /\ Len(b) = Len(q)
  /\ \A j \in 1..Len(q) : /\ q[j].type # "MSU" /\ q[j].bsn = (b[j] - 1) % Mod
                          /\ f <= b[j] /\ b[j] <= t
                          /\ \A i \in 1 .. j - 1 : b[i] <= b[j]

\* The first unit to B is lost, dropped, refused or a repetition...
LEMMA ForwardTail ==
  ASSUME NEW S, NEW q \in Seq(S), q # <<>>, NEW l \in Nat, NEW n \in Nat, Forward(q, l, n)
  PROVE  Forward(Tail(q), l, n)
<1> DEFINE r == Tail(q)
<1>1. Len(r) = Len(q) - 1 /\ Len(q) \in Nat /\ \A j \in 1..Len(r) : r[j] = q[j + 1]
  BY HeadTailProperties
<1> HIDE DEF r
<1>2. ASSUME NEW j \in 1..Len(r)
      PROVE  /\ j + 1 \in 1..Len(q) /\ r[j] = q[j + 1]
             /\ \A i \in 1 .. j - 1 : i + 1 \in 1 .. (j + 1) - 1 /\ r[i] = q[i + 1]
  BY <1>1
<1>3. Forward(r, l, n)
  BY <1>2 DEF Forward
<1> QED
  BY <1>3 DEF r

\* ... or the message that B takes.
LEMMA ForwardTaken ==
  ASSUME NEW S, NEW q \in Seq(S), q # <<>>, NEW l \in Nat, NEW n \in Nat, Forward(q, l, n),
         Head(q).type = "MSU", Head(q).pdu = n + 1
  PROVE  Forward(Tail(q), l, n + 1)
<1> DEFINE r == Tail(q)
<1>1. /\ Len(r) = Len(q) - 1 /\ Len(q) \in Nat /\ \A j \in 1..Len(r) : r[j] = q[j + 1]
      /\ q[1] = Head(q)
  BY HeadTailProperties
<1>2. Forward(r, l, n)
  BY ForwardTail
<1> HIDE DEF r
<1>3. ASSUME NEW j \in 1..Len(r), r[j].type = "MSU" PROVE n + 1 < r[j].pdu + N1
  <2>1. j + 1 \in 1..Len(q) /\ r[j] = q[j + 1] /\ 1 \in 1 .. (j + 1) - 1
    BY <1>1
  <2> QED
    BY <1>1, <1>3, <2>1 DEF Forward
<1>4. Forward(r, l, n + 1)
  BY <1>2, <1>3 DEF Forward
<1> QED
  BY <1>4 DEF r

\* A unit more to B.
LEMMA ForwardMore ==
  ASSUME PcrLink, NEW S, NEW q \in Seq(S), NEW l \in Nat, NEW n \in Nat, n <= l, Forward(q, l, n),
         NEW k \in {l, l + 1}, NEW su \in S, su.bsn = (0 - 1) % Mod,
         su.type = "MSU" => /\ su.pdu \in Nat /\ su.pdu <= k /\ k < su.pdu + N1
                            /\ su.fsn = (su.pdu - 1) % Mod
  PROVE  Forward(Append(q, su), k, n)
<1> DEFINE r == Append(q, su)
<1>1. /\ Len(r) = Len(q) + 1 /\ Len(q) \in Nat /\ r[Len(q) + 1] = su
      /\ \A j \in 1..Len(q) : r[j] = q[j]
  BY AppendProperties
<1> HIDE DEF r
<1>2. N1 \in Nat /\ k \in Nat /\ l <= k
  BY DEF PcrLink
<1>3. ASSUME NEW j \in 1..Len(r)
      PROVE  /\ r[j].bsn = (0 - 1) % Mod
             /\ r[j].type = "MSU" =>
                  /\ r[j].pdu \in Nat /\ r[j].pdu <= k /\ n < r[j].pdu + N1
                  /\ r[j].fsn = (r[j].pdu - 1) % Mod
                  /\ \A i \in 1 .. j - 1 : r[i].type = "MSU" => r[i].pdu < r[j].pdu + N1
  <2>1. CASE j \in 1..Len(q)
    <3>1. r[j] = q[j] /\ \A i \in 1 .. j - 1 : r[i] = q[i]
      BY <1>1, <2>1
    <3>2. /\ q[j].bsn = (0 - 1) % Mod
          /\ q[j].type = "MSU" =>
               /\ q[j].pdu \in Nat /\ q[j].pdu <= l /\ n < q[j].pdu + N1
               /\ q[j].fsn = (q[j].pdu - 1) % Mod
               /\ \A i \in 1 .. j - 1 : q[i].type = "MSU" => q[i].pdu < q[j].pdu + N1
      BY <2>1 DEF Forward
    <3>3. q[j].type = "MSU" => q[j].pdu <= k
      BY <1>2, <3>2
    <3> QED
      BY <3>1, <3>2, <3>3
  <2>2. CASE j = Len(q) + 1
    <3>1. r[j] = su /\ \A i \in 1 .. j - 1 : i \in 1..Len(q) /\ r[i] = q[i]
      BY <1>1, <2>2
    <3>2. su.type = "MSU" => n < su.pdu + N1
      BY <1>2
    <3>3. ASSUME NEW i \in 1 .. j - 1, r[i].type = "MSU", su.type = "MSU"
          PROVE  r[i].pdu < su.pdu + N1
      <4>1. r[i].pdu \in Nat /\ r[i].pdu <= l
        BY <3>1, <3>3 DEF Forward
      <4> QED
        BY <1>2, <3>3, <4>1
    <3> QED
      BY <3>1, <3>2, <3>3
  <2> QED
    BY <1>1, <2>1, <2>2
<1>4. Forward(r, k, n)
  BY <1>3 DEF Forward
<1> QED
  BY <1>4 DEF r

\* The first unit to A is gone, and A may have seen what it acknowledges.
LEMMA BackTail ==
  ASSUME NEW S, NEW q \in Seq(S), q # <<>>, NEW f \in Nat, NEW t \in Nat, NEW b \in Seq(Nat),
         f <= t, Back(q, f, t, b), NEW g \in {f, b[1]}
  PROVE  Tail(b) \in Seq(Nat) /\ Back(Tail(q), g, t, Tail(b)) /\ g \in Nat /\ g <= t
<1> DEFINE r == Tail(q)
           c == Tail(b)
<1>1. Len(b) = Len(q) /\ Len(q) \in Nat /\ Len(q) > 0 /\ b # <<>>
  BY EmptySeq DEF Back
<1>2. Len(r) = Len(q) - 1 /\ \A j \in 1..Len(r) : r[j] = q[j + 1]
  BY HeadTailProperties
<1>3. c \in Seq(Nat) /\ Len(c) = Len(b) - 1 /\ \A j \in 1..Len(c) : c[j] = b[j + 1]
  BY <1>1, HeadTailProperties
<1> HIDE DEF r, c
<1>4. b[1] \in Nat /\ f <= b[1] /\ b[1] <= t
  BY <1>1 DEF Back
<1>5. ASSUME NEW j \in 1..Len(r)
      PROVE  /\ j + 1 \in 1..Len(q) /\ r[j] = q[j + 1] /\ c[j] = b[j + 1] /\ 1 \in 1 .. (j + 1) - 1
             /\ \A i \in 1 .. j - 1 : i + 1 \in 1 .. (j + 1) - 1 /\ c[i] = b[i + 1]
  BY <1>1, <1>2, <1>3
<1>6. ASSUME NEW j \in 1..Len(r)
      PROVE  /\ r[j].type # "MSU" /\ r[j].bsn = (c[j] - 1) % Mod /\ g <= c[j] /\ c[j] <= t
             /\ \A i \in 1 .. j - 1 : c[i] <= c[j]
  BY <1>5 DEF Back
<1>7. Back(r, g, t, c)
  BY <1>1, <1>2, <1>3, <1>6 DEF Back
<1> QED
  BY <1>3, <1>4, <1>7 DEF r, c

\* B acknowledges more.
LEMMA BackLater ==
  ASSUME NEW q, NEW f, NEW t \in Nat, NEW b \in Seq(Nat), Back(q, f, t, b), NEW u \in Nat, t <= u
  PROVE  Back(q, f, u, b)
<1>1. \A j \in 1..Len(q) : b[j] \in Nat /\ b[j] <= t
  BY DEF Back
<1>2. \A j \in 1..Len(q) : b[j] <= u
  BY <1>1
<1> QED
  BY <1>2 DEF Back

\* A unit more to A.
LEMMA BackMore ==
  ASSUME NEW S, NEW q \in Seq(S), NEW f \in Nat, NEW t \in Nat, f <= t, NEW b \in Seq(Nat),
         Back(q, f, t, b), NEW su \in S, su.type # "MSU", su.bsn = (t - 1) % Mod
  PROVE  Append(b, t) \in Seq(Nat) /\ Back(Append(q, su), f, t, Append(b, t))
<1> DEFINE r == Append(q, su)
           c == Append(b, t)
<1>0. Len(b) = Len(q) /\ Len(q) \in Nat
  BY DEF Back
<1>1. Len(r) = Len(q) + 1 /\ r[Len(q) + 1] = su /\ \A j \in 1..Len(q) : r[j] = q[j]
  BY AppendProperties
<1>2. /\ c \in Seq(Nat) /\ Len(c) = Len(q) + 1 /\ c[Len(q) + 1] = t
      /\ \A j \in 1..Len(q) : c[j] = b[j]
  BY <1>0, AppendProperties
<1> HIDE DEF r, c
<1>3. ASSUME NEW j \in 1..Len(r)
      PROVE  /\ r[j].type # "MSU" /\ r[j].bsn = (c[j] - 1) % Mod /\ f <= c[j] /\ c[j] <= t
             /\ \A i \in 1 .. j - 1 : c[i] <= c[j]
  <2>1. CASE j \in 1..Len(q)
    <3>1. r[j] = q[j] /\ c[j] = b[j] /\ \A i \in 1 .. j - 1 : c[i] = b[i]
      BY <1>0, <1>1, <1>2, <2>1
    <3> QED
      BY <2>1, <3>1 DEF Back
  <2>2. CASE j = Len(q) + 1
    <3>1. r[j] = su /\ c[j] = t /\ j - 1 = Len(q)
      BY <1>0, <1>1, <1>2, <2>2
    <3>2. \A i \in 1..Len(q) : b[i] <= t
      BY DEF Back
    <3>3. \A i \in 1 .. j - 1 : c[i] <= c[j]
      BY <1>2, <3>1, <3>2
    <3> QED
      BY <3>1, <3>3
  <2> QED
    BY <1>0, <1>1, <2>1, <2>2
<1>4. Back(r, f, t, c)
  BY <1>0, <1>1, <1>2, <1>3 DEF Back
<1> QED
  BY <1>2, <1>4 DEF r, c

------------------------------------------------------------------------------
(***************************************************************************)
(* The two terminals, what is under way and what level 3 has agree: of the *)
(* m messages that level 3 of A sent, l went out, n arrived, B has         *)
(* acknowledged t and A knows of f.                                        *)
(***************************************************************************)
Linked(x, y, qb, qa, m, rcv, f, l, n, t, b) ==
  /\ f <= t /\ n <= l
  /\ Tx(x, f, l, m) /\ Rx(x, 0, 0) /\ x.rb = <<>>
  /\ Tx(y, 0, 0, 0) /\ Rx(y, t, n) /\ rcv = Pdus(0, n)
  /\ Forward(qb, l, n) /\ Back(qa, f, t, b)

PInv ==
  \E f \in Nat, l \in Nat, n \in Nat, t \in Nat, b \in Seq(Nat) :
    Linked(st["A"], st["B"], ch["B"], ch["A"], sent, Received, f, l, n, t, b)

\* Level 3 gives a message more.
LEMMA SendTx ==
  ASSUME NEW x, SlState(x), NEW f \in Nat, NEW l \in Nat, NEW m \in Nat, Tx(x, f, l, m),
         ~PduRefused(x)
  PROVE  LET y == sl_lsc_pdu(x, m + 1)
         IN  Tx(y, f, l, m + 1) /\ y.rb = x.rb /\ y.Xfsn = x.Xfsn /\ y.tXfsn = x.tXfsn
<1> DEFINE q == Append(x.tb, m + 1)
           c == (x.Cm + 1) % CtrMod
<1>1. q = Pdus(l, m + 1 - l) /\ l <= m + 1
  <2>1. m - l \in Nat /\ x.tb = Pdus(l, m - l) /\ l <= m
    BY DEF Tx
  <2>2. l + (m - l) + 1 = m + 1 /\ (m - l) + 1 = m + 1 - l /\ l <= m + 1
    BY <2>1
  <2>3. Append(Pdus(l, m - l), l + (m - l) + 1) = Pdus(l, (m - l) + 1)
    BY <2>1, PdusAppend
  <2> QED
    BY <2>1, <2>2, <2>3
<1> HIDE DEF q, c
<1> DEFINE a == [x EXCEPT !.tb = q, !.Cm = c]
           y == sl_check_congestion(a)
<1>2. sl_lsc_pdu(x, m + 1) = y
  <2>1. DOMAIN x = Fields
    BY DEF SlState
  <2> QED
    BY <2>1, SMT DEF sl_lsc_pdu, sl_txc_message_for_transmission, q, c, Fields
<1>3. /\ y.tb = q /\ y.rtb = x.rtb /\ y.rb = x.rb /\ y.pos = x.pos /\ y.Z = x.Z
      /\ y.Ffsn = x.Ffsn /\ y.Lfsn = x.Lfsn /\ y.Tfsn = x.Tfsn /\ y.rFfsn = x.rFfsn
      /\ y.Xfsn = x.Xfsn /\ y.tXfsn = x.tXfsn
      /\ y.forced_retransmission = x.forced_retransmission
      /\ y.clear_rtb = x.clear_rtb /\ y.ib_mask = x.ib_mask
  <2>1. DOMAIN x = Fields
    BY DEF SlState
  <2> QED
    BY <2>1, SMT DEF sl_check_congestion, Fields
<1> HIDE DEF y
<1>4. Tx(y, f, l, m + 1)
  BY <1>1, <1>3 DEF Tx
<1> QED
  BY <1>2, <1>3, <1>4

\* A step of one terminal, as its peer sees it.
LEMMA OneMoves ==
  ASSUME TInv, NEW n \in Node, NEW y, st' = [st EXCEPT ![n] = y]
  PROVE  st'[n] = y /\ \A m \in Node \ {n} : st'[m] = st[m]
BY DEF TInv

LEMMA OneChannel ==
  ASSUME TInv, NEW n \in Node, NEW c, ch' = [ch EXCEPT ![n] = c]
  PROVE  ch'[n] = c /\ \A m \in Node \ {n} : ch'[m] = ch[m]
BY DEF TInv

LEMMA SendLinked ==
  ASSUME TInv, PInv, Send
  PROVE  PInv'
<1>1. PICK f \in Nat, l \in Nat, n \in Nat, t \in Nat, b \in Seq(Nat) :
        Linked(st["A"], st["B"], ch["B"], ch["A"], sent, Received, f, l, n, t, b)
  BY DEF PInv
<1> DEFINE x == st["A"]
           y == sl_lsc_pdu(x, sent + 1)
<1>2. SlState(x) /\ ~PduRefused(x) /\ sent \in Nat
  BY DEF TInv, Node, Buffered, Send
<1>3. st' = [st EXCEPT !["A"] = y] /\ sent' = sent + 1 /\ UNCHANGED <<ch, up, lost>>
  BY DEF Send
<1>4. st'["A"] = y /\ st'["B"] = st["B"]
  BY <1>3, OneMoves DEF Node
<1>5. Tx(x, f, l, sent)
  BY <1>1 DEF Linked
<1>6. Tx(y, f, l, sent + 1) /\ y.rb = x.rb /\ y.Xfsn = x.Xfsn /\ y.tXfsn = x.tXfsn
  BY <1>2, <1>5, SendTx
<1>7. Received' = Received
  BY <1>3, <1>4 DEF Received
<1> HIDE DEF y
<1>8. Linked(y, st["B"], ch["B"], ch["A"], sent + 1, Received, f, l, n, t, b)
  BY <1>1, <1>6 DEF Linked, Rx
<1>9. Linked(st["A"], st["B"], ch["B"], ch["A"], sent, Received, f, l, n, t, b)'
  BY <1>3, <1>4, <1>7, <1>8
<1> QED
  BY <1>9 DEF PInv

\* A timer of one terminal expires.
LEMMA ExpireLinked ==
  ASSUME TInv, PInv, NEW c \in Node, NEW s \in Timer, Expire(c, s)
  PROVE  PInv'
<1>1. PICK f \in Nat, l \in Nat, n \in Nat, t \in Nat, b \in Seq(Nat) :
        Linked(st["A"], st["B"], ch["B"], ch["A"], sent, Received, f, l, n, t, b)
  BY DEF PInv
<1> DEFINE x == st[c]
           y == sl_r_pcrse(sl_timer_stop(x, s), s)
<1>2. Whole(x, Timer) /\ st' = [st EXCEPT ![c] = y] /\ UNCHANGED <<ch, sent, up, lost>>
  BY DEF TInv, Expire
<1>3. st'[c] = y /\ \A m \in Node \ {c} : st'[m] = st[m]
  BY <1>2, OneMoves
<1>4. Same(x, y)
  BY <1>2, ExpirySound
<1> HIDE DEF y
<1>5. Received' = Received
  BY <1>2, <1>3, <1>4 DEF Received, Same, Node
<1>6. CASE c = "A"
  <2>1. st'["A"] = y /\ st'["B"] = st["B"] /\ x = st["A"]
    BY <1>3, <1>6 DEF Node
  <2>2. /\ Tx(y, f, l, sent) /\ y.rb = <<>> /\ Rx(y, 0, 0)
    <3>1. Tx(x, f, l, sent) /\ Rx(x, 0, 0) /\ x.rb = <<>>
      BY <1>1, <2>1 DEF Linked
    <3>2. Tx(y, f, l, sent) /\ \E u \in {0, 0} : Rx(y, u, 0)
      BY <1>4, <3>1, SameTxRx
    <3> QED
      BY <1>4, <3>1, <3>2 DEF Same
  <2>3. Linked(y, st["B"], ch["B"], ch["A"], sent, Received, f, l, n, t, b)
    BY <1>1, <2>2 DEF Linked
  <2>4. Linked(st["A"], st["B"], ch["B"], ch["A"], sent, Received, f, l, n, t, b)'
    BY <1>2, <1>5, <2>1, <2>3
  <2> QED
    BY <2>4 DEF PInv
<1>7. CASE c = "B"
  <2>1. st'["B"] = y /\ st'["A"] = st["A"] /\ x = st["B"]
    BY <1>3, <1>7 DEF Node
  <2>2. Tx(x, 0, 0, 0) /\ Rx(x, t, n) /\ t <= n
    BY <1>1, <2>1 DEF Linked, Rx
  <2>3. Tx(y, 0, 0, 0) /\ \E u \in {t, n} : Rx(y, u, n)
    BY <1>4, <2>2, SameTxRx
  <2>4. PICK u \in {t, n} : Rx(y, u, n)
    BY <2>3
  <2>5. u \in Nat /\ t <= u /\ f <= u
    BY <1>1, <2>2 DEF Linked
  <2>6. Back(ch["A"], f, u, b)
    BY <1>1, <2>5, BackLater DEF Linked
  <2>7. Linked(st["A"], y, ch["B"], ch["A"], sent, Received, f, l, n, u, b)
    BY <1>1, <2>3, <2>4, <2>5, <2>6 DEF Linked
  <2>8. Linked(st["A"], st["B"], ch["B"], ch["A"], sent, Received, f, l, n, u, b)'
    BY <1>2, <1>5, <2>1, <2>7
  <2> QED
    BY <2>5, <2>8 DEF PInv
<1> QED
  BY <1>6, <1>7 DEF Node

\* The network loses a unit.
LEMMA LoseLinked ==
  ASSUME TInv, PInv, NEW c \in Node, Lose(c)
  PROVE  PInv'
<1>1. PICK f \in Nat, l \in Nat, n \in Nat, t \in Nat, b \in Seq(Nat) :
        Linked(st["A"], st["B"], ch["B"], ch["A"], sent, Received, f, l, n, t, b)
  BY DEF PInv
<1> DEFINE q == ch[c]
<1>2. /\ q \in Seq(Su) /\ q # <<>> /\ ch' = [ch EXCEPT ![c] = Tail(q)]
      /\ UNCHANGED <<st, sent, up>>
  BY DEF TInv, Lose
<1>3. ch'[c] = Tail(q) /\ \A m \in Node \ {c} : ch'[m] = ch[m]
  BY <1>2, OneChannel
<1>4. Received' = Received
  BY <1>2 DEF Received
<1>5. CASE c = "A"
  <2>1. ch'["A"] = Tail(q) /\ ch'["B"] = ch["B"] /\ q = ch["A"]
    BY <1>3, <1>5 DEF Node
  <2>2. f <= t /\ Back(q, f, t, b)
    BY <1>1, <2>1 DEF Linked
  <2> HIDE DEF q
  <2>3. Tail(b) \in Seq(Nat) /\ Back(Tail(q), f, t, Tail(b))
    BY <1>2, <2>2, BackTail
  <2>4. Linked(st["A"], st["B"], ch["B"], Tail(q), sent, Received, f, l, n, t, Tail(b))
    BY <1>1, <2>3 DEF Linked
  <2>5. Linked(st["A"], st["B"], ch["B"], ch["A"], sent, Received, f, l, n, t, Tail(b))'
    BY <1>2, <1>4, <2>1, <2>4
  <2> QED
    BY <2>3, <2>5 DEF PInv
<1>6. CASE c = "B"
  <2>1. ch'["B"] = Tail(q) /\ ch'["A"] = ch["A"] /\ q = ch["B"]
    BY <1>3, <1>6 DEF Node
  <2>2. Forward(q, l, n)
    BY <1>1, <2>1 DEF Linked
  <2> HIDE DEF q
  <2>3. Forward(Tail(q), l, n)
    BY <1>2, <2>2, ForwardTail
  <2>4. Linked(st["A"], st["B"], Tail(q), ch["A"], sent, Received, f, l, n, t, b)
    BY <1>1, <2>3 DEF Linked
  <2>5. Linked(st["A"], st["B"], ch["B"], ch["A"], sent, Received, f, l, n, t, b)'
    BY <1>2, <1>4, <2>1, <2>4
  <2> QED
    BY <2>5 DEF PInv
<1> QED
  BY <1>5, <1>6 DEF Node

\* One terminal sends a unit.
LEMMA TransmitLinked ==
  ASSUME PcrLink, TInv, PInv, NEW c \in Node, Transmit(c)
  PROVE  PInv'
<1>1. PICK f \in Nat, l \in Nat, n \in Nat, t \in Nat, b \in Seq(Nat) :
        Linked(st["A"], st["B"], ch["B"], ch["A"], sent, Received, f, l, n, t, b)
  BY DEF PInv
<1>2. PICK junk \in (IF st[c].pos = -1 THEN Junk ELSE {NoJunk}) :
        LET r == sl_txc_transmission_request(st[c], junk)
        IN  /\ r.su # NoSu
            /\ st' = [st EXCEPT ![c] = r.st]
            /\ ch' = [ch EXCEPT ![Peer(c)] = Append(@, r.su)]
            /\ UNCHANGED <<sent, up, lost>>
  BY DEF Transmit
<1>0. junk \in Junk
  BY DEF Junk, NoJunk
<1> DEFINE x == st[c]
           r == sl_txc_transmission_request(x, junk)
           y == r.st
           su == r.su
           p == Peer(c)
           q == ch[p]
<1>3. p \in Node \ {c} /\ q \in Seq(Su) /\ Buffered(x) /\ SlState(x) /\ DOMAIN ch = Node
  BY PeerIs DEF TInv, Buffered
<1>4. /\ su # NoSu /\ st' = [st EXCEPT ![c] = y] /\ ch' = [ch EXCEPT ![p] = Append(q, su)]
      /\ UNCHANGED <<sent, up, lost>>
  BY <1>2, <1>3
<1>5. su \in Su
  BY <1>0, <1>3, <1>4, TransmittedBuffered
<1>6. ASSUME NEW g \in Nat, NEW h \in Nat, NEW m \in Nat, Tx(x, g, h, m)
      PROVE  /\ su.bsn = (x.tXfsn - 1) % Mod
             /\ y.Xfsn = x.Xfsn /\ y.tXfsn = x.tXfsn /\ y.rb = x.rb
             /\ \E k \in {h, h + 1} :
                  /\ Tx(y, g, k, m)
                  /\ su.type = "MSU" => su.pdu \in g + 1 .. k /\ su.fsn = (su.pdu - 1) % Mod
  <2> HIDE DEF x
  <2>1. WentOut(x, r, g, h, m)
    BY <1>3, <1>6, TransmittedWentOut
  <2> HIDE DEF r
  <2> QED
    BY <1>4, <2>1 DEF WentOut
<1>7. /\ st'[c] = y /\ \A m \in Node \ {c} : st'[m] = st[m]
      /\ ch'[p] = Append(q, su) /\ \A m \in Node \ {p} : ch'[m] = ch[m]
  <2> HIDE DEF y, su, p, q
  <2>1. st'[c] = y /\ \A m \in Node \ {c} : st'[m] = st[m]
    BY <1>4, OneMoves
  <2> DEFINE w == Append(q, su)
  <2>2. ch' = [ch EXCEPT ![p] = w] /\ p \in Node
    BY <1>3, <1>4
  <2> HIDE DEF w
  <2>3. ch'[p] = w /\ \A m \in Node \ {p} : ch'[m] = ch[m]
    BY <2>2, OneChannel
  <2> QED
    BY <2>1, <2>3 DEF w
<1> HIDE DEF r
<1>8. CASE c = "A"
  <2>1. /\ x = st["A"] /\ q = ch["B"] /\ st'["A"] = y /\ st'["B"] = st["B"]
        /\ ch'["B"] = Append(q, su) /\ ch'["A"] = ch["A"]
    BY <1>7, <1>8, PeerIs DEF Node
  <2>2. /\ Tx(x, f, l, sent) /\ Rx(x, 0, 0) /\ x.rb = <<>> /\ n <= l /\ Forward(q, l, n)
        /\ sent \in Nat
    BY <1>1, <2>1 DEF Linked, TInv
  <2>3. PICK k \in {l, l + 1} :
          /\ Tx(y, f, k, sent)
          /\ su.type = "MSU" => su.pdu \in f + 1 .. k /\ su.fsn = (su.pdu - 1) % Mod
    BY <1>6, <2>2
  <2>4. k \in Nat /\ n <= k /\ k - f <= N1
    BY <2>2, <2>3 DEF Tx
  <2>5. x.tXfsn = 0
    BY <2>2, NumberAssumption DEF Rx
  <2>6. su.bsn = (0 - 1) % Mod /\ Rx(y, 0, 0) /\ y.rb = <<>>
    BY <1>6, <2>2, <2>5 DEF Rx
  <2>7. su.type = "MSU" => /\ su.pdu \in Nat /\ su.pdu <= k /\ k < su.pdu + N1
                           /\ su.fsn = (su.pdu - 1) % Mod
    <3>1. N1 \in Nat
      BY DEF PcrLink
    <3>2. ASSUME NEW d \in f + 1 .. k PROVE d \in Nat /\ d <= k /\ k < d + N1
      BY <2>4, <3>1
    <3> QED
      BY <2>3, <3>2
  <2> HIDE DEF x, q, su, y
  <2>8. Forward(Append(q, su), k, n)
    BY <1>3, <1>5, <2>2, <2>6, <2>7, ForwardMore
  <2>9. Linked(y, st["B"], Append(q, su), ch["A"], sent, Received, f, k, n, t, b)
    BY <1>1, <2>3, <2>4, <2>6, <2>8 DEF Linked
  <2>10. Received' = Received
    BY <1>4, <2>1 DEF Received
  <2>11. Linked(st["A"], st["B"], ch["B"], ch["A"], sent, Received, f, k, n, t, b)'
    BY <1>4, <2>1, <2>9, <2>10
  <2> QED
    BY <2>4, <2>11 DEF PInv
<1>9. CASE c = "B"
  <2>1. /\ x = st["B"] /\ q = ch["A"] /\ st'["B"] = y /\ st'["A"] = st["A"]
        /\ ch'["A"] = Append(q, su) /\ ch'["B"] = ch["B"]
    BY <1>7, <1>9, PeerIs DEF Node
  <2>2. Tx(x, 0, 0, 0) /\ Rx(x, t, n) /\ f <= t /\ Back(q, f, t, b)
    BY <1>1, <2>1 DEF Linked
  <2>3. PICK k \in {0, 0 + 1} : Tx(y, 0, k, 0) /\ (su.type = "MSU" => su.pdu \in 0 + 1 .. k)
    BY <1>6, <2>2
  <2>4. k = 0
    BY <2>3 DEF Tx
  <2>5. Tx(y, 0, 0, 0) /\ su.type # "MSU"
    BY <2>3, <2>4
  <2>6. su.bsn = (t - 1) % Mod /\ Rx(y, t, n) /\ y.rb = x.rb
    <3>1. ((t % Mod) - 1) % Mod = (t - 1) % Mod
      BY NextNumber
    <3> QED
      BY <1>6, <2>2, <3>1 DEF Rx
  <2> HIDE DEF x, q, su, y
  <2>7. Append(b, t) \in Seq(Nat) /\ Back(Append(q, su), f, t, Append(b, t))
    BY <1>3, <1>5, <2>2, <2>5, <2>6, BackMore
  <2>8. Received' = Received
    BY <1>4, <2>1, <2>6 DEF Received
  <2>9. Linked(st["A"], y, ch["B"], Append(q, su), sent, Received, f, l, n, t, Append(b, t))
    BY <1>1, <2>5, <2>6, <2>7 DEF Linked
  <2>10. Linked(st["A"], st["B"], ch["B"], ch["A"], sent, Received, f, l, n, t, Append(b, t))'
    BY <1>4, <2>1, <2>8, <2>9
  <2> QED
    BY <2>7, <2>10 DEF PInv
<1> QED
  BY <1>8, <1>9 DEF Node

\* One terminal receives a unit.
LEMMA ReceiveLinked ==
  ASSUME PcrLink, TInv, PInv, NEW c \in Node, Receive(c)
  PROVE  PInv'
<1>1. PICK f \in Nat, l \in Nat, n \in Nat, t \in Nat, b \in Seq(Nat) :
        Linked(st["A"], st["B"], ch["B"], ch["A"], sent, Received, f, l, n, t, b)
  BY DEF PInv
<1> DEFINE x == st[c]
           q == ch[c]
           su == Head(q)
<1>2. SlState(x) /\ q \in Seq(Su) /\ q # <<>> /\ su \in Su /\ DOMAIN st = Node /\ DOMAIN ch = Node
  BY Rest DEF TInv, Receive, Buffered
<1>3. PICK flow \in FlowStates :
        st' = [st EXCEPT ![c] = IF @.rc # "IN_SERVICE" THEN @
                 ELSE sl_daedr_received_bits(@, su, flow[1], flow[2])]
  BY DEF Receive
<1> DEFINE z == sl_daedr_received_bits(x, su, flow[1], flow[2])
           y == IF x.rc # "IN_SERVICE" THEN x ELSE z
<1>4. /\ st' = [st EXCEPT ![c] = y] /\ ch' = [ch EXCEPT ![c] = Tail(q)]
      /\ UNCHANGED <<sent, up, lost>>
  BY <1>2, <1>3 DEF Receive
<1>5. flow[1] \in BOOLEAN /\ flow[2] \in BOOLEAN
  BY PairAssumption
<1>6. ASSUME NEW g \in Nat, NEW h \in Nat, NEW m \in Nat, Tx(x, g, h, m),
             NEW v \in Nat, NEW k \in Nat, Rx(x, v, k), Numbered(su, k),
             NEW d \in g..h, su.bsn = (d - 1) % Mod
      PROVE  Took(x, y, su, g, d, h, m, v, k)
  <2> HIDE DEF x, su
  <2>1. Took(x, z, su, g, d, h, m, v, k)
    BY <1>2, <1>5, <1>6, ReceivedTook
  <2>2. v \in v..k
    BY <1>6 DEF Rx
  <2>3. Took(x, x, su, g, d, h, m, v, k)
    BY <1>2, <1>6, <2>2 DEF Took
  <2> HIDE DEF z
  <2> QED
    BY <2>1, <2>3
<1> HIDE DEF y
<1>7. /\ st'[c] = y /\ \A m \in Node \ {c} : st'[m] = st[m]
      /\ ch'[c] = Tail(q) /\ \A m \in Node \ {c} : ch'[m] = ch[m]
  <2> DEFINE w == Tail(q)
  <2>1. ch' = [ch EXCEPT ![c] = w]
    BY <1>4
  <2> HIDE DEF w
  <2>2. ch'[c] = w /\ \A m \in Node \ {c} : ch'[m] = ch[m]
    BY <2>1, OneChannel
  <2>3. st'[c] = y /\ \A m \in Node \ {c} : st'[m] = st[m]
    BY <1>4, OneMoves
  <2> QED
    BY <2>2, <2>3 DEF w
<1>8. su = q[1] /\ 1 \in 1..Len(q)
  BY <1>2
<1>9. t <= n /\ l - f <= N1 /\ f <= t /\ n <= l /\ N1 \in 1 .. Mod - 1 /\ sent \in Nat /\ Mod \in Nat
  BY <1>1, NumberAssumption DEF Linked, Rx, Tx, PcrLink, TInv
<1>10. CASE c = "A"
  <2>1. /\ x = st["A"] /\ q = ch["A"] /\ st'["A"] = y /\ st'["B"] = st["B"]
        /\ ch'["A"] = Tail(q) /\ ch'["B"] = ch["B"]
    BY <1>7, <1>10 DEF Node
  <2>2. Tx(x, f, l, sent) /\ Rx(x, 0, 0) /\ x.rb = <<>> /\ Back(q, f, t, b)
    BY <1>1, <2>1 DEF Linked
  <2>3. b[1] \in f..l /\ b[1] <= t /\ su.bsn = (b[1] - 1) % Mod /\ su.type # "MSU"
    <3> HIDE DEF su, q
    <3>1. Len(b) = Len(q) /\ b[1] \in Nat
      BY <1>8, <2>2 DEF Back
    <3>2. q[1].type # "MSU" /\ q[1].bsn = (b[1] - 1) % Mod /\ f <= b[1] /\ b[1] <= t
      BY <1>8, <2>2 DEF Back
    <3> QED
      BY <1>8, <1>9, <3>1, <3>2
  <2>4. Took(x, y, su, f, b[1], l, sent, 0, 0)
    BY <1>6, <1>9, <2>2, <2>3 DEF Numbered
  <2> HIDE DEF x, q, su
  <2>5. PICK g \in {f, b[1]} : Tx(y, g, l, sent)
    BY <2>4 DEF Took
  <2>6. y.rb = <<>> /\ Rx(y, 0, 0)
    <3>1. y.rb = x.rb /\ \E u \in 0..0 : Rx(y, u, 0)
      BY <2>3, <2>4 DEF Took
    <3> QED
      BY <2>2, <3>1
  <2>7. Tail(b) \in Seq(Nat) /\ Back(Tail(q), g, t, Tail(b)) /\ g \in Nat /\ g <= t
    BY <1>2, <1>9, <2>2, BackTail
  <2>8. Linked(y, st["B"], ch["B"], Tail(q), sent, Received, g, l, n, t, Tail(b))
    BY <1>1, <2>5, <2>6, <2>7 DEF Linked
  <2>9. Received' = Received
    BY <1>4, <2>1 DEF Received
  <2>10. Linked(st["A"], st["B"], ch["B"], ch["A"], sent, Received, g, l, n, t, Tail(b))'
    BY <1>4, <2>1, <2>8, <2>9
  <2> QED
    BY <2>7, <2>10 DEF PInv
<1>11. CASE c = "B"
  <2>1. /\ x = st["B"] /\ q = ch["B"] /\ st'["B"] = y /\ st'["A"] = st["A"]
        /\ ch'["B"] = Tail(q) /\ ch'["A"] = ch["A"]
    BY <1>7, <1>11 DEF Node
  <2>2. Tx(x, 0, 0, 0) /\ Rx(x, t, n) /\ Forward(q, l, n) /\ Received = Pdus(0, n)
    BY <1>1, <2>1 DEF Linked
  <2>3. /\ su.bsn = (0 - 1) % Mod
        /\ su.type = "MSU" => /\ su.pdu \in Nat /\ su.pdu <= l /\ n < su.pdu + N1
                              /\ su.fsn = (su.pdu - 1) % Mod
    BY <1>8, <2>2 DEF Forward
  <2>4. Numbered(su, n)
    <3>1. ASSUME NEW d \in Nat, d <= l, n < d + N1 PROVE n + 1 - d < Mod /\ d - 1 - n < Mod
      BY <1>9, <3>1
    <3> QED
      BY <2>3, <3>1 DEF Numbered
  <2>5. Took(x, y, su, 0, 0, 0, 0, t, n)
    BY <1>6, <2>2, <2>3, <2>4
  <2>6. x.rb \in Seq(Pdu) /\ up \in Seq(Pdu) /\ Received = up \o x.rb
    BY <1>2, <2>1 DEF SlState, TInv, Received
  <2> HIDE DEF x, q, su
  <2>7. Tx(y, 0, 0, 0)
    BY <2>5 DEF Took
  <2>8. CASE y.rb = x.rb /\ \E u \in t..n : Rx(y, u, n)
    <3>1. PICK u \in t..n : Rx(y, u, n)
      BY <2>8
    <3>2. u \in Nat /\ t <= u /\ f <= u
      BY <1>9
    <3>3. Back(ch["A"], f, u, b) /\ Forward(Tail(q), l, n)
      BY <1>1, <1>2, <2>2, <3>2, BackLater, ForwardTail DEF Linked
    <3>4. Received' = Received
      BY <1>4, <2>1, <2>8 DEF Received
    <3>5. Linked(st["A"], y, Tail(q), ch["A"], sent, Received, f, l, n, u, b)
      BY <1>1, <2>7, <3>1, <3>2, <3>3 DEF Linked
    <3>6. Linked(st["A"], st["B"], ch["B"], ch["A"], sent, Received, f, l, n, u, b)'
      BY <1>4, <2>1, <3>4, <3>5
    <3> QED
      BY <3>2, <3>6 DEF PInv
  <2>9. CASE /\ su.type = "MSU" /\ su.pdu = n + 1 /\ y.rb = Append(x.rb, su.pdu)
             /\ \E u \in t .. n + 1 : Rx(y, u, n + 1)
    <3>1. PICK u \in t .. n + 1 : Rx(y, u, n + 1)
      BY <2>9
    <3>2. u \in Nat /\ t <= u /\ f <= u /\ n + 1 \in Nat
      BY <1>9
    <3>3. n + 1 <= l
      BY <2>3, <2>9
    <3>4. Back(ch["A"], f, u, b) /\ Forward(Tail(q), l, n + 1)
      <4>1. Back(ch["A"], f, u, b)
        BY <1>1, <3>2, BackLater DEF Linked
      <4>2. Head(q).type = "MSU" /\ Head(q).pdu = n + 1
        BY <2>9 DEF su
      <4>3. Forward(Tail(q), l, n + 1)
        BY <1>2, <2>2, <4>2, ForwardTaken
      <4> QED
        BY <4>1, <4>3
    <3>5. Received' = Pdus(0, n + 1)
      <4>1. su.pdu \in Pdu
        BY <1>2, <2>9, SuFields
      <4>2. Received' = up \o Append(x.rb, n + 1)
        BY <1>4, <2>1, <2>9 DEF Received
      <4>3. up \o Append(x.rb, n + 1) = Append(up \o x.rb, n + 1)
        <5>1. up \in Seq(Pdu) /\ x.rb \in Seq(Pdu) /\ n + 1 \in Pdu
          BY <2>6, <2>9, <4>1
        <5> HIDE DEF x
        <5> QED
          BY <5>1
      <4>4. Append(Pdus(0, n), n + 1) = Pdus(0, n + 1)
        <5>1. 0 \in Nat /\ 0 + n + 1 = n + 1
          OBVIOUS
        <5>2. Append(Pdus(0, n), 0 + n + 1) = Pdus(0, n + 1)
          BY <5>1, PdusAppend
        <5> QED
          BY <5>1, <5>2
      <4> QED
        BY <2>2, <2>6, <4>2, <4>3, <4>4
    <3>6. Linked(st["A"], y, Tail(q), ch["A"], sent, Pdus(0, n + 1), f, l, n + 1, u, b)
      BY <1>1, <2>7, <3>1, <3>2, <3>3, <3>4 DEF Linked
    <3>7. Linked(st["A"], st["B"], ch["B"], ch["A"], sent, Received, f, l, n + 1, u, b)'
      BY <1>4, <2>1, <3>5, <3>6
    <3> QED
      BY <3>2, <3>7 DEF PInv
  <2> QED
    BY <2>5, <2>8, <2>9 DEF Took
<1> QED
  BY <1>10, <1>11 DEF Node

\* A sequence cut in two.
LEMMA CutAndJoined ==
  ASSUME NEW S, NEW u \in Seq(S), NEW q \in Seq(S), NEW k \in 1..Len(q)
  PROVE  (u \o SubSeq(q, 1, k)) \o Dropped(q, k) = u \o q
<1> DEFINE a == SubSeq(q, 1, k)
           d == Dropped(q, k)
<1>1. a \in Seq(S) /\ Len(a) = k /\ \A i \in 1..k : a[i] = q[i]
  BY SubSeqProperties
<1>2. d \in Seq(S) /\ Len(d) = Len(q) - k /\ \A i \in 1 .. Len(q) - k : d[i] = q[k + i]
  BY SubSeqProperties DEF Dropped
<1> HIDE DEF a, d
<1>3. a \o d = q
  <2>1. 1 \in 1 .. Len(q) + 1 /\ k \in 1 - 1 .. Len(q) /\ Len(q) \in k .. Len(q)
    OBVIOUS
  <2>2. a \o d = SubSeq(q, 1, Len(q))
    BY <2>1, ConcatAdjacentSubSeq DEF a, d, Dropped
  <2> QED
    BY <2>2, SubSeqFull
<1>4. (u \o a) \o d = u \o (a \o d)
  <2>1. a \in Seq(S) /\ d \in Seq(S)
    BY <1>1, <1>2
  <2> QED
    BY <2>1, SMT
<1> QED
  BY <1>3, <1>4 DEF a, d

\* Level 3 of B takes what was received: it only changes hands.
LEMMA DeliverLinked ==
  ASSUME TInv, PInv, Deliver
  PROVE  PInv' /\ Received' = Received
<1>1. PICK f \in Nat, l \in Nat, n \in Nat, t \in Nat, b \in Seq(Nat) :
        Linked(st["A"], st["B"], ch["B"], ch["A"], sent, Received, f, l, n, t, b)
  BY DEF PInv
<1> DEFINE x == st["B"]
<1>2. PICK k \in 1..Len(x.rb) :
        /\ st' = [st EXCEPT !["B"] = sl_rx_wakeup(@, k)]
        /\ DeliverableRb(x, k) # <<>>
        /\ up' = up \o DeliverableRb(x, k)
        /\ UNCHANGED <<ch, sent, lost>>
  BY DEF Deliver
<1> DEFINE y == sl_rx_wakeup(x, k)
<1>3. SlState(x) /\ up \in Seq(Pdu) /\ x.rb \in Seq(Pdu) /\ DOMAIN st = Node
  BY DEF TInv, Node, Buffered, SlState
<1>4. st' = [st EXCEPT !["B"] = y]
  BY <1>2, <1>3 DEF Node
<1>5. st'["B"] = y /\ st'["A"] = st["A"]
  <2> HIDE DEF y
  <2> QED
    BY <1>4, OneMoves DEF Node
<1>6. DeliverableRb(x, k) = SubSeq(x.rb, 1, k) /\ x.lsc \in {"IN_SERVICE", "PROCESSOR_OUTAGE"}
  BY <1>2 DEF DeliverableRb
<1>7. Len(DeliverableRb(x, k)) = k
  BY <1>3, <1>6, SubSeqProperties
<1> DEFINE q == Dropped(x.rb, k)
           c == (x.Cr - k) % CtrMod
           z == [x EXCEPT !.rb = q, !.Cr = c]
<1>8. y = z
  BY <1>6, <1>7 DEF sl_rx_wakeup
<1> HIDE DEF x, y, q, c
<1>9. /\ z.tb = x.tb /\ z.rtb = x.rtb /\ z.rb = q /\ z.pos = x.pos /\ z.Z = x.Z
      /\ z.Ffsn = x.Ffsn /\ z.Lfsn = x.Lfsn /\ z.Tfsn = x.Tfsn /\ z.rFfsn = x.rFfsn
      /\ z.Xfsn = x.Xfsn /\ z.tXfsn = x.tXfsn
      /\ z.forced_retransmission = x.forced_retransmission
      /\ z.clear_rtb = x.clear_rtb /\ z.ib_mask = x.ib_mask
  <2>1. DOMAIN x = Fields
    BY <1>3 DEF SlState
  <2> QED
    BY <2>1, SMT DEF Fields
<1> HIDE DEF z
<1>10. Tx(z, 0, 0, 0) /\ Rx(z, t, n)
  <2>1. Tx(x, 0, 0, 0) /\ Rx(x, t, n)
    BY <1>1 DEF Linked, x
  <2> QED
    BY <1>9, <2>1 DEF Tx, Rx
<1>11. Received' = Received
  <2>1. Received' = (up \o SubSeq(x.rb, 1, k)) \o Dropped(x.rb, k)
    BY <1>2, <1>5, <1>6, <1>8, <1>9 DEF Received, q, x
  <2>2. (up \o SubSeq(x.rb, 1, k)) \o Dropped(x.rb, k) = up \o x.rb
    BY <1>3, CutAndJoined
  <2> QED
    BY <2>1, <2>2 DEF Received, x
<1>12. Linked(st["A"], z, ch["B"], ch["A"], sent, Received, f, l, n, t, b)
  BY <1>1, <1>10 DEF Linked
<1>13. Linked(st["A"], st["B"], ch["B"], ch["A"], sent, Received, f, l, n, t, b)'
  BY <1>2, <1>5, <1>8, <1>11, <1>12
<1> QED
  BY <1>11, <1>13 DEF PInv

\* A terminal that is ready to come into service has sent and received nothing,
LEMMA ReadyTx ==
  ASSUME PcrLink
  PROVE  Tx(Ready, 0, 0, 0) /\ Rx(Ready, 0, 0) /\ Ready.rb = <<>> /\ (0 - 1) % Mod = Mod - 1
<1> DEFINE x == Ready
           y == Started
<1>1. /\ y.tb = <<>> /\ y.rtb = <<>> /\ y.rb = <<>> /\ y.ib_mask = 1
      /\ y.pos = 0 /\ y.Z = 0 /\ y.Ffsn = 0 /\ y.rFfsn = 0
      /\ y.Lfsn = Mod - 1 /\ y.Tfsn = Mod - 1 /\ y.Xfsn = 0 /\ y.tXfsn = 0
      /\ y.forced_retransmission = 0 /\ y.clear_rtb = 0
  BY StartedFields
<1>2. Mod \in Nat /\ Mod > 1 /\ N1 \in Nat /\ N1 # 0
  BY NumberAssumption DEF PcrLink
<1>3. 0 % Mod = 0 /\ (0 - 1) % Mod = Mod - 1
  <2>1. Mod * 0 + 0 = 0 /\ Mod * (0 - 1) + (Mod - 1) = 0 - 1 /\ 0 - 1 \in Int
    BY <1>2
  <2>2. 0 \in 0 .. Mod - 1 /\ Mod - 1 \in 0 .. Mod - 1
    BY <1>2
  <2>3. (Mod * 0 + 0) % Mod = 0
    BY <2>2, Remainder
  <2>4. (Mod * (0 - 1) + (Mod - 1)) % Mod = Mod - 1
    BY <2>1, <2>2, Remainder
  <2> QED
    BY <2>1, <2>3, <2>4
<1>4. Pdus(0, 0 - 0) = <<>>
  BY PdusSeq
<1>5. Tx(y, 0, 0, 0) /\ Rx(y, 0, 0)
  BY <1>1, <1>2, <1>3, <1>4 DEF Tx, Rx
<1>6. Same(y, x) /\ SlState(x)
  BY ReadySame DEF Whole, Core
<1> HIDE DEF x, y
<1>7. Tx(x, 0, 0, 0) /\ Rx(x, 0, 0) /\ x.rb = <<>>
  <2>1. Tx(x, 0, 0, 0) /\ \E u \in {0, 0} : Rx(x, u, 0)
    BY <1>5, <1>6, SameTxRx
  <2> QED
    BY <1>1, <1>6, <2>1 DEF Same
<1> QED
  BY <1>3, <1>7 DEF x

\* ... and one that came into service has not either.
LEMMA ReadyLinked ==
  ASSUME PcrLink
  PROVE  Tx(InService, 0, 0, 0) /\ Rx(InService, 0, 0) /\ InService.rb = <<>>
<1> DEFINE x == Ready
<1>6. SlState(x)
  BY ReadySame DEF Whole, Core
<1>7. Tx(x, 0, 0, 0) /\ Rx(x, 0, 0) /\ x.rb = <<>> /\ (0 - 1) % Mod = Mod - 1
  BY ReadyTx
<1> HIDE DEF x
<1>8. Fill \in Su /\ Fill.bsn = (0 - 1) % Mod /\ Fill.type = "FISU"
  BY <1>7, AlignmentUnits DEF Fill
<1>9. Numbered(Fill, 0) /\ 0 \in 0..0
  BY <1>8 DEF Numbered
<1>10. Took(x, Got(x, Fill), Fill, 0, 0, 0, 0, 0, 0)
  BY <1>6, <1>7, <1>8, <1>9, ReceivedTook DEF Got
<1>11. InService = Got(x, Fill)
  BY ComesIntoService DEF x
<1>12. Tx(InService, 0, 0, 0) /\ InService.rb = x.rb /\ \E u \in 0..0 : Rx(InService, u, 0)
  BY <1>8, <1>10, <1>11 DEF Took
<1> QED
  BY <1>7, <1>12

LEMMA InitLinked == ASSUME PcrLink, Init PROVE PInv
<1> DEFINE x == InService
<1>1. /\ st["A"] = x /\ st["B"] = x /\ ch["A"] = <<>> /\ ch["B"] = <<>> /\ sent = 0 /\ up = <<>>
  BY DEF Init, Node
<1>2. Tx(x, 0, 0, 0) /\ Rx(x, 0, 0) /\ x.rb = <<>>
  BY ReadyLinked
<1> HIDE DEF x
<1>3. Received = Pdus(0, 0)
  <2>1. Pdus(0, 0) = <<>>
    BY PdusSeq
  <2>2. <<>> \o <<>> = <<>>
    OBVIOUS
  <2> QED
    BY <1>1, <1>2, <2>1, <2>2 DEF Received
<1>4. Forward(<<>>, 0, 0) /\ Back(<<>>, 0, 0, <<>>) /\ <<>> \in Seq(Nat)
  BY DEF Forward, Back
<1>5. Linked(st["A"], st["B"], ch["B"], ch["A"], sent, Received, 0, 0, 0, 0, <<>>)
  BY <1>1, <1>2, <1>3, <1>4 DEF Linked
<1> QED
  BY <1>4, <1>5 DEF PInv

\* Every step keeps the agreement.
LEMMA StepLinked == ASSUME PcrLink, TInv, PInv, [Next]_vars PROVE PInv'
<1>1. CASE UNCHANGED vars
  BY <1>1 DEF PInv, Received, vars
<1>2. CASE Send
  BY <1>2, SendLinked
<1>3. CASE \E n \in Node : Transmit(n) \/ Receive(n) \/ Lose(n)
  BY <1>3, TransmitLinked, ReceiveLinked, LoseLinked
<1>4. CASE \E n \in Node, t \in Timer : Expire(n, t)
  BY <1>4, ExpireLinked
<1>5. CASE Deliver
  BY <1>5, DeliverLinked
<1> QED
  BY <1>1, <1>2, <1>3, <1>4, <1>5 DEF Next

\* The inductive invariant of the exchange, with preventive cyclic retransmission.
THEOREM PcrLinked == PcrLink => (Spec => [](TInv /\ PInv))
<1> SUFFICES ASSUME PcrLink PROVE Spec => [](TInv /\ PInv)
  OBVIOUS
<1>1. Init => TInv /\ PInv
  BY InitTyped, InitLinked
<1>2. TInv /\ PInv /\ [Next]_vars => (TInv /\ PInv)'
  BY StepTyped, StepLinked
<1> QED
  BY <1>1, <1>2, PTL DEF Spec

\* What level 3 gets back from A continues what B received.
LEMMA LinkedComplete ==
  ASSUME PcrLink, BsntMod = Mod, TInv, PInv PROVE ChangeoverComplete
<1>1. PICK f \in Nat, l \in Nat, n \in Nat, t \in Nat, b \in Seq(Nat) :
        Linked(st["A"], st["B"], ch["B"], ch["A"], sent, Received, f, l, n, t, b)
  BY DEF PInv
<1> DEFINE x == st["A"]
           y == st["B"]
           m == sent
<1>2. /\ f <= t /\ t <= n /\ n <= l /\ f <= l /\ l <= m /\ l - f <= N1
      /\ x.rtb = Pdus(f, l - f) /\ x.tb = Pdus(l, m - l) /\ x.Ffsn = f % Mod /\ x.ib_mask = 1
      /\ y.Xfsn = n % Mod /\ Received = Pdus(0, n) /\ m \in Nat
  BY <1>1 DEF Linked, Tx, Rx, TInv
<1>3. N1 \in 1 .. Mod - 1 /\ Mod \in Nat
  BY NumberAssumption DEF PcrLink
<1> HIDE DEF x, y, m
<1>4. n - f \in 0 .. Mod - 1 /\ n - f \in 0 .. l - f /\ l - f \in Nat
  BY <1>2, <1>3
<1>5. sl_rc_retrieve_bsnt(y) = (n - 1) % Mod
  BY <1>2, NextNumber DEF sl_rc_retrieve_bsnt
<1>6. (((n - 1) % Mod) + 1 - (f % Mod)) % Mod = n - f
  BY <1>4, Distance
<1>7. RetrievedRtb(x, (n - 1) % Mod) = Dropped(x.rtb, n - f)
  BY <1>2, <1>6 DEF RetrievedRtb
<1>8. Dropped(Pdus(f, l - f), n - f) = Pdus(n, l - n)
  <2>1. f + (n - f) = n /\ (l - f) - (n - f) = l - n
    BY <1>2
  <2>2. Dropped(Pdus(f, l - f), n - f) = Pdus(f + (n - f), (l - f) - (n - f))
    BY <1>4, PdusDropped
  <2> QED
    BY <2>1, <2>2
<1>9. Retrievable = Pdus(n, l - n) \o Pdus(l, m - l)
  BY <1>2, <1>5, <1>7, <1>8 DEF Retrievable, RetrievedMessages, x, y
<1>10. Pdus(n, l - n) \o Pdus(l, m - l) = Pdus(n, m - n)
  <2>1. n + (l - n) = l /\ (l - n) + (m - l) = m - n /\ l - n \in Nat /\ m - l \in Nat
    BY <1>2
  <2>2. Pdus(n, l - n) \o Pdus(n + (l - n), m - l) = Pdus(n, (l - n) + (m - l))
    BY <2>1, PdusConcat
  <2> QED
    BY <2>1, <2>2
<1>11. Pdus(0, n) \o Pdus(n, m - n) = Pdus(0, m)
  <2> DEFINE z == 0
  <2>1. z + n = n /\ n + (m - n) = m
    BY <1>2
  <2>2. z \in Nat
    OBVIOUS
  <2> HIDE DEF z
  <2>3. Pdus(z, n) \o Pdus(z + n, m - n) = Pdus(z, n + (m - n))
    <3> DEFINE j == m - n
    <3>1. j \in Nat
      BY <1>2
    <3> HIDE DEF j
    <3>2. Pdus(z, n) \o Pdus(z + n, j) = Pdus(z, n + j)
      BY <2>2, <3>1, PdusConcat
    <3> QED
      BY <3>2 DEF j
  <2> QED
    BY <2>1, <2>3 DEF z
<1>12. Pdus(0, m) = [i \in 1..m |-> i]
  <2>1. \A i \in 1..m : 0 + i = i
    BY <1>2
  <2> QED
    BY <2>1 DEF Pdus
<1> QED
  BY <1>2, <1>9, <1>10, <1>11, <1>12 DEF ChangeoverComplete, m

(***************************************************************************)
(* Sequenced changeover loses nothing, duplicates nothing and keeps the    *)
(* order with preventive cyclic retransmission: any number of messages,    *)
(* losses and units under way, whatever timers expire, also after the link *)
(* has failed.  The BSNT keeps seven bits, so the sequence numbers are to  *)
(* have seven as well.                                                     *)
(***************************************************************************)
THEOREM ChangeoverIsComplete == PcrLink /\ BsntMod = Mod => (Spec => []ChangeoverComplete)
<1> SUFFICES ASSUME PcrLink, BsntMod = Mod PROVE Spec => []ChangeoverComplete
  OBVIOUS
<1>1. TInv /\ PInv => ChangeoverComplete
  BY LinkedComplete
<1>2. Spec => [](TInv /\ PInv)
  BY PcrLinked
<1> QED
  BY <1>1, <1>2, PTL

------------------------------------------------------------------------------
(***************************************************************************)
(* The link service without its promise of progress.                       *)
(***************************************************************************)
ServiceSafe == Service!Init /\ [][Service!Next]_(Service!vars)

\* What level 3 of B has is the beginning of what level 3 of A sent.
Taken == Len(up) <= sent /\ up = [i \in 1..Len(up) |-> i]

LEMMA TakenInOrder == TInv /\ PInv => Taken
<1> SUFFICES ASSUME TInv, PInv PROVE Taken
  OBVIOUS
<1>1. PICK f \in Nat, l \in Nat, n \in Nat, t \in Nat, b \in Seq(Nat) :
        Linked(st["A"], st["B"], ch["B"], ch["A"], sent, Received, f, l, n, t, b)
  BY DEF PInv
<1> DEFINE r == st["B"].rb
<1>2. up \in Seq(Pdu) /\ r \in Seq(Pdu)
  BY DEF TInv, Node, Buffered, SlState
<1>3. up \o r = Pdus(0, n) /\ n <= l /\ l <= sent /\ sent \in Nat
  BY <1>1 DEF Linked, Tx, Received, TInv
<1> HIDE DEF r
<1>4. Len(Pdus(0, n)) = n /\ \A i \in 1..n : Pdus(0, n)[i] = i
  <2>1. Len(Pdus(0, n)) = n /\ \A i \in 1..n : Pdus(0, n)[i] = 0 + i
    BY PdusSeq
  <2>2. \A i \in 1..n : 0 + i = i
    OBVIOUS
  <2> QED
    BY <2>1, <2>2
<1>5. /\ Len(up \o r) = Len(up) + Len(r) /\ Len(up) \in Nat /\ Len(r) \in Nat
      /\ \A i \in 1..Len(up) : (up \o r)[i] = up[i]
  BY <1>2, ConcatProperties
<1>6. Len(up) <= n /\ \A i \in 1..Len(up) : up[i] = i
  BY <1>3, <1>4, <1>5
<1>7. up = [i \in 1..Len(up) |-> up[i]]
  BY <1>2
<1> QED
  BY <1>3, <1>5, <1>6, <1>7 DEF Taken

\* What a step does to the service: nothing, Give or Take.
LEMMA StepServes ==
  ASSUME PcrLink, TInv, PInv, TInv', PInv', [Next]_vars
  PROVE  [Service!Next]_(Service!vars)
<1>1. CASE Send
  BY <1>1 DEF Send, Service!Next, Service!Give
<1>2. CASE Deliver
  <2> DEFINE x == st["B"]
  <2>1. PICK k \in 1..Len(x.rb) :
          DeliverableRb(x, k) # <<>> /\ up' = up \o DeliverableRb(x, k) /\ UNCHANGED sent
    BY <1>2 DEF Deliver
  <2> DEFINE d == DeliverableRb(x, k)
  <2>2. SlState(x) /\ up \in Seq(Pdu)
    BY DEF TInv, Node, Buffered
  <2> HIDE DEF x
  <2>3. d \in Seq(Pdu)
    BY <2>2, DeliverableTyped
  <2> HIDE DEF d
  <2>4. Len(up') = Len(up) + Len(d) /\ Len(d) \in Nat /\ Len(d) # 0 /\ Len(up) \in Nat
    BY <2>1, <2>2, <2>3, ConcatProperties, EmptySeq DEF d
  <2>5. Len(up') <= sent' /\ up' = [i \in 1..Len(up') |-> i] /\ sent \in Nat
    <3>1. TInv' /\ PInv' => Taken'
      BY TakenInOrder, PTL
    <3> QED
      BY <3>1 DEF Taken, TInv
  <2>6. Len(up') \in Len(up) + 1 .. sent
    BY <2>1, <2>4, <2>5
  <2> QED
    BY <2>1, <2>5, <2>6 DEF Service!Next, Service!Take
<1>3. CASE UNCHANGED vars
  BY <1>3 DEF vars, Service!vars
<1>4. CASE \E n \in Node : Transmit(n) \/ Receive(n) \/ Lose(n)
  BY <1>4 DEF Transmit, Receive, Lose, Service!vars
<1>5. CASE \E n \in Node, t \in Timer : Expire(n, t)
  BY <1>5 DEF Expire, Service!vars
<1> QED
  BY <1>1, <1>2, <1>3, <1>4, <1>5 DEF Next

(***************************************************************************)
(* Two terminals with preventive cyclic retransmission and a network that  *)
(* loses units implement the link service, as far as safety goes: each PDU *)
(* in sequence, none missing and none twice.                               *)
(***************************************************************************)
THEOREM LinkServes == PcrLink => (Spec => ServiceSafe)
<1> SUFFICES ASSUME PcrLink PROVE Spec => ServiceSafe
  OBVIOUS
<1>1. Init => Service!Init
  BY DEF Init, Service!Init
<1>2. TInv /\ PInv /\ (TInv /\ PInv)' /\ [Next]_vars => [Service!Next]_(Service!vars)
  BY StepServes
<1>3. Spec => [](TInv /\ PInv)
  BY PcrLinked
<1> QED
  BY <1>1, <1>2, <1>3, PTL DEF Spec, ServiceSafe

------------------------------------------------------------------------------
(***************************************************************************)
(* A link in service stays in service: nothing but SIB is sent as a status *)
(* unit, and no BSN is abnormal.                                           *)
(***************************************************************************)
Calm(x) ==
  /\ x.lsc = "IN_SERVICE" /\ x.iac = "IDLE"
  /\ x.lssu_available = 1 => x.sio = "SIB"

\* Functions that neither leave the state nor send a status unit but SIB.
Steady(x, y) ==
  DOMAIN x = Fields =>
    /\ DOMAIN y = Fields /\ y.lsc = x.lsc /\ y.iac = x.iac
    /\ \/ y.lssu_available = x.lssu_available /\ y.sio = x.sio
       \/ y.lssu_available = 1 /\ y.sio = "SIB"

LEMMA SteadyChain ==
  ASSUME NEW x, NEW y, NEW z, Steady(x, y), Steady(y, z)
  PROVE  Steady(x, z)
BY DEF Steady

LEMMA SteadyEarly == ASSUME NEW x PROVE Steady(x, x)
BY DEF Steady

LEMMA SteadyCalm ==
  ASSUME NEW x, NEW y, SlState(x), Steady(x, y), Calm(x)
  PROVE  Calm(y)
<1>1. DOMAIN x = Fields
  BY DEF SlState
<1> QED
  BY <1>1 DEF Steady, Calm

\* Timers, congestion of the receiver and the monitors.
LEMMA SmallSteady ==
  ASSUME NEW x
  PROVE  /\ \A t \in Timer : Steady(x, sl_timer_stop(x, t))
         /\ Steady(x, sl_cc_busy(x)) /\ Steady(x, sl_cc_normal(x))
         /\ Steady(x, sl_txc_fsnx_value(x)) /\ Steady(x, sl_check_congestion(x))
         /\ Steady(x, sl_txc_sib_received(x)) /\ Steady(x, SibOver(x))
<1>1. \A t \in Timer : Steady(x, sl_timer_stop(x, t))
  BY SMT DEF Steady, sl_timer_stop, Fields
<1>2. Steady(x, sl_cc_busy(x))
  BY SMT DEF Steady, sl_cc_busy, sl_timer_start, sl_txc_send_sib, Fields
<1>3. Steady(x, sl_cc_normal(x))
  BY SMT DEF Steady, sl_cc_normal, Fields
<1>4. Steady(x, sl_txc_fsnx_value(x))
  BY SMT DEF Steady, sl_txc_fsnx_value, Fields
<1>5. Steady(x, sl_check_congestion(x))
  BY SMT DEF Steady, sl_check_congestion, Fields
<1>6. Steady(x, sl_txc_sib_received(x))
  BY SMT DEF Steady, sl_txc_sib_received, Fields
<1>7. Steady(x, SibOver(x))
  BY SMT DEF Steady, SibOver, Fields
<1> QED
  BY <1>1, <1>2, <1>3, <1>4, <1>5, <1>6, <1>7

\* The monitors of correct units.
LEMMA CorrectSteady == ASSUME NEW x PROVE Steady(x, sl_daedr_correct_su(x))
<1> DEFINE e == sl_eim_correct_su(x)
           s == sl_suerm_correct_su(e)
           a == sl_aerm_correct_su(s)
<1>1. Steady(x, e)
  BY SMT DEF Steady, sl_eim_correct_su, Fields
<1> HIDE DEF e
<1>2. Steady(e, s)
  BY SMT DEF Steady, sl_suerm_correct_su, Leaked, Fields
<1> HIDE DEF s
<1>3. Steady(s, a)
  BY SMT DEF Steady, sl_aerm_correct_su, sl_iac_correct_su, Prove, sl_aerm_start, Fields
<1>4. sl_daedr_correct_su(x) = a
  BY DEF sl_daedr_correct_su, a, s, e
<1> HIDE DEF a
<1> QED
  BY <1>1, <1>2, <1>3, <1>4, SteadyChain

\* The receive congestion function.
LEMMA RbCongestionSteady ==
  ASSUME NEW x, NEW next, NEW own
  PROVE  Steady(x, sl_rb_congestion_function(x, next, own))
<1> DEFINE n == sl_rc_no_congestion(x)
           d == sl_rc_congestion_discard(x)
           c == sl_rc_congestion_accept(x)
<1>1. Steady(x, n)
  BY SMT DEF Steady, sl_rc_no_congestion, sl_txc_fsnx_value, sl_cc_normal,
             sl_txc_nack_to_be_sent, Fields
<1>2. Steady(x, d)
  BY SMT DEF Steady, sl_rc_congestion_discard, sl_cc_busy, sl_timer_start, sl_txc_send_sib, Fields
<1>3. Steady(x, c)
  BY SMT DEF Steady, sl_rc_congestion_accept, sl_cc_busy, sl_timer_start, sl_txc_send_sib, Fields
<1>4. sl_rb_congestion_function(x, next, own) \in
        {x, [n EXCEPT !.l2_congestion_detect = 0], [d EXCEPT !.l2_congestion_detect = 1],
         [c EXCEPT !.l2_congestion_detect = 1]}
  BY DEF sl_rb_congestion_function
<1> HIDE DEF n, d, c
<1>5. ASSUME NEW z, NEW v PROVE Steady(z, [z EXCEPT !.l2_congestion_detect = v])
  BY SMT DEF Steady, Fields
<1>6. /\ Steady(x, [n EXCEPT !.l2_congestion_detect = 0])
      /\ Steady(x, [d EXCEPT !.l2_congestion_detect = 1])
      /\ Steady(x, [c EXCEPT !.l2_congestion_detect = 1])
  <2>1. /\ Steady(n, [n EXCEPT !.l2_congestion_detect = 0])
        /\ Steady(d, [d EXCEPT !.l2_congestion_detect = 1])
        /\ Steady(c, [c EXCEPT !.l2_congestion_detect = 1])
    BY <1>5
  <2> QED
    BY <1>1, <1>2, <1>3, <2>1, SteadyChain
<1> QED
  BY <1>4, <1>6, SteadyEarly

\* An acknowledgement.
LEMMA AckSteady ==
  ASSUME PCR, NEW x, DOMAIN x = Fields, x.clear_rtb = 0, NEW su
  PROVE  Steady(x, AckReceived(x, su))
<1> DEFINE bsn == su.bsn
           bib == su.bib
           next == (bsn + 1) % Mod
           s == [x EXCEPT !.tRbsn = bsn]
           a == Acknowledged(s, bsn)
           r == sl_txc_bsnr_and_bibr(x, bsn, bib)
<1> HIDE DEF bsn, bib
<1>1. Steady(x, s) /\ s.clear_rtb = 0 /\ DOMAIN s = Fields
  BY SMT DEF Steady, Fields
<1>2. r \in {a, s}
  BY <1>1 DEF sl_txc_bsnr_and_bibr
<1> HIDE DEF s
<1>3. Steady(s, a)
  <2>1. /\ a.lsc = s.lsc /\ a.iac = s.iac /\ a.lssu_available = s.lssu_available
        /\ a.sio = s.sio
    <3> DEFINE Untouched(u) == /\ DOMAIN u = Fields /\ u.lsc = s.lsc /\ u.iac = s.iac
                               /\ u.lssu_available = s.lssu_available /\ u.sio = s.sio
               k == (bsn + 1 - s.Ffsn) % Mod
               o == SibOver(s)
               d == [o EXCEPT !.rtb = Dropped(@, k), !.Ct = (@ - k) % CtrMod, !.Ffsn = next]
               c == sl_check_congestion(d)
    <3>1. Untouched(o)
      BY <1>1, SMT DEF SibOver, Fields
    <3> HIDE DEF o, k, next
    <3>2. Untouched(d)
      BY <3>1, SMT DEF Fields
    <3> HIDE DEF d
    <3>3. Untouched(c)
      BY <3>2, SMT DEF sl_check_congestion, Fields
    <3> HIDE DEF c
    <3> DEFINE rewind == SN_OUTSIDE(next, s.Z, s.Lfsn) \/ d.rtb = <<>>
               tm == IF d.rtb = <<>> THEN c.tm \ {"t7"} ELSE c.tm \cup {"t7"}
               full == IF ~PCR \/ Len(d.rtb) < N1 THEN 0 ELSE c.rtb_full
               z == IF rewind THEN next ELSE c.Z
               p == IF rewind THEN (IF d.rtb = <<>> THEN 0 ELSE 1) ELSE PosAfter(c.pos, k)
    <3> HIDE DEF tm, full, z, p
    <3>4. Untouched([c EXCEPT !.tm = tm, !.rtb_full = full, !.Z = z, !.pos = p])
      BY <3>3, SMT DEF Fields
    <3>5. a = [c EXCEPT !.tm = tm, !.rtb_full = full, !.Z = z, !.pos = p]
      BY DEF Acknowledged, c, d, o, k, next, tm, full, z, p
    <3> HIDE DEF a
    <3> QED
      BY <3>4, <3>5
  <2>2. DOMAIN a = DOMAIN s
    BY DEF Acknowledged, SibOver, sl_check_congestion
  <2> HIDE DEF a
  <2> QED
    BY <2>1, <2>2 DEF Steady
<1> HIDE DEF a, r
<1>4. Steady(x, r)
  BY <1>1, <1>2, <1>3, SteadyChain
<1>5. Steady(r, [r EXCEPT !.rFfsn = next])
  <2> HIDE DEF next
  <2> QED
    BY SMT DEF Steady, Fields
<1>6. AckReceived(x, su) = [r EXCEPT !.rFfsn = next]
  BY DEF AckReceived, r, next, bsn, bib
<1> QED
  BY <1>4, <1>5, <1>6, SteadyChain

\* A FISU or an MSU that is accepted, once the link state control has seen it.
LEMMA AcceptedSteady ==
  ASSUME PCR, NEW w, NEW su, NEW next, NEW own, DOMAIN sl_lsc_fisu_msu_received(w) = Fields,
         sl_lsc_fisu_msu_received(w).clear_rtb = 0
  PROVE  Steady(sl_lsc_fisu_msu_received(w), SuAccepted(w, su, next, own))
<1> DEFINE x == sl_lsc_fisu_msu_received(w)
           a == AckReceived(x, su)
           c == sl_rb_congestion_function(a, next, own)
           d == [c EXCEPT !.rtr = IF PCR THEN @ ELSE 1]
           i == InSequence(c, su)
           y == SuAccepted(w, su, next, own)
<1>2. y \in {a, c, i, sl_cc_busy(d)}
  BY DEF SuAccepted
<1> HIDE DEF x, y
<1>3. Steady(x, a)
  BY AckSteady DEF x
<1> HIDE DEF a
<1>4. Steady(x, c)
  BY <1>3, RbCongestionSteady, SteadyChain
<1> HIDE DEF c
<1>5. Steady(c, d)
  BY SMT DEF Steady, Fields
<1> HIDE DEF d
<1>6. Steady(x, sl_cc_busy(d))
  <2>1. Steady(d, sl_cc_busy(d)) /\ Steady(x, d)
    BY <1>4, <1>5, SmallSteady, SteadyChain
  <2> QED
    BY <2>1, SteadyChain
<1>7. Steady(c, i)
  <2> DEFINE f == (c.Xfsn + 1) % Mod
             q == Append(c.rb, su.pdu)
             n == (c.Cr + 1) % CtrMod
             e == [c EXCEPT !.Xfsn = f, !.rtr = IF PCR THEN @ ELSE 0, !.rb = q, !.Cr = n]
  <2>1. i \in {sl_cc_busy(e), sl_txc_fsnx_value(e)} \/ DOMAIN c # Fields
    BY DEF InSequence, Fields
  <2> HIDE DEF f, q, n, i
  <2>2. Steady(c, e)
    BY SMT DEF Steady, Fields
  <2> HIDE DEF e
  <2>3. Steady(e, sl_cc_busy(e)) /\ Steady(e, sl_txc_fsnx_value(e))
    BY SmallSteady
  <2>4. Steady(c, sl_cc_busy(e)) /\ Steady(c, sl_txc_fsnx_value(e))
    BY <2>2, <2>3, SteadyChain
  <2>5. CASE DOMAIN c # Fields
    BY <2>5 DEF Steady
  <2> QED
    BY <2>1, <2>4, <2>5
<1> HIDE DEF i
<1>8. Steady(x, i)
  BY <1>4, <1>7, SteadyChain
<1>9. Steady(x, y)
  BY <1>2, <1>3, <1>4, <1>6, <1>8
<1> QED
  BY <1>9 DEF x, y

\* A BSN that acknowledges what was sent is not abnormal.
LEMMA NormalBsn ==
  ASSUME PcrLink, NEW x, NEW f \in Nat, NEW l \in Nat, NEW m \in Nat, Tx(x, f, l, m), NEW b \in f..l
  PROVE  ~SN_OUTSIDE((x.rFfsn - 1) % Mod, (b - 1) % Mod, x.Tfsn)
<1>1. N1 \in 1 .. Mod - 1 /\ Mod \in Nat
  BY NumberAssumption DEF PcrLink
<1>2. l - f <= N1 /\ f <= l /\ x.rFfsn = f % Mod /\ x.Tfsn = (l - 1) % Mod
  BY DEF Tx
<1>3. (x.rFfsn - 1) % Mod = (f - 1) % Mod
  BY <1>2, NextNumber
<1>4. /\ f - 1 \in Int /\ b - 1 \in Int /\ l - 1 \in Int /\ f - 1 <= l - 1
      /\ f - 1 <= b - 1 /\ b - 1 <= l - 1 /\ (l - 1) - (f - 1) < Mod
  BY <1>1, <1>2
<1>5. ~SN_OUTSIDE((f - 1) % Mod, (b - 1) % Mod, (l - 1) % Mod)
  BY <1>4, Window
<1> QED
  BY <1>2, <1>3, <1>5

\* Any unit that arrives in service, from a terminal that is calm.
LEMMA ReceivedCalm ==
  ASSUME PcrLink, NEW x, SlState(x), Calm(x), NEW su, NEW next, NEW own,
         su.type = "LSSU" => su.sio = "SIB",
         NEW f \in Nat, NEW l \in Nat, NEW m \in Nat, Tx(x, f, l, m),
         NEW b \in f..l, su.bsn = (b - 1) % Mod
  PROVE  Calm(sl_daedr_received_bits(x, su, next, own))
<1> DEFINE bsn == su.bsn
           r == [x EXCEPT !.rRbsn = bsn]
           a == [r EXCEPT !.abnormal_bsnr = 0]
           u == [r EXCEPT !.unb = 1]
           z == sl_rc_signal_unit(x, su, next, own)
<1>0. PCR /\ DOMAIN x = Fields /\ x.lsc = "IN_SERVICE" /\ x.clear_rtb = 0
  BY DEF PcrLink, SlState, Calm, Tx
<1>1. /\ Steady(x, r) /\ r.rFfsn = x.rFfsn /\ r.Tfsn = x.Tfsn /\ DOMAIN r = Fields
      /\ r.lsc = "IN_SERVICE" /\ r.clear_rtb = 0
  <2> HIDE DEF bsn
  <2> QED
    BY <1>0, SMT DEF Steady, Fields
<1>2. ~SN_OUTSIDE((r.rFfsn - 1) % Mod, su.bsn, r.Tfsn)
  <2> HIDE DEF r
  <2> QED
    BY <1>1, NormalBsn
<1>3. \/ su.type = "LSSU" /\ z = LssuReceived(r, su.sio)
      \/ z \in {x, u, SuAccepted(a, su, next, own)}
  BY <1>0, <1>2 DEF sl_rc_signal_unit
<1> HIDE DEF z, r
<1>4. Steady(r, a) /\ DOMAIN a = Fields /\ a.lsc = "IN_SERVICE" /\ a.clear_rtb = 0
  BY <1>1, SMT DEF Steady, Fields
<1>5. Steady(r, u)
  BY SMT DEF Steady, Fields
<1> HIDE DEF a, u
<1>6. Steady(x, SuAccepted(a, su, next, own))
  <2>1. sl_lsc_fisu_msu_received(a) = a
    BY <1>4 DEF sl_lsc_fisu_msu_received
  <2>2. Steady(a, SuAccepted(a, su, next, own))
    BY <1>0, <1>4, <2>1, AcceptedSteady
  <2>3. Steady(x, a)
    BY <1>1, <1>4, SteadyChain
  <2> QED
    BY <2>2, <2>3, SteadyChain
<1>7. su.type = "LSSU" => Steady(x, LssuReceived(r, su.sio))
  <2>1. LssuReceived(r, "SIB") = sl_txc_sib_received(r)
    BY <1>1 DEF LssuReceived, sl_lsc_sib
  <2>2. Steady(r, sl_txc_sib_received(r))
    BY SmallSteady
  <2> QED
    BY <1>1, <2>1, <2>2, SteadyChain
<1>8. Steady(x, z)
  BY <1>1, <1>3, <1>5, <1>6, <1>7, SteadyChain, SteadyEarly
<1>9. Steady(x, sl_daedr_correct_su(z))
  BY <1>8, CorrectSteady, SteadyChain
<1>10. sl_daedr_received_bits(x, su, next, own) = sl_daedr_correct_su(z)
  BY <1>0 DEF sl_daedr_received_bits, z
<1> QED
  BY <1>9, <1>10, SteadyCalm

\* Any unit that goes out in service.
LEMMA TransmittedCalm ==
  ASSUME NEW x, SlState(x), Calm(x), NEW junk
  PROVE  LET r == sl_txc_transmission_request(x, junk)
         IN  r.su # NoSu => Calm(r.st) /\ (r.su.type = "LSSU" => r.su.sio = "SIB")
<1> DEFINE f == IF PCR THEN Forcing(x) ELSE x
           Fine(r) == r.su # NoSu => Calm(r.st) /\ (r.su.type = "LSSU" => r.su.sio = "SIB")
<1>1. SlState(Forcing(x))
  BY SMT DEF SlState, Fields, Flag, Forcing
<1>2. Steady(x, Forcing(x))
  BY SMT DEF Steady, Forcing, Fields
<1>3. SlState(f) /\ Calm(f)
  BY <1>1, <1>2, SteadyCalm
<1>4. ASSUME NEW y, SlState(y), Calm(y) PROVE Fine(SendFisu(y))
  <2> DEFINE n == [y EXCEPT !.Nfsn = y.Lfsn]
  <2>1. SendFisu(y).st = n /\ SendFisu(y).su = sl_daedt_fisu(n)
    BY DEF SendFisu
  <2>2. Steady(y, n)
    BY SMT DEF Steady, Fields
  <2> HIDE DEF n
  <2>3. Calm(n) /\ sl_daedt_fisu(n).type = "FISU"
    BY <1>4, <2>2, SteadyCalm DEF sl_daedt_fisu
  <2> QED
    BY <2>1, <2>3
<1>5. x.lssu_available = 1 => Fine(SendLssu(x))
  <2> SUFFICES ASSUME x.lssu_available = 1 PROVE Fine(SendLssu(x))
    OBVIOUS
  <2> DEFINE n == [x EXCEPT !.lssu_available = IF x.sio = "SIB" THEN 0 ELSE @, !.Nfsn = x.Lfsn]
  <2>1. SendLssu(x).st = n /\ SendLssu(x).su = sl_daedt_lssu(n)
    BY DEF SendLssu
  <2>2. n.lsc = x.lsc /\ n.iac = x.iac /\ n.sio = x.sio /\ x.sio = "SIB"
    BY SMT DEF SlState, Calm, Fields
  <2> HIDE DEF n
  <2>3. Calm(n) /\ sl_daedt_lssu(n).sio = "SIB"
    BY <2>2 DEF Calm, sl_daedt_lssu
  <2> QED
    BY <2>1, <2>3
<1> HIDE DEF f
<1>6. Fine(SendNew(f))
  <2> DEFINE y == SendNew(f).st
  <2>1. /\ SendNew(f).su = sl_daedt_msu(y, Head(f.tb))
        /\ y.lsc = f.lsc /\ y.iac = f.iac
        /\ y.lssu_available = f.lssu_available /\ y.sio = f.sio
    BY <1>3, SendNewFields
  <2> HIDE DEF y
  <2>3. sl_daedt_msu(y, Head(f.tb)).type = "MSU"
    BY DEF sl_daedt_msu
  <2> QED
    BY <1>3, <2>1, <2>3 DEF Calm, y
<1>7. Fine(SendOld(f, junk))
  <2> DEFINE r == SendOld(f, junk)
             y == r.st
  <2>1. y.lsc = f.lsc /\ y.lssu_available = f.lssu_available /\ y.sio = f.sio
    BY <1>3, SendOldFields
  <2>2. y.iac = f.iac
    <3>1. DOMAIN f = Fields
      BY <1>3 DEF SlState
    <3> QED
      BY <3>1, SMT DEF SendOld, Fields
  <2>3. r.su = NoSu \/ r.su.type = "MSU"
    BY DEF SendOld, sl_daedt_msu
  <2> HIDE DEF r
  <2> QED
    BY <1>3, <2>1, <2>2, <2>3 DEF Calm, r
<1>8. Fine([st |-> x, su |-> NoSu])
  OBVIOUS
<1> QED
  BY <1>3, <1>4, <1>5, <1>6, <1>7, <1>8 DEF sl_txc_transmission_request, f

\* What a correct unit does to a terminal whose proving was not aborted.
LEMMA CorrectFields ==
  ASSUME NEW x, DOMAIN x = Fields, x.aborted_proving = 0
  PROVE  LET y == sl_daedr_correct_su(x)
         IN  /\ DOMAIN y = Fields /\ y.lsc = x.lsc /\ y.iac = x.iac /\ y.rc = x.rc
             /\ y.local_processor_outage = x.local_processor_outage /\ y.aerm = x.aerm
             /\ y.aborted_proving = 0 /\ y.abnormal_bsnr = x.abnormal_bsnr
             /\ y.further_proving = x.further_proving
<1> DEFINE e == sl_eim_correct_su(x)
           s == sl_suerm_correct_su(e)
           Kept(y) == /\ DOMAIN y = Fields /\ y.lsc = x.lsc /\ y.iac = x.iac /\ y.rc = x.rc
                      /\ y.local_processor_outage = x.local_processor_outage /\ y.aerm = x.aerm
                      /\ y.aborted_proving = 0 /\ y.abnormal_bsnr = x.abnormal_bsnr
                      /\ y.further_proving = x.further_proving
<1>1. Kept(e)
  BY SMT DEF sl_eim_correct_su, Fields
<1> HIDE DEF e
<1>2. Kept(s)
  BY <1>1, SMT DEF sl_suerm_correct_su, Leaked, Fields
<1> HIDE DEF s
<1>3. sl_aerm_correct_su(s) = s
  BY <1>2 DEF sl_aerm_correct_su
<1> QED
  BY <1>2, <1>3 DEF sl_daedr_correct_su, e, s

\* Initial alignment: SIO, then SIN.
LEMMA ProvingFields ==
  LET x == Proving
  IN  /\ DOMAIN x = Fields /\ x.lsc = "INITIAL_ALIGNMENT" /\ x.iac = "PROVING"
      /\ x.rc = "IN_SERVICE" /\ x.local_processor_outage = 0 /\ x.aborted_proving = 0
      /\ x.abnormal_bsnr = 0 /\ x.further_proving = 0
<1> DEFINE m == Mod - 1
           x == Started
           r == [x EXCEPT !.rRbsn = m]
           a == sl_iac_sio(r)
           g == Got(x, Status("SIO"))
           s == [g EXCEPT !.rRbsn = m]
           b == sl_iac_sin(s)
<1>1. /\ DOMAIN x = Fields
      /\ x.lsc = "INITIAL_ALIGNMENT" /\ x.iac = "NOT_ALIGNED" /\ x.rc = "IN_SERVICE"
      /\ x.local_processor_outage = 0 /\ x.aerm = "IDLE" /\ x.aborted_proving = 0
      /\ x.abnormal_bsnr = 0
  BY StartedFields DEF Whole, Core, SlState
<1> HIDE DEF m, x
<1>2. /\ DOMAIN a = Fields
      /\ a.lsc = "INITIAL_ALIGNMENT" /\ a.iac = "ALIGNED" /\ a.rc = "IN_SERVICE"
      /\ a.local_processor_outage = 0 /\ a.aborted_proving = 0 /\ a.abnormal_bsnr = 0
  BY <1>1, SMT DEF sl_iac_sio, ToAligned, sl_txc_send_sie, sl_txc_send_sin, Fields
<1>3. g = sl_daedr_correct_su(a)
  <2>1. LssuReceived(r, "SIO") = sl_lsc_sio(a)
    BY DEF LssuReceived
  <2>2. sl_lsc_sio(a) = a
    <3> HIDE DEF a
    <3> QED
      BY <1>2 DEF sl_lsc_sio
  <2> HIDE DEF a
  <2> QED
    BY <1>1, <2>1, <2>2 DEF Got, sl_daedr_received_bits, sl_rc_signal_unit, Status, m, r
<1> HIDE DEF a
<1>4. /\ DOMAIN g = Fields
      /\ g.lsc = "INITIAL_ALIGNMENT" /\ g.iac = "ALIGNED" /\ g.rc = "IN_SERVICE"
      /\ g.local_processor_outage = 0 /\ g.aborted_proving = 0 /\ g.abnormal_bsnr = 0
  <2> HIDE DEF g
  <2> QED
    BY <1>2, <1>3, CorrectFields
<1> HIDE DEF g
<1>5. /\ DOMAIN b = Fields
      /\ b.lsc = "INITIAL_ALIGNMENT" /\ b.iac = "PROVING" /\ b.rc = "IN_SERVICE"
      /\ b.local_processor_outage = 0 /\ b.aborted_proving = 0 /\ b.abnormal_bsnr = 0
      /\ b.further_proving = 0
  BY <1>4, SMT DEF sl_iac_sin, Prove, sl_timer_stop, sl_aerm_set_ti_to_tie, sl_aerm_start, Fields
<1>6. Proving = sl_daedr_correct_su(b)
  <2>1. LssuReceived(s, "SIN") = sl_lsc_sin(b)
    BY DEF LssuReceived
  <2>2. sl_lsc_sin(b) = b
    <3> HIDE DEF b
    <3> QED
      BY <1>5 DEF sl_lsc_sin, SinOrSie
  <2>3. Proving = Got(g, Status("SIN"))
    BY DEF Proving, g, x
  <2> HIDE DEF b
  <2> QED
    BY <1>4, <2>1, <2>2, <2>3
       DEF Got, sl_daedr_received_bits, sl_rc_signal_unit, Status, m, s
<1> HIDE DEF b
<1> QED
  BY <1>5, <1>6, CorrectFields

\* The end of proving: the terminal sends FISUs and waits for one.
LEMMA ReadyFields ==
  LET x == Ready
  IN  /\ x.lsc = "ALIGNED_READY" /\ x.iac = "IDLE" /\ x.lssu_available = 0
      /\ x.rc = "IN_SERVICE" /\ x.abnormal_bsnr = 0
<1> DEFINE p == Proving
           s == sl_timer_stop(p, "t4")
           u == sl_suerm_start(s)
           v == sl_timer_start(u, "t1")
           w == [sl_rc_accept_msu_fisu(sl_txc_send_msu(v)) EXCEPT !.lsc = "ALIGNED_READY"]
           x == [sl_aerm_stop(w) EXCEPT !.emergency = 0, !.iac = "IDLE"]
<1>1. /\ DOMAIN p = Fields /\ p.lsc = "INITIAL_ALIGNMENT" /\ p.iac = "PROVING"
      /\ p.rc = "IN_SERVICE" /\ p.local_processor_outage = 0 /\ p.abnormal_bsnr = 0
      /\ p.further_proving = 0
  BY ProvingFields
<1> HIDE DEF p
<1>2. /\ DOMAIN s = Fields /\ s.lsc = "INITIAL_ALIGNMENT" /\ s.iac = "PROVING"
      /\ s.rc = "IN_SERVICE" /\ s.local_processor_outage = 0 /\ s.abnormal_bsnr = 0
      /\ s.further_proving = 0
  BY <1>1, SMT DEF sl_timer_stop, Fields
<1> HIDE DEF s
<1>3. /\ DOMAIN v = Fields /\ v.local_processor_outage = 0 /\ v.rc = "IN_SERVICE"
      /\ v.abnormal_bsnr = 0
  BY <1>2, SMT DEF sl_suerm_start, sl_eim_start, sl_timer_start, Fields
<1>4. Ready = x
  <2>1. sl_lsc_alignment_complete(s) = w
    <3> HIDE DEF w
    <3> QED
      BY <1>2, <1>3 DEF sl_lsc_alignment_complete, w
  <2>2. sl_t4_expiry(s) = x
    <3> HIDE DEF w
    <3> QED
      BY <1>2, <2>1 DEF sl_t4_expiry
  <2> HIDE DEF x
  <2> QED
    BY <2>2 DEF Ready, s, p
<1> HIDE DEF v
<1>5. /\ x.lsc = "ALIGNED_READY" /\ x.iac = "IDLE" /\ x.lssu_available = 0
      /\ x.rc = "IN_SERVICE" /\ x.abnormal_bsnr = 0
  BY <1>3, SMT DEF sl_aerm_stop, sl_rc_accept_msu_fisu, sl_txc_send_msu, Fields
<1> QED
  BY <1>4, <1>5

\* A unit whose BSN is as expected, when the one before was normal too.
LEMMA NormalUnit ==
  ASSUME NEW x, DOMAIN x = Fields, NEW su, NEW next, NEW own,
         PCR, x.rc = "IN_SERVICE", su.type # "LSSU",
         ~SN_OUTSIDE((x.rFfsn - 1) % Mod, su.bsn, x.Tfsn), x.abnormal_bsnr = 0
  PROVE  \E a : /\ DOMAIN a = Fields /\ a.lsc = x.lsc /\ a.iac = x.iac
                /\ a.lssu_available = x.lssu_available /\ a.clear_rtb = x.clear_rtb
                /\ sl_rc_signal_unit(x, su, next, own) = SuAccepted(a, su, next, own)
<1> DEFINE bsn == su.bsn
           r == [x EXCEPT !.rRbsn = bsn]
           a == [r EXCEPT !.abnormal_bsnr = 0]
<1>1. /\ DOMAIN r = Fields /\ r.rFfsn = x.rFfsn /\ r.Tfsn = x.Tfsn /\ r.abnormal_bsnr = 0
      /\ r.lsc = x.lsc /\ r.iac = x.iac
      /\ r.lssu_available = x.lssu_available /\ r.clear_rtb = x.clear_rtb
  <2> HIDE DEF bsn
  <2> QED
    BY SMT DEF Fields
<1>2. ~SN_OUTSIDE((r.rFfsn - 1) % Mod, su.bsn, r.Tfsn) /\ ~(r.abnormal_bsnr = 1 /\ r.unb # 1)
  <2> HIDE DEF r
  <2> QED
    BY <1>1
<1>3. sl_rc_signal_unit(x, su, next, own) = SuAccepted(a, su, next, own)
  BY <1>2 DEF sl_rc_signal_unit
<1> HIDE DEF r
<1>4. /\ DOMAIN a = Fields /\ a.lsc = x.lsc /\ a.iac = x.iac
      /\ a.lssu_available = x.lssu_available /\ a.clear_rtb = x.clear_rtb
  BY <1>1, SMT DEF Fields
<1> HIDE DEF a
<1> QED
  BY <1>3, <1>4

\* The first FISU brings the terminal into service.
LEMMA InServiceCalm == ASSUME PcrLink PROVE Calm(InService)
<1> DEFINE x == Ready
<1>1. /\ x.lsc = "ALIGNED_READY" /\ x.iac = "IDLE" /\ x.lssu_available = 0
      /\ x.rc = "IN_SERVICE" /\ x.abnormal_bsnr = 0
  BY ReadyFields
<1>2. SlState(x) /\ DOMAIN x = Fields
  BY ReadySame DEF Whole, Core, SlState
<1>3. Tx(x, 0, 0, 0) /\ (0 - 1) % Mod = Mod - 1 /\ x.clear_rtb = 0
  BY ReadyTx DEF Tx
<1> HIDE DEF x
<1>4. Fill.type # "LSSU" /\ Fill.bsn = Mod - 1 /\ PCR
  BY DEF Fill, PcrLink
<1>5. ~SN_OUTSIDE((x.rFfsn - 1) % Mod, Fill.bsn, x.Tfsn)
  <2>1. 0 \in 0..0 /\ 0 \in Nat
    OBVIOUS
  <2>2. ~SN_OUTSIDE((x.rFfsn - 1) % Mod, (0 - 1) % Mod, x.Tfsn)
    BY <1>3, <2>1, NormalBsn
  <2> QED
    BY <1>3, <1>4, <2>2
<1>6. PICK a : /\ DOMAIN a = Fields /\ a.lsc = x.lsc /\ a.iac = x.iac
               /\ a.lssu_available = x.lssu_available /\ a.clear_rtb = x.clear_rtb
               /\ sl_rc_signal_unit(x, Fill, TRUE, TRUE) = SuAccepted(a, Fill, TRUE, TRUE)
  <2> DEFINE su == Fill
             free == TRUE
  <2>1. /\ DOMAIN x = Fields /\ PCR /\ x.rc = "IN_SERVICE" /\ su.type # "LSSU"
        /\ ~SN_OUTSIDE((x.rFfsn - 1) % Mod, su.bsn, x.Tfsn) /\ x.abnormal_bsnr = 0
    BY <1>1, <1>2, <1>4, <1>5
  <2> HIDE DEF su, free
  <2>2. \E a : /\ DOMAIN a = Fields /\ a.lsc = x.lsc /\ a.iac = x.iac
               /\ a.lssu_available = x.lssu_available /\ a.clear_rtb = x.clear_rtb
               /\ sl_rc_signal_unit(x, su, free, free) = SuAccepted(a, su, free, free)
    BY <2>1, NormalUnit
  <2> QED
    BY <2>2 DEF su, free
<1> DEFINE e == sl_lsc_fisu_msu_received(a)
           z == SuAccepted(a, Fill, TRUE, TRUE)
<1>7. DOMAIN a = Fields /\ a.lsc = "ALIGNED_READY" /\ a.iac = "IDLE" /\ a.clear_rtb = 0
  BY <1>1, <1>3, <1>6
<1>8. /\ DOMAIN e = Fields /\ e.clear_rtb = 0
      /\ e.lsc = "IN_SERVICE" /\ e.iac = "IDLE" /\ e.lssu_available = 0
  <2> DEFINE i == sl_timer_stop(sl_in_service_ind(a), "t1")
             t == sl_txc_send_msu(i)
             c == sl_rc_accept_msu_fisu(t)
             d == IF PVAR = "ITUT_93" THEN c ELSE t
  <2>1. DOMAIN i = Fields /\ i.iac = "IDLE" /\ i.clear_rtb = 0
    BY <1>7, SMT DEF sl_timer_stop, sl_in_service_ind, Fields
  <2>2. e = [d EXCEPT !.lsc = "IN_SERVICE"]
    <3> HIDE DEF i, c
    <3> QED
      BY <1>7 DEF sl_lsc_fisu_msu_received, i, c
  <2> HIDE DEF i, e
  <2>3. DOMAIN t = Fields /\ t.iac = "IDLE" /\ t.clear_rtb = 0 /\ t.lssu_available = 0
    BY <2>1, SMT DEF sl_txc_send_msu, Fields
  <2> HIDE DEF t
  <2>4. DOMAIN c = Fields /\ c.iac = "IDLE" /\ c.clear_rtb = 0 /\ c.lssu_available = 0
    BY <2>3, SMT DEF sl_rc_accept_msu_fisu, Fields
  <2> HIDE DEF c
  <2>5. DOMAIN d = Fields /\ d.iac = "IDLE" /\ d.clear_rtb = 0 /\ d.lssu_available = 0
    BY <2>3, <2>4
  <2> HIDE DEF d
  <2> QED
    BY <2>2, <2>5, SMT DEF Fields
<1>9. Steady(e, z)
  BY <1>8, AcceptedSteady DEF PcrLink
<1> HIDE DEF e, z
<1>10. Steady(e, sl_daedr_correct_su(z))
  BY <1>9, CorrectSteady, SteadyChain
<1>11. InService = sl_daedr_correct_su(z)
  <2>1. sl_rc_signal_unit(x, Fill, TRUE, TRUE) = z
    BY <1>6 DEF z
  <2>2. InService = sl_daedr_received_bits(x, Fill, TRUE, TRUE)
    BY ComesIntoService DEF Got, x
  <2>3. x.lsc # "POWER_OFF"
    BY <1>1
  <2> QED
    BY <2>1, <2>2, <2>3 DEF sl_daedr_received_bits
<1> QED
  BY <1>8, <1>10, <1>11 DEF Steady, Calm

\* The timers that fail a link do not expire: the peer is not silent or busy for
\* too long.  (T2 to T4 act only in alignment.)
Patient == Expiring \cap {"t1", "t6", "t7", "t8"} = {}

\* Both terminals are calm, and the only status unit under way is SIB.
OnlyBusy(q) == \A j \in 1..Len(q) : q[j].type = "LSSU" => q[j].sio = "SIB"
CInv == \A n \in Node : Calm(st[n]) /\ OnlyBusy(ch[n])

LEMMA OnlyBusyTail == ASSUME NEW q \in Seq(Su), q # <<>>, OnlyBusy(q) PROVE OnlyBusy(Tail(q))
<1> DEFINE r == Tail(q)
<1>1. Len(r) = Len(q) - 1 /\ Len(q) \in Nat /\ \A j \in 1..Len(r) : r[j] = q[j + 1]
  BY HeadTailProperties
<1> HIDE DEF r
<1>2. \A j \in 1..Len(r) : j + 1 \in 1..Len(q) /\ r[j] = q[j + 1]
  BY <1>1
<1>3. OnlyBusy(r)
  BY <1>2 DEF OnlyBusy
<1> QED
  BY <1>3 DEF r

LEMMA OnlyBusyMore ==
  ASSUME NEW q \in Seq(Su), OnlyBusy(q), NEW su \in Su, su.type = "LSSU" => su.sio = "SIB"
  PROVE  OnlyBusy(Append(q, su))
<1> DEFINE r == Append(q, su)
<1>1. /\ Len(r) = Len(q) + 1 /\ Len(q) \in Nat /\ r[Len(q) + 1] = su
      /\ \A j \in 1..Len(q) : r[j] = q[j]
  OBVIOUS
<1> HIDE DEF r
<1>2. \A j \in 1..Len(r) : (j \in 1..Len(q) /\ r[j] = q[j]) \/ r[j] = su
  BY <1>1
<1>3. OnlyBusy(r)
  BY <1>2 DEF OnlyBusy
<1> QED
  BY <1>3 DEF r

\* A step of one terminal and of one channel.
LEMMA CalmStep ==
  ASSUME TInv, CInv, NEW n \in Node, NEW y, Calm(y), st' = [st EXCEPT ![n] = y]
  PROVE  \A k \in Node : Calm(st'[k])
<1>1. st'[n] = y /\ \A k \in Node \ {n} : st'[k] = st[k]
  BY OneMoves
<1> QED
  BY <1>1 DEF CInv

LEMMA OnlyBusyStep ==
  ASSUME TInv, CInv, NEW n \in Node, NEW c, OnlyBusy(c), ch' = [ch EXCEPT ![n] = c]
  PROVE  \A k \in Node : OnlyBusy(ch'[k])
<1>1. ch'[n] = c /\ \A k \in Node \ {n} : ch'[k] = ch[k]
  BY OneChannel
<1> QED
  BY <1>1 DEF CInv

LEMMA SendCalm == ASSUME TInv, CInv, Send PROVE CInv'
<1> DEFINE x == st["A"]
           m == sent + 1
           y == sl_lsc_pdu(x, m)
<1>1. SlState(x) /\ Calm(x) /\ ~PduRefused(x) /\ st' = [st EXCEPT !["A"] = y] /\ ch' = ch
  BY DEF TInv, CInv, Node, Buffered, Send
<1>2. Steady(x, y)
  <2> DEFINE q == Append(x.tb, m)
             c == (x.Cm + 1) % CtrMod
             a == [x EXCEPT !.tb = q, !.Cm = c]
  <2>1. DOMAIN x = Fields
    BY <1>1 DEF SlState
  <2>2. y = sl_check_congestion(a)
    BY <1>1, <2>1, SMT DEF sl_lsc_pdu, sl_txc_message_for_transmission, Fields
  <2> HIDE DEF q, c, x, y
  <2>3. Steady(x, a)
    BY SMT DEF Steady, Fields
  <2> HIDE DEF a
  <2> QED
    BY <2>2, <2>3, SmallSteady, SteadyChain
<1> HIDE DEF y
<1>3. Calm(y)
  BY <1>1, <1>2, SteadyCalm
<1>4. "A" \in Node
  BY DEF Node
<1>5. \A k \in Node : Calm(st'[k])
  BY <1>1, <1>3, <1>4, CalmStep
<1> QED
  BY <1>1, <1>5 DEF CInv

LEMMA TransmitCalm == ASSUME TInv, CInv, NEW n \in Node, Transmit(n) PROVE CInv'
<1>1. PICK junk \in (IF st[n].pos = -1 THEN Junk ELSE {NoJunk}) :
        LET r == sl_txc_transmission_request(st[n], junk)
        IN  /\ r.su # NoSu
            /\ st' = [st EXCEPT ![n] = r.st]
            /\ ch' = [ch EXCEPT ![Peer(n)] = Append(@, r.su)]
  BY DEF Transmit
<1> DEFINE x == st[n]
           r == sl_txc_transmission_request(x, junk)
           c == Peer(n)
           q == ch[c]
           y == r.st
           su == r.su
<1>2. c \in Node
  BY PeerIs
<1>3. SlState(x) /\ Calm(x) /\ q \in Seq(Su) /\ OnlyBusy(q)
  BY <1>2 DEF TInv, CInv, Buffered
<1>4. su # NoSu /\ st' = [st EXCEPT ![n] = y] /\ ch' = [ch EXCEPT ![c] = Append(q, su)]
  BY <1>1, <1>2 DEF TInv
<1>5. Calm(y) /\ (su.type = "LSSU" => su.sio = "SIB")
  BY <1>3, <1>4, TransmittedCalm
<1>6. su \in Su
  <2>1. junk \in Junk /\ Buffered(x)
    BY DEF Junk, NoJunk, TInv
  <2> QED
    BY <1>4, <2>1, TransmittedBuffered
<1> HIDE DEF c, y, su, q
<1>7. \A k \in Node : Calm(st'[k])
  BY <1>4, <1>5, CalmStep
<1>8. OnlyBusy(Append(q, su))
  BY <1>3, <1>5, <1>6, OnlyBusyMore
<1>9. \A k \in Node : OnlyBusy(ch'[k])
  BY <1>2, <1>4, <1>8, OnlyBusyStep
<1> QED
  BY <1>7, <1>9 DEF CInv

\* A unit that arrives acknowledges what it may.
LEMMA ArrivesNormal ==
  ASSUME TInv, PInv, NEW c \in Node, ch[c] # <<>>
  PROVE  \E f \in Nat, l \in Nat, m \in Nat : \E b \in f..l :
           Tx(st[c], f, l, m) /\ Head(ch[c]).bsn = (b - 1) % Mod
<1>1. PICK f \in Nat, l \in Nat, n \in Nat, t \in Nat, b \in Seq(Nat) :
        Linked(st["A"], st["B"], ch["B"], ch["A"], sent, Received, f, l, n, t, b)
  BY DEF PInv
<1> DEFINE q == ch[c]
           h == Head(q)
<1>2. q \in Seq(Su) /\ 1 \in 1..Len(q) /\ h = q[1] /\ sent \in Nat
  BY DEF TInv
<1>3. CASE c = "A"
  <2>1. Back(q, f, t, b) /\ Tx(st[c], f, l, sent) /\ t <= n /\ n <= l
    BY <1>1, <1>3 DEF Linked, Rx
  <2> DEFINE g == b[1]
  <2>2. g \in Nat /\ h.bsn = (g - 1) % Mod /\ f <= g /\ g <= t
    BY <1>2, <2>1 DEF Back
  <2> HIDE DEF g, h
  <2>3. g \in f..l
    BY <2>1, <2>2
  <2> QED
    BY <1>2, <2>1, <2>2, <2>3 DEF h
<1>4. CASE c = "B"
  <2>1. Forward(q, l, n) /\ Tx(st[c], 0, 0, 0)
    BY <1>1, <1>4 DEF Linked
  <2>2. h.bsn = (0 - 1) % Mod
    BY <1>2, <2>1 DEF Forward
  <2> HIDE DEF h
  <2>3. 0 \in Nat /\ 0 \in 0..0
    OBVIOUS
  <2> QED
    BY <2>1, <2>2, <2>3 DEF h
<1> QED
  BY <1>3, <1>4 DEF Node

LEMMA ReceiveCalm == ASSUME PcrLink, TInv, PInv, CInv, NEW c \in Node, Receive(c) PROVE CInv'
<1>1. PICK flow \in FlowStates :
        st' = [st EXCEPT ![c] = IF @.rc # "IN_SERVICE" THEN @
                 ELSE sl_daedr_received_bits(@, Head(ch[c]), flow[1], flow[2])]
  BY DEF Receive
<1> DEFINE x == st[c]
           q == ch[c]
           su == Head(q)
           next == flow[1]
           own == flow[2]
           z == sl_daedr_received_bits(x, su, next, own)
           y == IF x.rc # "IN_SERVICE" THEN x ELSE z
<1>2. /\ SlState(x) /\ Calm(x) /\ q \in Seq(Su) /\ q # <<>> /\ OnlyBusy(q)
      /\ ch' = [ch EXCEPT ![c] = Tail(q)] /\ st' = [st EXCEPT ![c] = y]
  BY <1>1 DEF TInv, CInv, Buffered, Receive
<1>3. su.type = "LSSU" => su.sio = "SIB"
  <2>1. 1 \in 1..Len(q) /\ su = q[1]
    BY <1>2
  <2> QED
    BY <1>2, <2>1 DEF OnlyBusy
<1>4. PICK f \in Nat, l \in Nat, m \in Nat :
        \E b \in f..l : Tx(x, f, l, m) /\ su.bsn = (b - 1) % Mod
  BY <1>2, ArrivesNormal
<1> HIDE DEF x, q, su, next, own
<1>5. Calm(z)
  BY <1>2, <1>3, <1>4, ReceivedCalm
<1> HIDE DEF z
<1>6. Calm(y)
  BY <1>2, <1>5
<1> HIDE DEF y
<1>7. \A k \in Node : Calm(st'[k])
  BY <1>2, <1>6, CalmStep
<1>8. \A k \in Node : OnlyBusy(ch'[k])
  BY <1>2, OnlyBusyTail, OnlyBusyStep
<1> QED
  BY <1>7, <1>8 DEF CInv

LEMMA LoseCalm == ASSUME TInv, CInv, NEW c \in Node, Lose(c) PROVE CInv'
<1> DEFINE q == ch[c]
<1>1. /\ q \in Seq(Su) /\ q # <<>> /\ OnlyBusy(q) /\ ch' = [ch EXCEPT ![c] = Tail(q)] /\ st' = st
  BY DEF TInv, CInv, Lose
<1> HIDE DEF q
<1>2. \A k \in Node : OnlyBusy(ch'[k])
  BY <1>1, OnlyBusyTail, OnlyBusyStep
<1> QED
  BY <1>1, <1>2 DEF CInv

LEMMA ExpireCalm ==
  ASSUME Patient, TInv, CInv, NEW c \in Node, NEW t \in Timer, Expire(c, t)
  PROVE  CInv'
<1> DEFINE x == st[c]
           s == sl_timer_stop(x, t)
           y == sl_r_pcrse(s, t)
<1>1. SlState(x) /\ Calm(x) /\ st' = [st EXCEPT ![c] = y] /\ ch' = ch /\ t \in Expiring
  BY DEF TInv, CInv, Buffered, Expire
<1>2. t \in {"t2", "t3", "t4", "t5"}
  BY <1>1 DEF Patient, Timer
<1> HIDE DEF x
<1>3. Steady(x, s)
  BY SmallSteady
<1>4. Calm(s)
  BY <1>1, <1>3, SteadyCalm
<1>5. DOMAIN s = Fields
  BY <1>1, <1>3 DEF Steady, SlState
<1> HIDE DEF s
<1>6. Calm(y)
  <2>1. CASE t \in {"t2", "t3", "t4"}
    <3>1. sl_t2_expiry(s) = s /\ sl_t3_expiry(s) = s /\ sl_t4_expiry(s) = s
      BY <1>4 DEF Calm, sl_t2_expiry, sl_t3_expiry, sl_t4_expiry
    <3>2. y = s
      BY <2>1, <3>1 DEF sl_r_pcrse
    <3> QED
      BY <1>4, <3>2
  <2>2. CASE t = "t5"
    <3>1. Steady(s, sl_t5_expiry(s))
      BY SMT DEF Steady, sl_t5_expiry, sl_timer_start, sl_txc_send_sib, Fields
    <3>2. y = sl_t5_expiry(s)
      BY <2>2 DEF sl_r_pcrse
    <3> QED
      BY <1>4, <1>5, <3>1, <3>2 DEF Steady, Calm
  <2> QED
    BY <1>2, <2>1, <2>2
<1> HIDE DEF y
<1>7. \A k \in Node : Calm(st'[k])
  BY <1>1, <1>6, CalmStep
<1> QED
  BY <1>1, <1>7 DEF CInv

LEMMA DeliverCalm == ASSUME TInv, CInv, Deliver PROVE CInv'
<1>1. PICK k \in 1..Len(st["B"].rb) : st' = [st EXCEPT !["B"] = sl_rx_wakeup(@, k)] /\ ch' = ch
  BY DEF Deliver
<1> DEFINE x == st["B"]
           y == sl_rx_wakeup(x, k)
<1>2. SlState(x) /\ Calm(x) /\ st' = [st EXCEPT !["B"] = y] /\ "B" \in Node
  BY <1>1 DEF TInv, CInv, Buffered, Node
<1> HIDE DEF x
<1>3. Steady(x, y)
  <2> DEFINE n == Len(DeliverableRb(x, k))
             q == Dropped(x.rb, n)
             c == (x.Cr - n) % CtrMod
             u == [x EXCEPT !.rb = <<>>]
             v == [x EXCEPT !.rb = q, !.Cr = c]
  <2>1. DOMAIN x = Fields
    BY <1>2 DEF SlState
  <2>2. y \in {u, v}
    BY <2>1, SMT DEF sl_rx_wakeup, Fields
  <2> HIDE DEF q, c
  <2>3. Steady(x, u) /\ Steady(x, v)
    BY SMT DEF Steady, Fields
  <2> HIDE DEF u, v
  <2> QED
    BY <2>2, <2>3
<1> HIDE DEF y
<1>4. \A m \in Node : Calm(st'[m])
  BY <1>2, <1>3, SteadyCalm, CalmStep
<1> QED
  BY <1>1, <1>4 DEF CInv

LEMMA InitCalm == ASSUME PcrLink, Init PROVE CInv
<1>1. Calm(InService)
  BY InServiceCalm
<1>2. \A n \in Node : st[n] = InService /\ ch[n] = <<>>
  BY DEF Init
<1>3. OnlyBusy(<<>>)
  BY DEF OnlyBusy
<1> QED
  BY <1>1, <1>2, <1>3 DEF CInv

LEMMA StepCalm ==
  ASSUME PcrLink, Patient, TInv, PInv, CInv, [Next]_vars
  PROVE  CInv'
<1>1. CASE UNCHANGED vars
  BY <1>1 DEF vars, CInv
<1>2. CASE Send
  BY <1>2, SendCalm
<1>3. ASSUME NEW n \in Node, Transmit(n) \/ Receive(n) \/ Lose(n) PROVE CInv'
  BY <1>3, TransmitCalm, ReceiveCalm, LoseCalm
<1>4. ASSUME NEW n \in Node, NEW t \in Timer, Expire(n, t) PROVE CInv'
  BY <1>4, ExpireCalm
<1>5. CASE Deliver
  BY <1>5, DeliverCalm
<1> QED
  BY <1>1, <1>2, <1>3, <1>4, <1>5 DEF Next

(***************************************************************************)
(* However many units are lost, and whatever flow control and T5 do, a     *)
(* link in service stays in service on both sides: no BSN is ever judged   *)
(* abnormal (AbnormalBsnr) and no status unit but SIB goes out.            *)
(***************************************************************************)
THEOREM LossNeverFails == PcrLink /\ Patient => (Spec => []NeverFails)
<1> SUFFICES ASSUME PcrLink, Patient PROVE Spec => []NeverFails
  OBVIOUS
<1>1. Init => CInv
  BY InitCalm
<1>2. TInv /\ PInv /\ CInv /\ [Next]_vars => CInv'
  BY StepCalm
<1>3. Spec => [](TInv /\ PInv)
  BY PcrLinked
<1>4. CInv => NeverFails
  BY DEF CInv, Calm, NeverFails
<1> QED
  BY <1>1, <1>2, <1>3, <1>4, PTL DEF Spec
=============================================================================
