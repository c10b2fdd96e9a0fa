----------------------------- MODULE MCCapture -----------------------------
(***************************************************************************)
(* Small instances of Capture: files of every record format, whole,        *)
(* truncated, with sizes that reach across the next header or the end of   *)
(* the file, and with 64-bit fields whose sums wrap.                       *)
(***************************************************************************)
EXTENDS Capture

UpTo(n, S) == UNION {[1 .. k -> S] : k \in 0 .. n}

(* 62 as a size sends a JFR walk back. *)
JfrFiles == {<<JfrMagic>> \o t : t \in UpTo(5, {2, 3, 4, JfrMagic, 62})}

HprofFiles == {<<HprofMagic>> \o h \o t : h \in {<<0, 1>>, <<7, 0, 2>>, <<0, 3>>, <<7>>},
                                          t \in UpTo(5, {0, 1, 2, 4})}

ClassicFiles == {<<PcapMagic, 0, 0>> \o t : t \in UpTo(4, {0, 1, 2, 9})}
NgFiles == {<<SHB, 3, b>> \o <<EPB, t, c, 7, 7>> \o u :
              b \in {BOM, 0}, t \in {2, 3, 4, 5, 9}, c \in {0, 1, 2, 4, 15},
              u \in {<<>>, <<EPB>>, <<5, 3, 7>>, <<EPB, 4, 1, 7>>, <<EPB, 5, 1, 7, 7>>}}

PerfFiles == {<<PerfMagic, d[1], d[2], b1, b2, 7>> \o f \o g \o <<7, 8>> :
                d \in {<<5, 1>>, <<5, 0>>, <<0, 6>>, <<62, 3>>, <<5, 40>>, <<12, 0>>}, b1, b2 \in {0, 1},
                f \in {10, 11, 62} \X {0, 1, 2, 3}, g \in {<<11, 1>>, <<7, 2>>, <<9, 63>>}}

CoreFiles == {<<CoreMagic, o, n>> \o <<4, 9, s>> \o l \o <<ns, ds, 3, 7, 7, 7, 7>> \o <<8, 8>> :
                o \in {3, 62}, n \in {0, 1, 2, 3}, s \in {0, 2, 3, 5, 7, 40},
                l \in {<<1, 16, 2>>, <<1, 62, 3>>, <<1, 2, 8>>, <<1, 0, 0>>, <<4, 62, 3>>, <<2, 16, 2>>},
                ns \in {0, 1}, ds \in {0, 1, 2, 3}}

OtherFiles == {<<>>, <<7>>, <<7, 8, 9>>, <<TarMagic, 7>>, <<SqliteMagic, 7>>, <<OddCore, 3, 1, 1, 6, 0>>, <<JfrMagic, 3, 7>>, <<SHB, 3, BOM>>}

Plain(S, m) == {[bytes |-> b, ext |-> "none", member |-> m] : b \in S}
MCFiles ==
    Plain(JfrFiles \cup HprofFiles \cup ClassicFiles \cup NgFiles \cup PerfFiles \cup CoreFiles, FALSE)
    \cup Plain({b \in JfrFiles \cup HprofFiles \cup ClassicFiles : Len(b) <= 5}, TRUE)
    \cup {[bytes |-> b, ext |-> e, member |-> m] :
            b \in OtherFiles, e \in {"none", "pcap", "tar", "nsys"}, m \in BOOLEAN}

MCStrays == {<<[offset |-> 0, len |-> 1]>>, <<[offset |-> 3, len |-> 40]>>,
             <<[offset |-> 2, len |-> 1], [offset |-> 1, len |-> 2]>>}
=============================================================================
