------------------------------- MODULE MC_Defs --------------------------------
(* The inputs of the defs.h macros for TLC: every uint16_t, and limbs      *)
(* drawn from the values at the byte and sign boundaries for the wider     *)
(* types, so that every byte position carries a non-zero, a 0x80 and a     *)
(* 0xFF pattern.                                                           *)
EXTENDS Defs

Edge == {0, 1, 127, 128, 255, 256, 4095, 32767, 32768, 65280, 65534, 65535}
MCWords16 == {<<n>> : n \in Limb}
MCWords32 == Edge \X Edge
MCWords64 == Edge \X Edge \X Edge \X Edge
\* Sizes up to SIZE_MAX - 7: the largest that NNI_ALIGN_UP does not wrap.
Tops == {0, 1, 65535}
MCSizes == {s \in Tops \X Tops \X Tops \X ((0..300) \cup (65520..65535)) :
              ~(s[1] = 65535 /\ s[2] = 65535 /\ s[3] = 65535 /\ s[4] > 65528)}
\* Counts as a single term, and as sums of two and three terms.
MCStructs == {<<0>>, <<3>>, <<2, 1>>, <<1, 1, 1>>}
\* The default build, and one that overrides the header size and a queue length.
MCBuilds == {[o \in {} |-> 0],
             [o \in {"NANO_HEADER_SIZE", "NANO_QOS_LEN"} |->
                IF o = "NANO_HEADER_SIZE" THEN 5 ELSE 128]}
MCAsserts == [ndebug : BOOLEAN, ifelse : BOOLEAN, c : BOOLEAN, x : BOOLEAN]
MCDividends == {0, 64, 1000}
=============================================================================
