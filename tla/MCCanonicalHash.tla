-------------------------- MODULE MCCanonicalHash --------------------------
(* Instances of CanonicalHash for TLC: bytes of two bits, of which 2 and 3  *)
(* are not ASCII and 0 is a blank; the strings of a field may be prefixes   *)
(* of each other and may look like a length prefix.                         *)
EXTENDS CanonicalHash

MCDomain == <<3, 1>>
MCCids == {<<0>>, <<1, 1>>}
MCTitles == {<<>>, <<1, 1>>}
MCDescriptions == {<<>>, <<1>>, <<1, 1>>}
MCContentTypes == {<<>>, <<2, 1>>}
Tag == {<<1>>, <<2>>, <<1, 3>>}
MCTagLists == UNION {[1..n -> Tag] : n \in 0..2} \cup {<< <<2>>, <<1>>, <<2>> >>}

=============================================================================
