---------------------------- MODULE MCYandexGlagol ----------------------------
(* A small instance of YandexGlagol for TLC: two loops; the host of the    *)
(* shorter address occurs in the longer one.                               *)
EXTENDS YandexGlagol

CONSTANTS l1, l2, short, long

TwoLoops == {l1, l2}
TwoAddresses == {short, long}
Lookalikes == {<<short, short>>, <<long, long>>, <<short, long>>}

=============================================================================
