----------------------------- MODULE MCWinMedia -----------------------------
(* All tools with every image and volume, then machines that lack one tool,  *)
(* and the extraction to a directory.  T = 4 puts the limits of a quarter    *)
(* and three quarters on a unit.                                             *)
EXTENDS WinMedia

Base == [win |-> TRUE, bsdtar |-> TRUE, sevenz |-> TRUE, wimlib |-> TRUE, hivex |-> TRUE,
         udf |-> TRUE, large |-> TRUE, wim |-> "big", esd |-> "none", fat |-> TRUE,
         force |-> FALSE, bypass |-> FALSE, other |-> FALSE]

Volumes == {[Base EXCEPT !.fat = f, !.force = s, !.wim = w[1], !.esd = w[2], !.udf = u] :
              f \in BOOLEAN, s \in BOOLEAN, u \in BOOLEAN,
              w \in {<<"big", "none">>, <<"small", "none">>, <<"none", "small">>, <<"none", "big">>}}
Options == {[Base EXCEPT !.bypass = b, !.other = o, !.hivex = h] :
              b \in BOOLEAN, o \in BOOLEAN, h \in BOOLEAN}
Bare    == {[Base EXCEPT !.bsdtar = b, !.sevenz = s, !.wimlib = w, !.udf = FALSE, !.fat = f] :
              b \in BOOLEAN, s \in BOOLEAN, w \in BOOLEAN, f \in BOOLEAN}
Folders == {[Base EXCEPT !.win = FALSE, !.fat = FALSE, !.wim = "none", !.udf = u, !.sevenz = s,
                         !.large = l] :
              u \in BOOLEAN, s \in BOOLEAN, l \in BOOLEAN}

MCSetups == Volumes \cup Options \cup Bare \cup Folders
MCRooms  == {<<"room", "unset", "unset", "small", "small">>,
             <<"empty", "small", "room", "small", "small">>,
             <<"small", "small", "small", "small", "small">>}
StopRooms == {<<"unset", "unset", "room", "room", "small">>}
=============================================================================
