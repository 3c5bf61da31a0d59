---------------------------- MODULE MCVpkPackage ----------------------------
(* Two files; with one byte of preload the contents are an empty file, one *)
(* that is all preload and two with one and two bytes of data.             *)
EXTENDS VpkPackage

MCContents == {<<>>, <<1>>, <<2, 1>>, <<1, 2>>, <<1, 2, 1>>}

AllModes == {"single", "singleMd5", "multi"}

\* The CRC alone, and both: without the CRC nothing is promised.
MCOptions == [crc : {TRUE}, md5 : BOOLEAN]

\* Nothing is left to do once the bounds on packs, unpacks and edits are used up.
Idle == stage = "idle" /\ ~Reading /\ UNCHANGED vars
MCNext == Next \/ Idle
MCSpec == Init /\ [][MCNext]_vars

=============================================================================
