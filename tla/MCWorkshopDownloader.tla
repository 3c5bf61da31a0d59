------------------------ MODULE MCWorkshopDownloader ------------------------
(* WorkshopDownloader for one or two downloads of the same item.            *)
EXTENDS WorkshopDownloader

\* Garry's Mod items: both conversions are possible.
GmodRequests == {r \in Request : r.gmod /\ r.steamworks # r.steamcmd}
KeepConvert  == {r \in GmodRequests : r.convert /\ ~r.overwrite /\ r.steamcmd}

SomeKind == {"folder", "lzma", None}
SomeLink == {"zip", "lzma", None}
NoLink   == {None}
LzmaOnly == {"lzma"}

AnyOld   == SUBSET Paths
SomeOld  == {{p} : p \in Paths} \cup {{}, Paths}
NoneOld  == {{}}

\* Downloads that ended stay as they are.
Over == (\A d \in Downloads : stage[d] \in {"ok", "failed", "stopped"}) /\ UNCHANGED vars
MCSpec == Init /\ [][Next \/ Over]_vars

=============================================================================
