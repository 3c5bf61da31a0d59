---------------------------- MODULE PackageStore ----------------------------
(***************************************************************************)
(* What a package promises its readers, with no volumes, offsets, CRCs or  *)
(* locks: a catalog of contents that is replaced only while nobody reads   *)
(* it, and readers that get all of it or an error.                          *)
(***************************************************************************)
EXTENDS Sequences

CONSTANTS Names, Byte, None

VARIABLES
  catalog,    \* what the directory promises, or None when it cannot be read
  reader,     \* "idle", "reading", "ok" or "failed"
  delivered   \* what the last successful reader was given

storeVars == <<catalog, reader, delivered>>

Catalogs == [Names -> Seq(Byte)]

Init == catalog = None /\ reader = "idle" /\ delivered = None

\* A pack run replaces, damages or completes the catalog.
Repack ==
  /\ reader # "reading"
  /\ catalog' \in Catalogs \cup {None}
  /\ UNCHANGED <<reader, delivered>>

Open ==
  /\ reader # "reading" /\ catalog # None
  /\ reader' = "reading" /\ delivered' = None
  /\ UNCHANGED catalog

Refuse ==
  /\ reader' = "failed" /\ delivered' = None
  /\ UNCHANGED catalog

Deliver ==
  /\ reader = "reading"
  /\ reader' = "ok" /\ delivered' = catalog
  /\ UNCHANGED catalog

\* A reader that is done goes, for one that asks for less.
Leave ==
  /\ reader # "reading"
  /\ reader' = "idle" /\ delivered' = None
  /\ UNCHANGED catalog

Next == Repack \/ Open \/ Refuse \/ Deliver \/ Leave

Spec == Init /\ [][Next]_storeVars

=============================================================================
