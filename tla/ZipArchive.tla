----------------------------- MODULE ZipArchive -----------------------------
(***************************************************************************)
(* The zip archive as COFD_ZipEntry (src/ofd/cofd_zipentry.cpp) sees it     *)
(* through third_party/zip.  An archive is a function from entry names to   *)
(* contents.  Two facts of the library matter to its callers:              *)
(*                                                                         *)
(*   - an entry opened for writing is always appended, so writing a name   *)
(*     that exists leaves two entries with it, and a reader, which scans   *)
(*     the unsorted central directory from the start, finds the older one; *)
(*   - the directory is written back by zip_close only, over the place      *)
(*     where the appended entries now lie, so that a process which dies    *)
(*     between the first write and the close can leave no directory at all.*)
(***************************************************************************)

(* A function from some of the names to contents.                          *)
IsArchive(a, names, contents) ==
  /\ a = [n \in DOMAIN a |-> a[n]]
  /\ DOMAIN a \subseteq names
  /\ \A n \in DOMAIN a : a[n] \in contents

(* ReadBinary / ReadAndCacheXml: zip_entry_open in reading mode.           *)
HasEntry(archive, name) == name \in DOMAIN archive

(* WriteBinary: zip_entry_open in writing mode appends, the older wins.    *)
AppendEntry(archive, name, content) ==
  IF name \in DOMAIN archive
  THEN archive
  ELSE [n \in DOMAIN archive \cup {name} |->
          IF n = name THEN content ELSE archive[n]]

(* DeleteEntries: every entry whose name matches is dropped.               *)
DeleteEntry(archive, name) == [n \in DOMAIN archive \ {name} |-> archive[n]]

=============================================================================
