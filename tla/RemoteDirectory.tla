--------------------------- MODULE RemoteDirectory ---------------------------
(***************************************************************************)
(* A directory of the server as it fills up, and what the readers of       *)
(* Listing make of its listing.  The server and its other clients are not  *)
(* part of the repository: they add entries in any order.  The properties  *)
(* compare what the program reads with what is there.                      *)
(***************************************************************************)
EXTENDS Listing, SequencesExt

CONSTANTS
  DirMode, FileMode,   (* the first word of a line                         *)
  Group,               (* the fourth word                                  *)
  Other,               (* links, month, day and time                       *)
  Owners,              (* account names the server may show                *)
  Sizes,               (* words of the size column                         *)
  EntryNames,          (* names of entries, as the words they print as     *)
  MaxEntries           (* bound on the number of lines                     *)

ASSUME DirectoryAssumption ==
  /\ {DirMode, FileMode, Group, Other} \cup Owners \cup Sizes \subseteq Words
  /\ EntryNames \subseteq Seq(Words) \ {<< >>}
  /\ DirMode \in StartsWithD
  /\ FileMode \notin StartsWithD

VARIABLE entries   (* the lines of the directory, in the server's order    *)

(* A name of two words is a name with a blank in it.  "." and ".." are     *)
(* directories.                                                            *)
Entry ==
  {e \in [mode : {DirMode, FileMode}, owner : Owners, size : Sizes,
          name : EntryNames] :
     e.name[1] \in Dots => e.mode = DirMode}

Line(e) == <<e.mode, Other, e.owner, Group, e.size, Other, Other, Other>> \o e.name

(* What "ftpin >> str" yields: blanks and line ends only separate words.   *)
Tokens(es) == FlattenSeq([i \in DOMAIN es |-> Line(es[i])])

Init == entries = << >>

Names == {entries[i].name : i \in DOMAIN entries}

(* Somebody stores a file or makes a directory of a new name. *)
AddEntry(e) ==
  /\ Len(entries) < MaxEntries
  /\ e.name \notin Names
  /\ \E k \in 0 .. Len(entries) : entries' = InsertAt(entries, k + 1, e)

(* Somebody stores a file that is already there. *)
ReplaceFile(i, size) ==
  /\ entries[i].mode = FileMode
  /\ entries' = [entries EXCEPT ![i].size = size]

Next ==
  \/ \E e \in Entry : AddEntry(e)
  \/ \E i \in DOMAIN entries, size \in Sizes : ReplaceFile(i, size)

Spec == Init /\ [][Next]_entries
-----------------------------------------------------------------------------
(* Every name is one word: what the program itself leaves on a server,     *)
(* since it turns blanks into dashes before it stores a file.              *)
SingleWords == \A i \in DOMAIN entries : Len(entries[i].name) = 1

NamesOf(mode) == {entries[i].name[1] : i \in {j \in DOMAIN entries : entries[j].mode = mode}}

DirectoriesExact ==
  SingleWords => parseDirs(Tokens(entries)) = NamesOf(DirMode) \ Dots

FilesExact ==
  SingleWords => parseFiles(Tokens(entries)) = NamesOf(FileMode)

(* FTP_GetDirectories offers exactly the subdirectories, and FTP_GetFiles  *)
(* exactly the files, of a directory whose names hold no blank.            *)
EntriesExact == DirectoriesExact /\ FilesExact

(* getFileSize of a file is the size the server shows for it, as long as   *)
(* none of the words the directory test reads starts with "d".             *)
SizeExactWhenReachable ==
  (/\ SingleWords
   /\ \A i \in LinesOf(Tokens(entries)) : At(Tokens(entries), i) \notin StartsWithD)
  => \A i \in DOMAIN entries :
       entries[i].mode = FileMode =>
         getFileSize(Tokens(entries), entries[i].name[1]) = NumberOf[entries[i].size]
=============================================================================
