------------------------------- MODULE Entries -------------------------------
(***************************************************************************)
(* The checks of ConfigDialog::on_buttonBox_accepted (ConfigDialog.cpp:    *)
(* 38-70).  A name is empty or not, an id is a sequence of characters, and *)
(* an address is what stands between its dots, as toUInt reads it.         *)
(***************************************************************************)
EXTENDS Naturals, Sequences

CONSTANTS
  NoNumber,  (* a part that toUInt refuses                                 *)
  Nothing    (* a part without a character                                 *)

Digits == {"0", "1", "2", "3", "4", "5", "6", "7", "8", "9"}

NameAccepted(name) == name # ""

IdAccepted(id) ==
  /\ Len(id) = 10
  /\ \A k \in 1 .. Len(id) : id[k] \in Digits

(* split(".", Qt::SkipEmptyParts).                                         *)
SkipEmptyParts(address) == SelectSeq(address, LAMBDA part : part # Nothing)

IsByte(part) == part # NoNumber /\ part # Nothing /\ part <= 255

AddressAccepted(address) ==
  LET addl == SkipEmptyParts(address)
  IN  /\ Len(addl) = 4
      /\ \A k \in 1 .. 4 : IsByte(addl[k])

EntriesAccepted(e) == NameAccepted(e.name) /\ IdAccepted(e.id) /\ AddressAccepted(e.address)

(* An address of the form the dialog asks for (ConfigDialog.ui:91).        *)
DottedQuad(address) ==
  /\ Len(address) = 4
  /\ \A k \in 1 .. 4 : IsByte(address[k])
=============================================================================
