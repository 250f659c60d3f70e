---------------------------- MODULE CheckedConfig ----------------------------
(***************************************************************************)
(* config.json (module ConfigFile) where the entries that are let through  *)
(* are those on_buttonBox_accepted checks (module Entries).                *)
(***************************************************************************)
EXTENDS ConfigFile, Entries

ASSUME EntriesAssumption == Valid = {f \in Fields : EntriesAccepted(f)}

(* Once the configuration dialog has been accepted, the address it has     *)
(* saved is the IPv4 address it asks for (ConfigDialog.ui:91): one of      *)
(* another form is refused with a warning (ConfigDialog.cpp:60).           *)
AddressIsQuad ==
  closed = "accepted" /\ dialog = "none" /\ disk \in Documents =>
    DottedQuad(disk.fields.address)
=============================================================================
