--------------------------- MODULE MCStorageData ---------------------------
(***************************************************************************)
(* Two clients on one document name and another one, the two profiles the  *)
(* host program writes, one attribute both have and one neither has.       *)
(***************************************************************************)
EXTENDS StorageData

CONSTANTS k1, k2

MCClient == {k1, k2}
MCName == {"permis", "mineur"}
MCDoc == {"Dupont", "Martin"}
MCKey == {"Majeur", "Adresse"}
MCValue == {"Oui", "Non"}
MCAttr == [d \in MCDoc |-> [Majeur |-> IF d = "Martin" THEN "Non" ELSE "Oui"]]

=============================================================================
