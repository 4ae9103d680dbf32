----------------------------- MODULE FlashImage -----------------------------
(***************************************************************************)
(* Flash as the upgrade programs see it: an image is an array of 4K blocks  *)
(* (the unit of an erase) of 256-byte pages (the unit of programming).  A   *)
(* page holds what a version of the application has there, is blank, or is  *)
(* Torn: something no version has there.                                    *)
(***************************************************************************)
EXTENDS Naturals

CONSTANTS Blocks,       \* 4K blocks of an image (IMAGE_A_SIZE / 4096 = 54)
          Pages,        \* 256-byte pages of a block (4096 / 256 = 16)
          Versions,     \* versions of the application
          NoVersion,    \* no version at all
          Blank, Torn   \* an erased page; a page no version can be read from

ASSUME SizeAssumption == Blocks \in Nat \ {0} /\ Pages \in Nat \ {0}
ASSUME VersionAssumption == Versions # {} /\ {NoVersion, Blank, Torn} \cap Versions = {}
ASSUME PageAssumption == Blank # Torn

BlockIx == 0 .. Blocks - 1
PageIx == 0 .. Pages - 1
Content == Versions \cup {Blank, Torn}
Block == [PageIx -> Content]
Image == [BlockIx -> Block]

BlankBlock == [p \in PageIx |-> Blank]
TornBlock == [p \in PageIx |-> Torn]
Complete(v) == [b \in BlockIx |-> [p \in PageIx |-> v]]
IsComplete(image) == \E v \in Versions : image = Complete(v)

(* Fast page programming only writes an erased page (FLASH_ProgramPage_Fast). *)
ProgramPage(old, data) == IF old = Blank THEN data ELSE Torn

(* What power cut short in an erase or a program leaves of an image. *)
TornImages(image) ==
  {image} \cup {[image EXCEPT ![b] = TornBlock] : b \in BlockIx}
          \cup {[image EXCEPT ![b][p] = Torn] : b \in BlockIx, p \in PageIx}

=============================================================================
