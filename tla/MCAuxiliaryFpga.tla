-------------------------- MODULE MCAuxiliaryFpga --------------------------
(***************************************************************************)
(* Four slots of a flash chip, and one that is bad; two versions of the    *)
(* firmware.  A behaviour is about some kinds of call on a unit that is in *)
(* order, or that has a status file of an earlier day.                     *)
(***************************************************************************)
EXTENDS AuxiliaryFpga

Programmed ==
  [slot \in Slots |-> CASE slot \in {1, 3} -> Image("config", 1, "clean")
                        [] slot = 2 -> Image("scrub", 1, "clean")
                        [] OTHER -> Garbage]
Scrubs == {<<1, 2>>, <<2, 2>>}
Unit(kinds, mature, n, ups) ==
  [kinds |-> kinds, calls |-> n, upsets |-> ups, mature |-> mature, file |-> Empty,
   images |-> [c \in Chip |-> Programmed], lists |-> {}, golds |-> {}, versions |-> {1},
   fuses |-> 1..80, decays |-> Scrubs]

\* A second image of another version, and a location that is disabled
Filed(images) == [ru |-> "ok", current |-> 1, images |-> images]
Two == <<ImageLocation(1, 2, TRUE, "ok"), ImageLocation(1, 4, FALSE, "ok")>>
Crossed == <<[ImageLocation(2, 2, TRUE, "ok") EXCEPT !.enabled = FALSE],
             ImageLocation(1, 4, FALSE, "critical"), ImageLocation(2, 4, FALSE, "ok")>>
WithFile(unit, images, version) ==
  [unit EXCEPT !.file = Filed(images), !.images = [c \in Chip |-> [Programmed EXCEPT
                          ![4] = Image("scrub", version, "clean")]]]

Lists == {<<NoBlock, NoBlock>>, <<4, 2>>, <<1, 5>>, <<0, OddBlock>>, <<3, 2>>}
FlashUnit(lists, golds, n, fuses) ==
  [Unit({"flash"}, TRUE, n, IF fuses = {} THEN 0 ELSE 1) EXCEPT
     !.lists = lists, !.golds = golds, !.versions = {2}, !.fuses = fuses, !.decays = {}]

MCCases ==
  {Unit({"status", "loop"}, TRUE, 4, 1), Unit({"status", "check"}, TRUE, 3, 1),
   Unit({"page0", "blind"}, TRUE, 3, 1), Unit({"loop", "blind", "status"}, TRUE, 3, 1),
   Unit({"status", "reflash"}, TRUE, 3, 1), Unit({"program", "blind"}, TRUE, 3, 1),
   WithFile(Unit({"loop"}, TRUE, 4, 1), Two, 2),
   [WithFile(Unit({"loop"}, TRUE, 3, 2), Two, 1) EXCEPT !.decays = {<<1, 2>>}], WithFile(Unit({"loop", "blind"}, TRUE, 3, 1), Two, 1),
   WithFile(Unit({"loop", "reflash", "check"}, TRUE, 3, 1), Crossed, 1),
   WithFile(Unit({"loop", "check"}, FALSE, 3, 1), Two, 1),
   FlashUnit({<<4, 2>>}, {<<4>>}, 2, 1..80), FlashUnit(Lists, {<<NoBlock>>, <<4>>, <<5>>}, 2, {}),
   [FlashUnit({<<4, 2>>}, {<<4>>}, 3, {}) EXCEPT !.kinds = {"flash", "program", "loop", "status"}, !.versions = {1, 2}]}
MCSlots == 1..6
MCBad == {<<1, 5>>, <<2, 6>>}
MCKnown == {<<1, 5>>}
=============================================================================
