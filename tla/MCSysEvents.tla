----------------------------- MODULE MCSysEvents -----------------------------
(***************************************************************************)
(* A language and a region that are installed and one each that is not, a  *)
(* battery that is low or critical, two notifications under way.  vconf    *)
(* watches every key or refuses the language.                              *)
(***************************************************************************)
EXTENDS SysEvents

MCVconfFailures == {{}, {"LANGSET"}}
MCBatteryLevels == {2, 3}
MCRegistrable == {"LANGCHG", "LOWBAT"}
=============================================================================
