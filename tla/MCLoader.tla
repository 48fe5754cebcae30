------------------------------ MODULE MCLoader ------------------------------
(* Two frames below one megabyte, two above four gigabytes; the UEFI image   *)
(* crosses the latter boundary.                                              *)
EXTENDS Loader

MCFrames == 0 .. 15
UefiMap(low) == [f \in MCFrames |->
  CASE f = 0 -> low
    [] f = 1 -> "BootServices"
    [] f = 4 -> "Runtime"
    [] f \in {13, 14} -> "Loader"
    [] OTHER -> "Conventional"]
MCUefiMaps == {UefiMap("Conventional"), UefiMap("Runtime")}

Entry(first, last, kind) == [frames |-> first .. last, kind |-> kind]
(* In order; a reserved entry before and across the free ones; an entry      *)
(* twice, free and not; too little memory; one that must be ignored.         *)
MCE820Maps == {
  <<Entry(0, 1, "free"), Entry(2, 3, "reserved"), Entry(4, 15, "free")>>,
  <<Entry(5, 6, "reserved"), Entry(1, 5, "free"), Entry(6, 15, "free")>>,
  <<Entry(2, 15, "free"), Entry(9, 15, "free"), Entry(9, 9, "reserved"), Entry(0, 1, "invalid")>>,
  <<Entry(2, 6, "free"), Entry(15, 15, "free"), Entry(0, 15, "invalid")>>,
  <<Entry(2, 5, "free")>>,
  <<Entry(2, 6, "free"), Entry(15, 15, "overflow")>>}

MCUefiTables == {<<>>, <<"v1", "other">>, <<"v1", "v2">>}
MCBiosTables == {<<"bad">>, <<"bad", "v1">>, <<"v2", "v1">>}
=============================================================================
