---------------------------- MODULE MC_RaplDaemon ----------------------------
(***************************************************************************)
(* The daemon on a two-package node, answering the cap and the recap      *)
(* request of one Elektron round at the same time.  The directory holds   *)
(* the control type itself, an MMIO zone, two packages with a sub-zone,   *)
(* a zone whose maximum cannot be read and one without a limit file.      *)
(* Maxima are in microwatts and kept below 2^31 / 100 so that TLC's       *)
(* integers hold M * N; 20 W at 7 % is a case where the double product    *)
(* rounds up past the exact ceiling.                                      *)
(***************************************************************************)
EXTENDS RaplDaemon, TLC

CONSTANTS eRapl, eMmio, e0, e00, e1, e2, e3

(* ioutil.ReadDir order: "intel-rapl" < "intel-rapl-mmio:0" <             *)
(* "intel-rapl:0" < "intel-rapl:0:0" < "intel-rapl:1" < ...               *)
MC_Entries == <<eRapl, eMmio, e0, e00, e1, e2, e3>>

MC_Fields ==
  (eRapl :> <<"intel-rapl">>) @@ (eMmio :> <<"intel-rapl-mmio", "0">>)
  @@ (e0 :> <<"intel-rapl", "0">>) @@ (e00 :> <<"intel-rapl", "0", "0">>)
  @@ (e1 :> <<"intel-rapl", "1">>) @@ (e2 :> <<"intel-rapl", "2">>)
  @@ (e3 :> <<"intel-rapl", "3">>)

MC_MaxPowerUW ==
  (eRapl :> Unreadable) @@ (eMmio :> 20000000) @@ (e0 :> 20000000)
  @@ (e00 :> 5000000) @@ (e1 :> 12345678) @@ (e2 :> Unreadable)
  @@ (e3 :> 15000000)

MC_HasLimitFile ==
  (eRapl :> FALSE) @@ (eMmio :> TRUE) @@ (e0 :> TRUE) @@ (e00 :> TRUE)
  @@ (e1 :> TRUE) @@ (e2 :> TRUE) @@ (e3 :> FALSE)

(* A body that does not decode, the bounds of (0, 100] and both sides of  *)
(* them, and 7 %.                                                         *)
MC_Payloads == {Malformed, 0, 1, 7, 100, 101}

MC_BootLimit == [e \in Range(MC_Entries) |-> 10000000]

====
