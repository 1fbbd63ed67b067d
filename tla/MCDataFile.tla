----------------------------- MODULE MCDataFile -----------------------------
(* Instances of DataFile for TLC: a file of two chunks and a bit, one of   *)
(* exactly one chunk, and a text.                                          *)
EXTENDS DataFile, TLC

McLengthOf == "a" :> 7 @@ "b" :> 3 @@ "t" :> 2
McSizeOf == "a" :> <<2, 1, 2>> @@ "b" :> <<1>> @@ "t" :> <<1>>
McNameLength == "a" :> 1 @@ "b" :> 2 @@ "t" :> 1
=============================================================================
