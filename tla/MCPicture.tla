------------------------------ MODULE MCPicture ------------------------------
(* Constants of the runs of Picture. *)
EXTENDS Picture

(* A key is missing, whatever else is wrong; a value is; or the body has a *)
(* statusCode of its own. *)
BadBodies ==
  {[GoodBody EXCEPT !.key["threshold"] = "missing", !.key["bucket_name"] = "invalid"],
   [GoodBody EXCEPT !.key["file_name"] = "empty"],
   [GoodBody EXCEPT !.statusCode = 200]}
=============================================================================
