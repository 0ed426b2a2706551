------------------------------ MODULE MCRailway ------------------------------
(* Five stations, the lines of a file written both ways round.             *)
EXTENDS Railway

MCLines == {<<0, 1, 3>>, <<0, 2, 1>>, <<2, 1, 1>>, <<1, 3, 1>>, <<0, 1, 1>>,
            <<1, 1, 1>>, <<3, 2, 1>>, <<1, 0, 1>>, <<3, 4, 1>>}
=============================================================================
