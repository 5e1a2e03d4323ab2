------------------------ MODULE MCLiteRtLmTranslator ------------------------
(* A device whose GPU driver does anything and whose CPU works. *)
EXTENDS LiteRtLmTranslator

CONSTANTS GPU

MCOrder == <<GPU, CPU>>
MCOutcomes == [d \in {GPU, CPU} |->
                 IF d = CPU THEN {"ok"} ELSE {"ok", "throws", "crashes"}]
=============================================================================
