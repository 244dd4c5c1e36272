------------------------------- MODULE MCChip -------------------------------
(* Times in ticks of 10 ms: frames of discovery, of the handshake and of   *)
(* the connection at 9600 baud, and the longest of them at 2400.           *)
EXTENDS Chip

MCPowerOn == [reg \in Reg |-> IF reg = "CTRL2" THEN Revision ELSE 0]
MCExchanges == {[frame |-> f, window |-> w] :
                  <<f, w>> \in {<<4, 20>>, <<2, 50>>, <<9, 50>>, <<34, 50>>}}
MCDeaf == {{}, {"MODE"}, {"PDCLK", "CTRL2"}}
=============================================================================
