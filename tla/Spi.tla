--------------------------------- MODULE Spi ---------------------------------
(***************************************************************************)
(* The SPI master of the SD card slot (rtl/periph/spi.vhd), byte by byte:  *)
(* eight periods of spi_clk are one step, Exchange.                        *)
(***************************************************************************)
EXTENDS Integers, Sequences

VARIABLE
    spi                     \* busy: bit_count > 0; out, data: the shift register
                            \* before and after an exchange; cs: cs_reg

\* What a read of the data register gives while bits are moving.
Moving == 256

SpiInit == spi \in [busy : {FALSE}, out : {255}, data : {255}, cs : {0, 1}]

\* Address 00: a write during an exchange is lost.
WriteData(byte) ==
    spi' = IF spi.busy THEN spi
           ELSE [spi EXCEPT !.busy = TRUE, !.out = byte, !.data = Moving]

\* Address 10.
WriteCs(level) == spi' = [spi EXCEPT !.cs = level]

\* The last bit: the byte on MISO has replaced the byte sent.
Exchange(miso) ==
    /\ spi.busy
    /\ spi' = [spi EXCEPT !.busy = FALSE, !.data = miso]
=============================================================================
