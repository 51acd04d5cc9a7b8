---------------------------- MODULE MCPqcVerify ----------------------------
(* PqcVerify on two slots, with the blocks that tell the checks apart.     *)
EXTENDS PqcVerify

CONSTANTS b1, b2,            \* two bodies
          owner, stranger,   \* two keys; owner's is in the bootloader
          head, scratch, stk, app   \* SRAM: pool (two cells), stack, the rest

MCBodies == {b1, b2}
MCKeys   == {owner, stranger}
MCPool   == {head, scratch}
MCStack  == {stk}
MCCells  == {head, scratch, stk, app}

Good(body) == BuildBlock(owner, owner, body)

\* A signed image, images signed by somebody else or carrying the block of an
\* older build, a damaged block, a re-keyed one, a signature cut short, an
\* ML-DSA-87 block, a slot where no block was appended, and an altered image.
MCImages ==
  LET image(n, block) == [body |-> b1, len |-> n, block |-> block]
  IN  { image(1, Good(b1)), image(4, Good(b1)),
        image(2, BuildBlock(stranger, stranger, b1)),
        image(2, BuildBlock(owner, stranger, b1)),
        image(2, Good(b2)),
        image(2, [Good(b2) EXCEPT !.digest = b1]),
        image(2, [Good(b1) EXCEPT !.crc = FALSE]),
        image(2, [Good(b1) EXCEPT !.sigLen = @ - 1]),
        image(2, [Good(b1) EXCEPT !.alg = 3, !.pkLen = 2592]),
        image(2, Blank),
        [image(2, Good(b1)) EXCEPT !.body = b2] }
=============================================================================
