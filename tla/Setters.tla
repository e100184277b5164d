------------------------------ MODULE Setters ------------------------------
(***************************************************************************)
(* The registers that the operations of r800_state write                   *)
(* (src/r800_state.cpp), each operation as the sequence of its writes.     *)
(***************************************************************************)
EXTENDS DefaultState

Product(sizes) == FoldSeq(LAMBDA m, n : m * n, 1, sizes)

\* Arguments that end up in a field are all zero or as large as it takes.
Load == {0, 1}
UpTo(load, max) == load * max

\* The sizes of buffers, in dwords.
Size(s) == 16 + s

set_lds(load) ==
  <<Write(\h8e2c, Field(16, UpTo(load, \hffff))),
    Write(\h288e8, Plainly(UpTo(load, \h3fff)) \cup Field(14, UpTo(load, \h3ffff)))>>

set_gds(load) ==
  <<Write(\h28728, Plainly(1)), Write(\h28720, IF load = 0 THEN Zero ELSE AllOnes),
    Write(\h28724, IF load = 0 THEN Zero ELSE AllOnes)>>

select_se(load) ==
  <<Write(\h802c, Field(16, UpTo(load, \h3fff)) \cup Flag(30)
                  \cup IF load = 1 THEN Flag(31) ELSE Zero)>>

set_export(s) ==
  <<Relocated(Write(\h9010, Plainly(256 * s))), Write(\h9014, Plainly(4 * Size(s)))>>

set_tmp_ring(s) ==
  <<Relocated(Write(\h8e10, Plainly(256 * s))), Write(\h8e14, Plainly(4 * Size(s)))>>

\* Bug: without a size there is nothing to set.
NoTmpRingSkipped == <<>>

no_tmp_ring == <<Write(\h8e14, Zero)>>

set_loop_consts(n, load) ==
  LoopConsts(n, UpTo(load, 4095), UpTo(load, 4095), UpTo(load, 255))

\* RAT, COLOR_32, ARRAY_LINEAR_ALIGNED and NUMBER_UINT.
RatInfoWord == Flag(26) \cup Field(2, 13) \cup Field(8, 1) \cup Field(12, 4)

set_rat(id, s) ==
  <<Relocated(Element("BASE", id, Base(id), <<Plainly(s)>>))>>
    \o (IF id < 6 THEN <<Relocated(Element("IMMED", id, Immed(id), <<Plainly(s)>>))>>
        ELSE <<>>)
    \o <<Relocated(Element("INFO", id, Info(id), <<RatInfoWord>>)),
         Relocated(Element("ATTRIB", id, Attrib(id), <<Flag(4)>>)),
         Element("DIM", id, Dim(id), <<Plainly(Size(s))>>)>>
    \o (IF id < 8 THEN <<Relocated(Element("CMASK", id, Cmask(id), <<Zero>>)),
                         Relocated(Element("FMASK", id, Fmask(id), <<Zero>>))>>
        ELSE <<>>)

\* A size asserted to be less than the 511 its field holds.
setup_const_cache(i, s, load) ==
  <<set_surface_sync({27}, UpTo(load, 510)),
    Element("CACHE_SIZE", i, CacheSize(i), <<Plainly(UpTo(load, 510))>>),
    Relocated(Element("CACHE_BASE", i, CacheBase(i), <<Plainly(s)>>))>>

\* Bug: bits of the offset above its fortieth are not masked off.
BaseHiUnmasked(hi) == Plainly(hi)

BaseHi(hi) == Plainly(hi % 256)

\* An offset is a lower dword and an upper one, hi.
set_vtx_resource(id, s, hi, load) ==
  <<set_surface_sync({23, 24}, 4 * Size(s)),
    Relocated(Element("FETCH", id, Fetch(id),
      <<Plainly(256 * s), Plainly(4 * Size(s) - 1),
        BaseHi(hi) \cup Field(8, 4 * UpTo(load, 511)) \cup Field(20, UpTo(load, 63))
          \cup Field(26, UpTo(load, 3)) \cup Field(30, UpTo(load, 3))
          \cup IF load = 1 THEN Literal({19, 28, 29}) ELSE Zero,
        (UNION {Field(b, UpTo(load, 7)) : b \in {3, 6, 9, 12}})
          \cup IF load = 1 THEN Flag(2) ELSE Zero,
        Zero, Zero, Zero, Field(30, 3)>>))>>

prepare_compute_shader(load) ==
  <<set_surface_sync({27}, 256), Relocated(Write(\h288d0, Zero)),
    Burst(\h288d4, <<Plainly(UpTo(load, 255)) \cup Field(8, UpTo(load, 255)), Zero>>),
    Write(\h8c00, Literal({0, 1}) \cup Field(18, 1)),
    Write(\h8c04, Field(28, UpTo(load, 15))), Write(\h8c08, Zero),
    Write(\h8c0c, Field(16, 16)),
    Write(\h8e20, AllOnes), Write(\h8e24, AllOnes), Write(\h8e28, AllOnes),
    Write(\h286c8, Zero), Write(\h8c10, Zero), Write(\h8c14, Zero),
    Write(\h8c20, Zero), Write(\h8c24, Zero), Write(\h8c28, Field(16, 64)),
    Write(\h8c18, Zero), Write(\h8c1c, Field(8, 64))>>

direct_dispatch(local) ==
  LET size(d) == Plainly(IF d <= Len(local) THEN local[d] ELSE 1)
  IN  <<Write(\h8958, Plainly(1)),
        Write(\h899c, Zero), Write(\h89a0, Zero), Write(\h89a4, Zero),
        Write(\h286ec, size(1)), Write(\h286f0, size(2)), Write(\h286f4, size(3)),
        Write(\h8970, Plainly(Product(local))), Write(\h89ac, Plainly(Product(local))),
        Packet("DISPATCH_DIRECT", [i \in 1 .. 4 |-> Plainly(1)])>>
=============================================================================
