-------------------------------- MODULE Cpio --------------------------------
(***************************************************************************)
(* Walking a cpio archive in memory: cpio_list, cpio_cat, cpio_get_exec,   *)
(* cpio_get_file_size and initramfs_init all go from header to header by   *)
(* the sizes in the headers, to the TRAILER!!! or something that is none.  *)
(*                                                                         *)
(* An archive is a sequence of entries [name, namesize, filesize]; in      *)
(* memory it is a function from addresses to headers.                      *)
(***************************************************************************)
EXTENDS Integers, SequencesExt

HEADER_SIZE == 110    \* sizeof(struct cpio_newc_header)
FILENAME_SIZE == 256  \* char filename[256]

Trailer == [name |-> "TRAILER!!!", namesize |-> 11, filesize |-> 0]

\* (mutant: a multiple is moved to the next one)
Bug_align(n, alignment) == (n \div alignment + 1) * alignment

\* The next multiple
align(n, alignment) == ((n + alignment - 1) \div alignment) * alignment

\* The address behind an entry
NextHeader(header, entry) ==
    LET filenamesize == align(HEADER_SIZE + entry.namesize, 4) - HEADER_SIZE
    IN  header + HEADER_SIZE + filenamesize + align(entry.filesize, 4)

DataAddress(header, entry) == header + align(HEADER_SIZE + entry.namesize, 4)

\* A walk ends at TRAILER!!!, and where there is no header.  It is not followed
\* past a name that is copied over the end of filename, onto the stack.
Ends(image, header) ==
    \/ header \notin DOMAIN image
    \/ image[header].name = Trailer.name \/ image[header].namesize > FILENAME_SIZE

\* The headers that are visited; no walk makes more rounds than there are headers
Visited(image, cpio_addr) ==
    LET Rounds == 0 .. Cardinality(DOMAIN image)
        header[k \in Rounds] ==
            IF k = 0 THEN cpio_addr
            ELSE IF Ends(image, header[k - 1]) THEN header[k - 1]
            ELSE NextHeader(header[k - 1], image[header[k - 1]])
    IN  [k \in 1 .. Min({n \in Rounds : Ends(image, header[n])}) |-> header[k - 1]]

\* The first header of a name, as a set
Matching(image, cpio_addr, target_file) ==
    LET visited == Visited(image, cpio_addr)
        is == {i \in DOMAIN visited : image[visited[i]].name = target_file}
    IN  IF is = {} THEN {} ELSE {visited[Min(is)]}

cpio_get_file_size(image, cpio_addr, target_file) ==
    LET found == Matching(image, cpio_addr, target_file)
    IN  IF found = {} THEN 0 ELSE image[Min(found)].filesize

\* Where cpio_cat and cpio_get_exec find the file, as a set
cpio_get_exec(image, cpio_addr, target_file) ==
    {DataAddress(h, image[h]) : h \in Matching(image, cpio_addr, target_file)}

-----------------------------------------------------------------------------
\* What the newc format says (external): a header is 110 bytes and followed by
\* the name; the name and the file are both filled up with zeros so that what
\* follows is at a multiple of four.
Filled(n) == n + ((4 - (n % 4)) % 4)

\* Where the headers of an archive at an address are, the trailer's the last
Headers(archive, at) ==
    LET place[k \in 1 .. Len(archive) + 1] ==
            IF k = 1 THEN at
            ELSE Filled(Filled(place[k - 1] + 110 + archive[k - 1].namesize)
                            + archive[k - 1].filesize)
    IN  place

\* Where the data of the k-th file is
DataAt(archive, at, k) == Filled(Headers(archive, at)[k] + 110 + archive[k].namesize)

\* An archive, ended by the trailer, in memory
Image(archive, at) ==
    LET entries == Append(archive, Trailer)
        place == Headers(archive, at)
    IN  [addr \in Range(place) |->
            entries[CHOOSE k \in DOMAIN entries : place[k] = addr]]
=============================================================================
