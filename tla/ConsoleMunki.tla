------------------------------ MODULE ConsoleMunki ------------------------------
(***************************************************************************)
(* The pages of Munki: software, packages, distribution points and the     *)
(* client resources.                                                       *)
(***************************************************************************)
EXTENDS ConsoleSanta

\* features/munki/overview.tsx:14-68 MunkiOverviewPage
MunkiOverviewPage ==
  Page(MunkiIndexRoute.path,
       {Part(Reads({MunkiSoftwareListQuery, MunkiPackagesQuery, PointsQuery,
                    ClientResourcesQuery}), {},
             Links({MunkiSoftwareIndexRoute.path, MunkiPackagesIndexRoute.path,
                    PointsIndexRoute.path, ClientResourcesRoute.path}, {}))}, "")

-----------------------------------------------------------------------------
(* Software                                                                 *)

\* features/munki/software/list.tsx:52-110 softwareColumns
MunkiSoftwareColumns ==
  Part(Sorted(MunkiSoftwareListQuery, {"name", "category", "developer", "updated_at"}), {},
       {LinkTo(MunkiTitleIndexRoute.path, {})})
\* features/munki/software/list.tsx:211-237 SoftwareRowActions
MunkiSoftwareRowActions ==
  Part({}, {Offer(DeleteMunkiSoftware, {Edit("munki.software")}, <<>>)},
       {LinkTo(MunkiTitleEditRoute.path, {Edit("munki.software")})})
\* features/munki/software/list.tsx:112-209 MunkiSoftwareListPage
MunkiSoftwareListPage ==
  Page(MunkiSoftwareIndexRoute.path,
       {MunkiSoftwareColumns, MunkiSoftwareRowActions,
        Part({}, {Offer(BulkDeleteMunkiSoftware, {Edit("munki.software")}, <<>>)},
             {LinkTo(MunkiSoftwareNewRoute.path, {Edit("munki.software")})})}, "")
\* features/munki/software/delete-dialog.tsx:7-44 MunkiSoftwareDeleteDialog
MunkiSoftwareDeleteDialog ==
  Part({}, {Offer(DeleteMunkiSoftware, {Edit("munki.software")},
                  MunkiSoftwareIndexRoute.path)}, {})
\* features/munki/software/detail.tsx:143-188 MunkiSoftwareTargets
MunkiSoftwareTargets == LabelTargetDetails
\* features/munki/software/detail.tsx:57-141 MunkiSoftwareDetailPage
MunkiSoftwareDetailPage ==
  Page(MunkiTitleIndexRoute.path,
       {Part(Reads({MunkiSoftwareQuery}), {},
             {LinkTo(MunkiTitleEditRoute.path, {Edit("munki.software")}),
              LinkTo(MunkiPackageIndexRoute.path, {})}),
        MunkiSoftwareTargets, MunkiSoftwareDeleteDialog}, "")
\* features/munki/software/editable-icon.tsx:41-191 EditableMunkiIcon
EditableMunkiIcon == Part(Reads({MunkiIconsQuery}), {Offer(UploadMunkiIcon, {}, <<>>)}, {})
\* features/munki/software/create.tsx:22-91 MunkiSoftwareCreatePage
MunkiSoftwareCreatePage ==
  Page(MunkiSoftwareNewRoute.path,
       {EditableMunkiIcon,
        Part(Reads({MunkiSoftwareListQuery}),
             {Offer(CreateMunkiSoftware, {}, MunkiTitleIndexRoute.path)},
             {LinkTo(MunkiSoftwareIndexRoute.path, {})})}, "guarded")
\* features/munki/software/edit.tsx:85-311 MunkiSoftwareEditPage
MunkiSoftwareEditPage ==
  Page(MunkiTitleEditRoute.path,
       {EditableMunkiIcon, LabelTargetSetEditor,
        Part(Reads({MunkiSoftwareQuery, MunkiSoftwareListQuery}),
             {Offer(UpdateMunkiSoftware, {}, MunkiTitleIndexRoute.path)},
             Links({MunkiTitleIndexRoute.path, MunkiPackageIndexRoute.path,
                    MunkiPackageNewRoute.path}, {}))}, "guarded")

-----------------------------------------------------------------------------
(* Packages                                                                 *)

\* features/munki/packages/list.tsx:56-120 packageColumns
MunkiPackageColumns ==
  Part(Sorted(MunkiPackagesQuery, {"software_name", "version", "type", "size", "updated_at"}),
       {}, {LinkTo(MunkiPackageIndexRoute.path, {})})
\* features/munki/packages/list.tsx:227-245 PackageRowActions
PackageRowActions ==
  Part({}, {Offer(DeleteMunkiPackage, {Edit("munki.packages")}, <<>>)},
       {LinkTo(MunkiPackageEditRoute.path, {Edit("munki.packages")})})
\* features/munki/packages/list.tsx:122-225 MunkiPackageListPage
MunkiPackageListPage ==
  Page(MunkiPackagesIndexRoute.path,
       {MunkiPackageColumns, PackageRowActions,
        Part({}, {Offer(BulkDeleteMunkiPackages, {Edit("munki.packages")}, <<>>)},
             {LinkTo(MunkiPackageNewRoute.path, {Edit("munki.packages")})})}, "")
\* features/munki/packages/delete-dialog.tsx:7-44 MunkiPackageDeleteDialog
MunkiPackageDeleteDialog ==
  Part({}, {Offer(DeleteMunkiPackage, {Edit("munki.packages")},
                  MunkiPackagesIndexRoute.path)}, {})
\* features/munki/packages/detail.tsx:20-165 MunkiPackageDetailPage
MunkiPackageDetailPage ==
  Page(MunkiPackageIndexRoute.path,
       {Part(Reads({MunkiPackageQuery}), {},
             {LinkTo(MunkiPackageEditRoute.path, {Edit("munki.packages")}),
              LinkTo(MunkiTitleIndexRoute.path, {})}),
        MunkiPackageDeleteDialog}, "")
\* features/munki/packages/fields.tsx:65-108 PackageForm
PackageForm == Part({}, {}, {LinkTo(MunkiTitleIndexRoute.path, {})})
\* features/munki/packages/create.tsx:17-97 MunkiPackageCreatePage
MunkiPackageCreatePage ==
  Page(MunkiPackageNewRoute.path,
       {PackageForm,
        Part(Reads({MunkiPackagesQuery, MunkiSoftwareListQuery}),
             {Offer(CreateMunkiPackage, {}, MunkiPackagesIndexRoute.path)},
             {LinkTo(MunkiPackagesIndexRoute.path, {})})}, "guarded")
\* features/munki/packages/edit.tsx:19-137 MunkiPackageEditPage
MunkiPackageEditPage ==
  Page(MunkiPackageEditRoute.path,
       {PackageForm,
        Part(Reads({MunkiPackageQuery, MunkiPackagesQuery}),
             {Offer(UpdateMunkiPackage, {}, MunkiPackageIndexRoute.path)},
             {LinkTo(MunkiPackageIndexRoute.path, {})})}, "guarded")

-----------------------------------------------------------------------------
(* Distribution points                                                      *)

\* features/munki/distribution-points/list.tsx:183-287 distributionPointColumns
PointColumns ==
  Part(Sorted(PointsQuery, {"position", "name"}), {}, {LinkTo(PointIndexRoute.path, {})})
\* features/munki/distribution-points/list.tsx:289-314 DistributionPointRowActions
PointRowActions ==
  Part({}, {Offer(DeletePoint, {Edit("munki.distribution-points")}, <<>>)},
       {LinkTo(PointEditRoute.path, {Edit("munki.distribution-points")})})
\* features/munki/distribution-points/list.tsx:316-413 DistributionPointReorder
PointReorder ==
  Part({}, {Offer(ReorderPoints, {Edit("munki.distribution-points")}, <<>>)}, {})
\* features/munki/distribution-points/list.tsx:54-181 DistributionPointListPage
PointListPage ==
  Page(PointsIndexRoute.path,
       {PointColumns, PointRowActions, PointReorder,
        Part({}, {}, {LinkTo(PointNewRoute.path, {Edit("munki.distribution-points")})})}, "")
\* features/munki/distribution-points/delete-dialog.tsx:7-40 DistributionPointDeleteDialog
PointDeleteDialog ==
  Part({}, {Offer(DeletePoint, {Edit("munki.distribution-points")}, PointsIndexRoute.path)}, {})
\* features/munki/distribution-points/detail.tsx:137-199 PackageStateTable
PackageStateTable == Part({}, {}, {LinkTo(MunkiPackageIndexRoute.path, {})})
(* Followed every 5 seconds while it is shown.                              *)
\* features/munki/distribution-points/detail.tsx:30-135 DistributionPointDetailPage
PointDetailPage ==
  Page(PointIndexRoute.path,
       {Part(Every(5, Reads({PointQuery})),
             {Offer(RotatePointKey, {Edit("munki.distribution-points")}, <<>>)},
             {LinkTo(PointEditRoute.path, {Edit("munki.distribution-points")})}),
        PackageStateTable, PointDeleteDialog}, "")
\* features/munki/distribution-points/create.tsx:8-46 DistributionPointCreatePage
PointCreatePage ==
  Page(PointNewRoute.path,
       {Part({}, {Offer(CreatePoint, {}, PointIndexRoute.path)},
             {LinkTo(PointsIndexRoute.path, {})})}, "guarded")
\* features/munki/distribution-points/edit.tsx:8-47 DistributionPointEditPage
PointEditPage ==
  Page(PointEditRoute.path,
       {Part(Reads({PointQuery}), {Offer(UpdatePoint, {}, PointIndexRoute.path)},
             {LinkTo(PointIndexRoute.path, {})})}, "guarded")

-----------------------------------------------------------------------------
(* Client resources: the form is there for everyone and editable for some.  *)

\* features/munki/client-resources/edit.tsx:41-122 MunkiClientResourcesEditForm
ClientResourcesEditForm ==
  Part({}, {Offer(m, {Edit("munki.client-resources")}, <<>>) :
              m \in {SaveClientResources, UploadBanner, UploadArchive, DeleteClientResources}},
       {})
\* features/munki/client-resources/edit.tsx:18-39 MunkiClientResourcesEditPage
ClientResourcesPage ==
  Page(ClientResourcesRoute.path,
       {Part(Reads({ClientResourcesQuery}), {}, {}), ClientResourcesEditForm}, "guarded")

\* routes/_authenticated.tsx:1-12 Route
MunkiPages ==
  {MunkiOverviewPage, MunkiSoftwareListPage, MunkiSoftwareDetailPage, MunkiSoftwareCreatePage,
   MunkiSoftwareEditPage, MunkiPackageListPage, MunkiPackageDetailPage, MunkiPackageCreatePage,
   MunkiPackageEditPage, PointListPage, PointDetailPage, PointCreatePage, PointEditPage,
   ClientResourcesPage}
=============================================================================
